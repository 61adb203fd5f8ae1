----------------------------- MODULE MCLibrary ------------------------------
(* Two photos of one name and day, one of them on a server, and one from a phone. *)
EXTENDS Library, TLC

MCName  == "a" :> "x" @@ "b" :> "x" @@ "p" :> "y"
MCDayOf == "x" :> "day" @@ "y" :> "day"
=============================================================================
