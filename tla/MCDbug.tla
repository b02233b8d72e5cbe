-------------------------------- MODULE MCDbug --------------------------------
(* Dbug for TLC: one thread makes every call, the other one writes beside it. *)
EXTENDS Dbug, TLC

CONSTANTS t1, t2

F(flag, mods) == [flag |-> flag, mods |-> mods]

(* Of MySKLverboseEnable's own string "d:t:L:F" the last two fields only     *)
(* change what a line says.                                                 *)
Verbose == <<F("d", <<>>), F("t", <<>>)>>
ToFile  == <<F("t", <<>>), F("o", <<"log">>)>>
Select  == <<F("d", <<"key">>), F("f", <<"get">>), F("p", <<"worker">>)>>
Shallow == <<F("t", <<1>>), F("o", <<>>)>>

ControlsOf == (t1 :> {ToFile, Select}) @@ (t2 :> {Verbose})

CallsOf ==
    (t1 :> {"enable", "push", "disable", "suspend", "resume", "pop", "process", "exit",
            "check", "print", "lock", "alloc", "cleaned"})
 @@ (t2 :> {"enable", "alloc"})
=============================================================================
