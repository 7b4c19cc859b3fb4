---------------------------- MODULE MCControlPlane ----------------------------
(***************************************************************************)
(* ControlPlane on small instances.                                        *)
(***************************************************************************)
EXTENDS ControlPlane, TLC

CONSTANTS c1, c2, c3

SlowBoot == [pace |-> "slow", fault |-> "none", rate |-> Never]

Nothing == <<>>
Writer(route, members) == [route |-> route, members |-> members]
Completer(route, header, body) ==
  [route |-> route, header |-> header, body |-> body]
Simple(route) == [route |-> route]

Outage == Writer("put", [fault |-> "http_error", rate |-> Always])
Recovery == Writer("patch", [fault |-> "none"])
Speed == Writer("patch", [pace |-> "default"])
Nonsense == Writer("patch", [pace |-> "no such pace"])

\* A fault forced by a header, one switched off by the body over the header.
Forced == Completer("chat", [fault |-> "http_error"], Nothing)
Spared == Completer("responses", [fault |-> "http_error", pace |-> "slow"],
                    [fault |-> "none"])

Traffic ==
  {Outage, Recovery, Speed, Nonsense, Forced, Spared, Simple("reset"),
   Simple("requests"), Simple("conversations"),
   Completer("chat", Nothing, Nothing),
   Completer("responses", [rate |-> 1], [fault |-> "unknown"])}

Patches == {Recovery, Speed, Outage}

Symmetric == Permutations(Calls)
=============================================================================
