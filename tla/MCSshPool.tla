----------------------------- MODULE MCSshPool -----------------------------
(* Instances of SshPool for TLC. *)
EXTENDS SshPool, TLC

CONSTANTS c1, c2, k1, e1, e2, v1, l1, l2, h1, h2

OneCaller  == {c1}
TwoCallers == {c1, c2}
OneChanger == {k1}
NoChanger  == {}
TwoConns   == {e1, e2}
OneVM      == {v1}
OneLogin   == {l1}
TwoLogins  == {l1, l2}
TwoKeys    == {h1, h2}
OneKey     == {h1}

Alike == Permutations(TwoCallers) \cup Permutations(Conns)
         \cup Permutations(TwoLogins)
=============================================================================
