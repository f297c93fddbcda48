-------------------------- MODULE MCFrontEndConfig --------------------------
(* Configurations of up to two AFEs, in any order, twice the same one, or  *)
(* with one that does not exist or a value out of range at the end.        *)
EXTENDS FrontEndConfig

Accepted == [afe : AFE, gain : {1}, bias : {0, 1}]
Refused == [afe : {9}, gain : {1}, bias : {1}]
           \cup [afe : AFE, gain : {1}, bias : {3}]
           \cup [afe : AFE, gain : {3}, bias : {1}]
MCAfeLists == {<<>>} \cup {<<c>> : c \in Accepted \cup Refused}
              \cup {<<c, d>> : c \in Accepted, d \in Accepted \cup Refused}
=============================================================================
