---------------------------- MODULE MCIPCameras -----------------------------
\* Small instances of IPCameras.
EXTENDS IPCameras, TLC

CONSTANTS d1, u1, a1, a2, w1, p1

MCDahua     == {d1}
MCUNV       == {u1}
MCAddrs     == {a1, a2}
MCUsers     == {w1}
MCPasswords == {p1}

\* Up to the names of the addresses: a Dahua camera beside a UNV camera. The Dahua
\* camera must be initialized and says so; or it is initialized, but says nothing of
\* it, and CheckStatus does not hear it at first.
MCStart == {r \in [Ids -> Cameras] :
              /\ r[d1] \in {[addr |-> a1, init |-> "required", near |-> TRUE, tells |-> TRUE],
                           [addr |-> a1, init |-> "completed", near |-> FALSE, tells |-> FALSE]}
              /\ r[u1] = [addr |-> a2, init |-> "completed", near |-> TRUE, tells |-> FALSE]}
=============================================================================
