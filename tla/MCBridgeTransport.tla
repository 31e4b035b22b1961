-------------------------- MODULE MCBridgeTransport --------------------------
(* BridgeTransport for TLC.  The environment has one of two budgets: every request
   and no fault, or one request less and all the faults.                        *)
EXTENDS BridgeTransport

Frugal == Total(received', Conns) = MaxRequests => faults' = MaxFaults

MCSpec == /\ Init /\ [][Next /\ Frugal]_vars
          /\ WF_vars(IoThread)
          /\ WF_vars(MainSend \/ MainWake \/ Stopping)
          /\ WF_vars(StopBy(FALSE))
=============================================================================
