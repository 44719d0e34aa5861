------------------------------- MODULE MC_J2534 -------------------------------
(***************************************************************************)
(* Instances of J2534 for model checking.                                  *)
(***************************************************************************)
EXTENDS J2534

CONSTANTS s1, s2, s3, p1, u1

AllOps == {"Connect", "Disconnect", "ReadMsgs", "WriteMsgs",
           "StartPeriodicMsg", "StopPeriodicMsg", "StartMsgFilter",
           "StopMsgFilter", "SetProgrammingVoltage", "Ioctl"}

\* s1's certificate raises an error that is tolerated, s3's one that is not.
SomeErrors == [s \in Servers |->
    CASE s = s1 -> {"HostNameMismatch"}
      [] s = s3 -> {"SelfSignedCertificate"}
      [] OTHER  -> {}]

\* 0 ms, and 2147483640 ms, to which WS_REQUEST_TIMEOUT cannot be added.
ShortTimeout == {0}
BothTimeouts == {0, HalfLong - 1}

NoErrors == [s \in Servers |-> {}]

=============================================================================
