---------------------------- MODULE MCCleanupJobs ----------------------------
(* Two jobs, one of each type, whose payloads share a message.             *)
EXTENDS CleanupJobs

CONSTANTS jm, jr, m1, m2

MCJobs == {jm, jr}
MCRoomJobs == {jr}
MCMessages == {m1, m2}
MCPayload == (jm :> <<m1>>) @@ (jr :> <<m1, m2>>)

=============================================================================
