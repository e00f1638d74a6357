-------------------------------- MODULE Ingest --------------------------------
(***************************************************************************)
(* What the dashboard's subscriber makes of one message of the controller:   *)
(* storage.py and incidents.py.                                             *)
(*                                                                         *)
(* A device is the row the dashboard shows and its open incident.  A message *)
(* carries no number here but the answer to the one question asked of it:    *)
(* has a later one of this boot been stored?  A telemetry message is marked  *)
(* late if its time lies before that of the last one merged.  The reading,   *)
(* the settings and the wording of reasons are left out; BOOT, SELF_TEST,    *)
(* IDLE and MONITORING, which differ in the reason only, are all "calm".     *)
(***************************************************************************)
EXTENDS Naturals

\* ACTIVE, with its ranks.
Rank == [unattended |-> 1, warning |-> 2, shutdown |-> 3]
Active == DOMAIN Rank

NoIncident == [episode |-> 0, peak |-> 0]

\* The row of a device nothing has been heard of.  "ended" is history: the
\* episodes whose incident has been closed.
NewDevice == [boot |-> "none", state |-> "unknown", faults |-> {}, incident |-> NoIncident, ended |-> {}]

Close(device) ==
    IF device.incident = NoIncident THEN device
    ELSE [device EXCEPT !.incident = NoIncident, !.ended = @ \cup {device.incident.episode}]

Higher(a, b) == IF a < b THEN b ELSE a

\* The peak is what the incident began with.
RecordStateMutant(device, state, episode) ==
    IF state \in Active
    THEN [device EXCEPT !.incident = IF @ = NoIncident THEN [episode |-> episode, peak |-> Rank[state]] ELSE @]
    ELSE IF state = "fault" THEN device ELSE Close(device)

\* record_state: an active state opens the incident or goes on with it, calm and
\* a restart close it, FAULT leaves it open.
RecordState(device, state, episode) ==
    IF state \in Active
    THEN [device EXCEPT !.incident = [episode |-> IF @ = NoIncident THEN episode ELSE @.episode,
                                      peak |-> Higher(Rank[state], @.peak)]]
    ELSE IF state = "fault" THEN device ELSE Close(device)

\* Every message is taken for the newest.
OrderMutant(device, old) == "live"

\* track_boot: what is older than the newest of this boot is history.
Order(device, old) == IF device.boot = "current" /\ old THEN "historical" ELSE "live"

\* track_boot: a boot not seen before closes the incident of the one before.
TrackBoot(device) ==
    IF device.boot = "current" THEN device
    ELSE [IF device.boot = "older" THEN Close(device) ELSE device EXCEPT !.boot = "current"]

\* persist: telemetry is merged if it is the newest, in sequence and in time,
\* and moves the incident; a list of faults is too (merge keeps the field of a
\* later time); events are only stored.
Persist(device, message, old) ==
    LET live == Order(device, old) = "live"
        tracked == TrackBoot(device) IN
    CASE message.kind = "telemetry" /\ live /\ ~ message.late ->
            RecordState([tracked EXCEPT !.state = message.state, !.faults = message.faults],
                        message.state, message.episode)
      [] message.kind = "faults" /\ live /\ ~ message.late -> [tracked EXCEPT !.faults = message.faults]
      [] OTHER -> tracked
=============================================================================
