------------------------------ MODULE AgentRow ------------------------------
(***************************************************************************)
(* One row of the agents table and the statements that rewrite it          *)
(* (internal/storage/queries/agent.sql). last_seen_at is reduced to what   *)
(* the sweeper asks of it: never stamped, within the offline threshold     *)
(* ("fresh"), or beyond it ("stale").                                      *)
(***************************************************************************)
CONSTANTS
  Subject,     \* token subjects
  NoSubject    \* bound_subject = ''

ASSUME NoSubjectAssumption == NoSubject \notin Subject

AgentRecord == [life: {"absent", "live", "deleted"},
                status: {"pending", "online", "offline"},
                seen: {"never", "fresh", "stale"},
                token: {"unused", "used"},
                subject: Subject \cup {NoSubject}]

AbsentAgent == [life |-> "absent", status |-> "pending", seen |-> "never",
                token |-> "unused", subject |-> NoSubject]

CreateAgent(row) == [row EXCEPT !.life = "live"]

SoftDeleteAgent(row) == [row EXCEPT !.life = "deleted"]

\* (Mutant: an omitted status is written as it came.)
UpdateAgentStatus_Raw(cur, row, status) == [row EXCEPT !.status = status]

\* Service.Update: an empty status keeps the one read before (cur).
UpdateAgentStatus(cur, row, status) ==
  [row EXCEPT !.status = IF status = "" THEN cur.status ELSE status]

\* (Mutant: the beat is recorded, the status is left to the next Register.)
AgentHeartbeat_SeenOnly(row) == [row EXCEPT !.seen = "fresh"]

AgentHeartbeat(row) == [row EXCEPT !.seen = "fresh", !.status = "online"]

\* (Mutant: status = 'online' instead of status <> 'offline'.)
Sweepable_Online(row) == row.life = "live" /\ row.status = "online" /\ row.seen = "stale"

\* MarkStaleAgentsOffline's WHERE clause.
Sweepable(row) ==
  /\ row.life = "live"
  /\ row.status # "offline"
  /\ row.seen = "stale"

MarkOffline(row) == [row EXCEPT !.status = "offline"]

\* (Mutant: the last Register wins.)
Bindable_LastWins(row, s) == row.life = "live"

\* BindAgentSubject: the first subject wins, the same one may come again.
Bindable(row, s) == row.life = "live" /\ row.subject \in {NoSubject, s}

BindAgentSubject(row, s) == [row EXCEPT !.subject = s]

\* (Mutant: whether the token is still unused is checked on the row read before.)
Enrollable_Unguarded(row) == row.life = "live"

Enrollable(row) == row.life = "live" /\ row.token = "unused"

MarkAgentEnrolled(row) == [row EXCEPT !.token = "used"]
=============================================================================
