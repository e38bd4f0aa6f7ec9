---------------------------- MODULE AlertRepository ----------------------------
(***************************************************************************)
(* Persistence: src/db/session.py and src/db/alert_repository.py.  The     *)
(* pipeline and the API save alerts to one PostgreSQL database, which may  *)
(* fail at any statement and come back.  A process asks for the database   *)
(* once, when it starts.  save_alert blocks its process: one session each. *)
(***************************************************************************)
EXTENDS Integers, FiniteSets

CONSTANTS Processes, Severities,
          HistoryLimit,                   \* alerts a reader asks for: 50
          MaxAlerts, MaxStarts, MaxClock  \* bounds

ASSUME HistoryAssumption == HistoryLimit \in Nat
ASSUME RepositoryBounds == {MaxAlerts, MaxStarts, MaxClock} \subseteq Nat

VARIABLES
  server,     \* whether PostgreSQL answers, and the last id it gave
  alerts,     \* the committed rows of the table
  available,  \* available[p]: _available of the process
  session,    \* session[p]: the row that is being saved
  returned,   \* history: ids save_alert returned
  starts, now

dbvars == <<server, alerts, available, session, returned, starts, now>>

NoSession == [step |-> "none", severity |-> "none", id |-> 0, created |-> 0]

InitDatabase ==
  /\ server = [up |-> TRUE, id |-> 0]
  /\ alerts = {} /\ returned = {}
  /\ available = [p \in Processes |-> FALSE]
  /\ session = [p \in Processes |-> NoSession]
  /\ starts = 0 /\ now = 0

\* init_db, as the process starts; an open session of the one before is rolled
\* back by the server.
InitDb(p) ==
  /\ starts < MaxStarts
  /\ starts' = starts + 1
  /\ available' = [available EXCEPT ![p] = server.up]
  /\ session' = [session EXCEPT ![p] = NoSession]
  /\ UNCHANGED <<server, alerts, returned, now>>

\* save_alert up to its flush.
SaveAlert(p, severity) ==
  /\ available[p] /\ session[p] = NoSession
  /\ session' = [session EXCEPT ![p] = [step |-> "added", severity |-> severity, id |-> 0, created |-> 0]]
  /\ UNCHANGED <<server, alerts, available, returned, starts, now>>

\* Mutant: the id is returned as it is known.
FlushReturns(p) ==
  /\ session[p].step = "added" /\ server.id < MaxAlerts
  /\ IF server.up
     THEN /\ server' = [server EXCEPT !.id = @ + 1]
          /\ session' = [session EXCEPT ![p].step = "flushed", ![p].id = server'.id, ![p].created = now]
          /\ returned' = returned \cup {server'.id}
     ELSE session' = [session EXCEPT ![p] = NoSession] /\ UNCHANGED <<server, returned>>
  /\ UNCHANGED <<alerts, available, starts, now>>

\* session.flush(): the server gives the id, which a rollback does not give
\* back; the row is dated here.  Without the server: None.
Flush(p) ==
  /\ session[p].step = "added" /\ server.id < MaxAlerts
  /\ IF server.up
     THEN /\ server' = [server EXCEPT !.id = @ + 1]
          /\ session' = [session EXCEPT ![p].step = "flushed", ![p].id = server'.id, ![p].created = now]
     ELSE session' = [session EXCEPT ![p] = NoSession] /\ UNCHANGED server
  /\ UNCHANGED <<alerts, available, returned, starts, now>>

Row(s, acknowledged) ==
  [id |-> s.id, severity |-> s.severity, created |-> s.created, acknowledged |-> acknowledged]

\* The with block ends, and only then save_alert has returned.  Without the
\* server it returns None: the row is not there, or only the answer is lost.
Commit(p) ==
  /\ session[p].step = "flushed"
  /\ session' = [session EXCEPT ![p] = NoSession]
  /\ IF server.up
     THEN alerts' = alerts \cup {Row(session[p], FALSE)} /\ returned' = returned \cup {session[p].id}
     ELSE alerts' \in {alerts, alerts \cup {Row(session[p], FALSE)}} /\ UNCHANGED returned
  /\ UNCHANGED <<server, available, starts, now>>

\* acknowledge_alert_db, of the rows a filter chooses.
AcknowledgeAlertDb(p, severity) ==
  /\ available[p] /\ server.up
  /\ LET unseen == {r \in alerts : r.severity = severity /\ ~r.acknowledged} IN
     /\ unseen # {}
     /\ alerts' = (alerts \ unseen) \cup {Row(r, TRUE) : r \in unseen}
  /\ UNCHANGED <<server, available, session, returned, starts, now>>

ServerFailsOrReturns ==
  /\ server' = [server EXCEPT !.up = ~@]
  /\ UNCHANGED <<alerts, available, session, returned, starts, now>>

Wait ==
  /\ now < MaxClock /\ now' = now + 1
  /\ UNCHANGED <<server, alerts, available, session, returned, starts>>

NextDatabase ==
  \/ \E p \in Processes : InitDb(p) \/ Flush(p) \/ Commit(p)
  \/ \E p \in Processes, severity \in Severities : SaveAlert(p, severity) \/ AcknowledgeAlertDb(p, severity)
  \/ ServerFailsOrReturns \/ Wait

\* get_recent_alerts: the answers there may be, rows of one time in any order.
Recent(rows) ==
  {s \in SUBSET rows :
     /\ Cardinality(s) = IF Cardinality(rows) < HistoryLimit THEN Cardinality(rows) ELSE HistoryLimit
     /\ \A r \in s, o \in rows \ s : r.created >= o.created}
=============================================================================
