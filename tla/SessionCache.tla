------------------------------ MODULE SessionCache -----------------------------
(***************************************************************************)
(* The sessions of CacheService in Redis.  All requests share one client,  *)
(* which sends commands down one connection: Redis executes them in the    *)
(* order they were issued and replies in that order.  Between an await and *)
(* its continuation other requests issue commands.  When the connection    *)
(* breaks, the client sends the unanswered commands again, so that Redis   *)
(* may execute them twice, or it gives up and rejects them.                *)
(***************************************************************************)
EXTENDS Integers, Sequences, FiniteSets, SequencesExt

CONSTANTS
  Handlers,    \* requests the server can have in flight
  Sessions,    \* session identifiers
  Absent,      \* no session
  Lifetime,    \* CACHE_TTL.USER_SESSION, in ticks
  BatchSize,   \* sessions that getActiveSessions asks for at a time
  MaxTime, MaxFaults   \* bounds on the clock and on broken connections and restarts

ASSUME CacheAssumption ==
  /\ Lifetime \in Nat \ {0} /\ BatchSize \in Nat \ {0}
  /\ MaxTime \in Nat /\ MaxFaults \in Nat
  /\ IsFiniteSet(Sessions) /\ Absent \notin Sessions

VARIABLES
  redis,      \* the stored sessions
  expiry,     \* when each of them expires
  now,        \* Date.now() of the server, and the clock of Redis: one clock, not set back
  pipeline,   \* the commands without a reply, in the order issued
  executed,   \* how many of them Redis has executed over this connection
  pc, op, about, found, todo,   \* a request: where it is, its operation, its
              \* session, the sessions it has read, the keys still to read
  faults,     \* what MaxFaults counts
  stamped, ended, touched,   \* history of each session: the last activity time
              \* answered and not taken back by a caller, did it end for good, the last
              \* answer to a writer
  ever, always   \* history of each listing: the sessions active at some moment
              \* of it, and at every moment of it

store == <<redis, expiry>>
client == <<pipeline, executed>>
request == <<pc, op, about, found, todo>>
sessionHistory == <<stamped, ended, touched>>
listHistory == <<ever, always>>
vars == <<redis, expiry, now, pipeline, executed, pc, op, about, found, todo, faults,
          stamped, ended, touched, ever, always>>

-----------------------------------------------------------------------------
(* Sessions and commands *)

\* SessionData: who it is for (id stands for all that never changes), lastActivityTime,
\* isActive.
Session == [id : Sessions, stamp : 0..MaxTime, active : BOOLEAN]

Command ==
  [by : Handlers, cmd : {"get", "setex", "del", "keys"}, id : Sessions \cup {Absent},
   value : Session \cup {Absent}, reply : SUBSET (Sessions \cup Session)]

Get(p, s) == [by |-> p, cmd |-> "get", id |-> s, value |-> Absent, reply |-> {}]
Del(p, s) == [by |-> p, cmd |-> "del", id |-> s, value |-> Absent, reply |-> {}]
Keys(p) == [by |-> p, cmd |-> "keys", id |-> Absent, value |-> Absent, reply |-> {}]
SetEx(p, session) ==
  [by |-> p, cmd |-> "setex", id |-> session.id, value |-> session, reply |-> {}]

\* Slip: the time of the activity is not written.
Untouched(session) == session

\* session.lastActivityTime = Date.now(), in the same turn in which SETEX is issued.
Touched(session) == [session EXCEPT !.stamp = now]

\* Slip: milliseconds for seconds.
InMilliseconds(s) == now + 1000 * Lifetime

\* Slip: SET instead of SETEX.
Forever(s) == MaxTime + Lifetime

\* When a session written now expires.
Expiry(s) == now + Lifetime

Pending(p) == {i \in DOMAIN pipeline : pipeline[i].by = p}

\* The requests that may still write session s.
Writers(s) == {p \in Handlers : pc[p] # "idle" /\ op[p] \in {"set", "update"} /\ about[p] = s}

Actives(db) == {s \in Sessions : db[s] # Absent /\ db[s].active}

Listing(p) == pc[p] # "idle" /\ op[p] = "list"

-----------------------------------------------------------------------------
(* Requests *)

Init ==
  /\ redis = [s \in Sessions |-> Absent]
  /\ expiry = [s \in Sessions |-> 0]
  /\ now = 0
  /\ pipeline = << >> /\ executed = 0
  /\ pc = [p \in Handlers |-> "idle"]
  /\ op = [p \in Handlers |-> "none"]
  /\ about = [p \in Handlers |-> Absent]
  /\ found = [p \in Handlers |-> {}]
  /\ todo = [p \in Handlers |-> {}]
  /\ faults = 0
  /\ stamped = [s \in Sessions |-> 0]
  /\ ended = [s \in Sessions |-> TRUE]
  /\ touched = [s \in Sessions |-> 0]
  /\ ever = [p \in Handlers |-> {}]
  /\ always = [p \in Handlers |-> {}]

Issue(commands) == pipeline' = pipeline \o commands /\ UNCHANGED executed

\* A call of the service runs up to its first await, the command it issues.
Call(p, operation, s, command) ==
  /\ pc[p] = "idle"
  /\ pc' = [pc EXCEPT ![p] = "await"]
  /\ op' = [op EXCEPT ![p] = operation]
  /\ about' = [about EXCEPT ![p] = s]
  /\ Issue(<<command>>)
  /\ UNCHANGED <<store, now, found, todo, faults, touched>>

\* The session is the caller's, with the activity time it had when the caller made or
\* read it.
SetUserSession(p) ==
  \E s \in Sessions, stamp \in 0..now, active \in BOOLEAN :
    /\ Call(p, "set", s, SetEx(p, [id |-> s, stamp |-> stamp, active |-> active]))
    /\ stamped' = [stamped EXCEPT ![s] = IF stamp < @ THEN stamp ELSE @]
    /\ ended' = [ended EXCEPT ![s] = FALSE]
    /\ UNCHANGED listHistory

DeleteUserSession(p) ==
  /\ \E s \in Sessions : Call(p, "delete", s, Del(p, s))
  /\ UNCHANGED <<stamped, ended, listHistory>>

UpdateUserActivityTime(p) ==
  /\ \E s \in Sessions : Call(p, "update", s, Get(p, s))
  /\ UNCHANGED <<stamped, ended, listHistory>>

GetActiveSessions(p) ==
  /\ Call(p, "list", Absent, Keys(p))
  /\ ever' = [ever EXCEPT ![p] = Actives(redis)]
  /\ always' = [always EXCEPT ![p] = Actives(redis)]
  /\ UNCHANGED <<stamped, ended>>

\* Every command of the request has been answered.
Resumed(p) == pc[p] = "await" /\ Pending(p) = {}

\* Slip: `if (session)` is missing, and what is stored is made up.
WriteBackAlways(p) ==
  /\ Resumed(p) /\ op[p] = "update"
  /\ Issue(<<SetEx(p, [id |-> about[p], stamp |-> now, active |-> TRUE])>>)
  /\ pc' = [pc EXCEPT ![p] = "store"]
  /\ found' = [found EXCEPT ![p] = {}]
  /\ UNCHANGED <<store, now, op, about, todo, faults, sessionHistory, listHistory>>

\* updateUserActivityTime stores the session it read, whatever happened to it since.
WriteBack(p) ==
  /\ Resumed(p) /\ op[p] = "update"
  /\ \E session \in found[p] : Issue(<<SetEx(p, Touched(session))>>)
  /\ pc' = [pc EXCEPT ![p] = "store"]
  /\ found' = [found EXCEPT ![p] = {}]
  /\ UNCHANGED <<store, now, op, about, todo, faults, sessionHistory, listHistory>>

\* getActiveSessions asks for the next sessions, in the order of KEYS, which is any.
NextBatch(p) ==
  /\ Resumed(p) /\ op[p] = "list" /\ todo[p] # {}
  /\ \E order \in SetToSeqs(todo[p]) :
       LET batch == SubSeq(order, 1, IF Len(order) < BatchSize THEN Len(order) ELSE BatchSize)
       IN /\ Issue([i \in DOMAIN batch |-> Get(p, batch[i])])
          /\ todo' = [todo EXCEPT ![p] = @ \ ToSet(batch)]
  /\ UNCHANGED <<store, now, pc, op, about, found, faults, sessionHistory, listHistory>>

\* Slip: isActive is not looked at.
ListedAll(p) == {session.id : session \in found[p]}

\* What getActiveSessions returns.
Listed(p) == {session.id : session \in {e \in found[p] : e.active}}

\* The request has nothing more to issue.
Done(p) ==
  \/ Resumed(p) /\ op[p] \in {"set", "delete"}
  \/ Resumed(p) /\ op[p] = "update" /\ found[p] = {}
  \/ Resumed(p) /\ op[p] = "list" /\ todo[p] = {}
  \/ pc[p] = "store" /\ Pending(p) = {}

Finish(p) ==
  /\ Done(p)
  /\ pc' = [pc EXCEPT ![p] = "idle"]
  /\ op' = [op EXCEPT ![p] = "none"]
  /\ about' = [about EXCEPT ![p] = Absent]
  /\ found' = [found EXCEPT ![p] = {}]
  /\ touched' = IF op[p] \in {"set", "update"} THEN [touched EXCEPT ![about[p]] = now]
                                              ELSE touched
  /\ ever' = [ever EXCEPT ![p] = {}]
  /\ always' = [always EXCEPT ![p] = {}]
  /\ UNCHANGED <<store, now, client, todo, faults, stamped, ended>>

-----------------------------------------------------------------------------
(* Redis and the connection *)

\* The listings in flight take note of what is stored.
Watch(db) ==
  /\ ever' = [p \in Handlers |-> IF Listing(p) THEN ever[p] \cup Actives(db) ELSE {}]
  /\ always' = [p \in Handlers |-> IF Listing(p) THEN always[p] \cap Actives(db) ELSE {}]

ReplyTo(c) ==
  CASE c.cmd = "get"  -> {redis[c.id]} \ {Absent}
    [] c.cmd = "keys" -> {s \in Sessions : redis[s] # Absent}
    [] OTHER          -> {}

\* Redis executes the next command it has received.
Execute ==
  /\ executed < Len(pipeline)
  /\ executed' = executed + 1
  /\ LET c == pipeline[executed + 1] IN
     /\ pipeline' = [pipeline EXCEPT ![executed + 1].reply = ReplyTo(c)]
     /\ redis' = IF c.cmd \in {"setex", "del"} THEN [redis EXCEPT ![c.id] = c.value] ELSE redis
     /\ expiry' = CASE c.cmd = "setex" -> [expiry EXCEPT ![c.id] = Expiry(c.id)]
                    [] c.cmd = "del"   -> [expiry EXCEPT ![c.id] = 0]
                    [] OTHER           -> expiry
  /\ Watch(redis')
  /\ UNCHANGED <<now, request, faults, sessionHistory>>

\* History: is c's activity time answered for good, no later write being older?
Newest(c, later) ==
  \A i \in DOMAIN later :
    later[i].cmd = "setex" /\ later[i].id = c.id => c.value.stamp <= later[i].value.stamp

\* The reply to the oldest command arrives.
Acknowledge ==
  /\ executed > 0
  /\ executed' = executed - 1
  /\ pipeline' = Tail(pipeline)
  /\ LET c == Head(pipeline) IN
     /\ found' = IF c.cmd = "get" THEN [found EXCEPT ![c.by] = @ \cup c.reply] ELSE found
     /\ todo' = IF c.cmd = "keys" THEN [todo EXCEPT ![c.by] = c.reply] ELSE todo
     /\ stamped' = IF c.cmd = "setex" /\ Newest(c, Tail(pipeline))
                   THEN [stamped EXCEPT ![c.id] = c.value.stamp]
                   ELSE stamped
     /\ ended' = IF c.cmd = "del" /\ Writers(c.id) = {} THEN [ended EXCEPT ![c.id] = TRUE]
                                                       ELSE ended
  /\ UNCHANGED <<store, now, pc, op, about, faults, touched, listHistory>>

\* The connection breaks and is made again: every command without a reply is sent again.
Resend ==
  /\ faults < MaxFaults /\ executed > 0
  /\ faults' = faults + 1
  /\ executed' = 0
  /\ UNCHANGED <<store, now, pipeline, request, sessionHistory, listHistory>>

\* The client gives up (maxRetriesPerRequest).  Of the commands in the pipeline Redis has
\* executed some; all are rejected: a read finds nothing, a deletion counts as done, a
\* write throws.  A listing that lost a command is no longer complete.
GiveUp ==
  /\ faults < MaxFaults /\ pipeline # << >>
  /\ faults' = faults + 1
  /\ pipeline' = << >> /\ executed' = 0
  /\ always' = [p \in Handlers |-> IF Pending(p) # {} THEN {} ELSE always[p]]
  /\ UNCHANGED <<store, now, request, sessionHistory, ever>>

\* The server restarts: the calls in flight are lost, with the commands that Redis has
\* not executed.  Redis and its sessions stay.
Restart ==
  /\ faults < MaxFaults /\ \E p \in Handlers : pc[p] # "idle"
  /\ faults' = faults + 1
  /\ pipeline' = << >> /\ executed' = 0
  /\ pc' = [p \in Handlers |-> "idle"]
  /\ op' = [p \in Handlers |-> "none"]
  /\ about' = [p \in Handlers |-> Absent]
  /\ found' = [p \in Handlers |-> {}]
  /\ todo' = [p \in Handlers |-> {}]
  /\ touched' = [s \in Sessions |-> IF Writers(s) # {} THEN now ELSE touched[s]]
  /\ ever' = [p \in Handlers |-> {}] /\ always' = [p \in Handlers |-> {}]
  /\ UNCHANGED <<store, now, stamped, ended>>

\* Time passes, and Redis forgets what has expired.
Tick ==
  LET expired == {s \in Sessions : redis[s] # Absent /\ expiry[s] <= now + 1} IN
  /\ now < MaxTime
  /\ now' = now + 1
  /\ redis' = [s \in Sessions |-> IF s \in expired THEN Absent ELSE redis[s]]
  /\ expiry' = [s \in Sessions |-> IF s \in expired THEN 0 ELSE expiry[s]]
  /\ ended' = [s \in Sessions |-> ended[s] \/ (s \in expired /\ Writers(s) = {})]
  /\ Watch(redis')
  /\ UNCHANGED <<client, request, faults, stamped, touched>>

Step(p) == WriteBack(p) \/ NextBatch(p) \/ Finish(p)

Next ==
  \/ \E p \in Handlers :
       \/ SetUserSession(p) \/ DeleteUserSession(p)
       \/ UpdateUserActivityTime(p) \/ GetActiveSessions(p)
       \/ Step(p)
  \/ Execute \/ Acknowledge \/ Resend \/ GiveUp \/ Restart \/ Tick

Spec == Init /\ [][Next]_vars

-----------------------------------------------------------------------------
(* Properties *)

TypeOK ==
  /\ redis \in [Sessions -> Session \cup {Absent}]
  /\ expiry \in [Sessions -> 0..(MaxTime + Lifetime)]
  /\ now \in 0..MaxTime
  /\ pipeline \in Seq(Command) /\ executed \in 0..Len(pipeline)
  /\ pc \in [Handlers -> {"idle", "await", "store"}]
  /\ op \in [Handlers -> {"none", "set", "delete", "update", "list"}]
  /\ about \in [Handlers -> Sessions \cup {Absent}]
  /\ found \in [Handlers -> SUBSET Session]
  /\ todo \in [Handlers -> SUBSET Sessions]
  /\ faults \in 0..MaxFaults
  /\ stamped \in [Sessions -> 0..MaxTime]
  /\ ended \in [Sessions -> BOOLEAN]
  /\ touched \in [Sessions -> 0..MaxTime]
  /\ ever \in [Handlers -> SUBSET Sessions] /\ always \in [Handlers -> SUBSET Sessions]

\* Racing writers never take the activity time back behind one already answered, unless
\* a caller hands setUserSession an older one: updateUserActivityTime writes a session it
\* read earlier, and commands may be executed twice, but it reads the clock in the turn
\* that issues SETEX.
ActivityIsKept ==
  \A s \in Sessions : redis[s] # Absent => redis[s].stamp >= stamped[s]

\* A session that was deleted, or expired, while nobody was writing it does not come back
\* until it is set again: updateUserActivityTime writes only what it has found.
EndedStaysEnded == \A s \in Sessions : ended[s] => redis[s] = Absent

\* A session that nobody has written for its lifetime is gone (the TTL of setUserSession),
\* whatever was sent twice, given up or written back late.
AbandonedExpires ==
  \A s \in Sessions :
    redis[s] # Absent => Writers(s) # {} \/ now < touched[s] + Lifetime

\* getActiveSessions reads keys and sessions at different moments.  Still it lists only
\* sessions that were active during the call, and, unless a command of it failed, all
\* that were active throughout.
ListingIsFair ==
  \A p \in Handlers :
    op[p] = "list" /\ Done(p) => Listed(p) \subseteq ever[p] /\ always[p] \subseteq Listed(p)
=============================================================================
