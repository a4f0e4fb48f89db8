--------------------------- MODULE SessionCacheProofs --------------------------
(***************************************************************************)
(* SessionCache, for any number of requests and sessions, any lifetime and *)
(* batch size, and any number of broken connections and restarts.          *)
(*                                                                         *)
(* Every property of the run is about what is stored, and what is stored   *)
(* is decided by commands issued long before: none of the properties is    *)
(* inductive.  Inv adds to each of them what it means for the commands     *)
(* still in the pipeline, those that Redis has executed and those it has   *)
(* not (or will again), and for the requests that wait for the replies.    *)
(***************************************************************************)
EXTENDS SessionCache, FiniteSetTheorems, SequenceTheorems, TLAPS

\* A command is made of what its kind needs, and was issued by a request that is in
\* progress and whose operation issues such a command.
CommandOK(c) ==
  /\ c \in Command
  /\ pc[c.by] # "idle"
  /\ c.cmd = "get" => /\ c.id \in Sessions /\ op[c.by] \in {"update", "list"}
                      /\ c.reply \subseteq {e \in Session : e.id = c.id}
                      /\ op[c.by] = "update" => about[c.by] = c.id
  /\ c.cmd = "setex" => /\ c.value \in Session /\ c.id = c.value.id
                        /\ op[c.by] \in {"set", "update"} /\ about[c.by] = c.id
  /\ c.cmd = "del" => c.id \in Sessions /\ c.value = Absent /\ op[c.by] = "delete"
  /\ c.cmd = "keys" => op[c.by] = "list" /\ c.reply \subseteq Sessions

\* A request has a session unless it lists, an updater has read no session but its own, and
\* what is stored under an identifier is the session of that identifier.
RequestOK(p) ==
  /\ pc[p] = "idle" => op[p] = "none" /\ found[p] = {}
  /\ op[p] \in {"set", "update"} => about[p] \in Sessions
  /\ op[p] = "update" => \A e \in found[p] : e.id = about[p]
  /\ op[p] = "list" => pc[p] = "await"

Shape ==
  /\ TypeOK
  /\ \A i \in DOMAIN pipeline : CommandOK(pipeline[i])
  /\ \A p \in Handlers : RequestOK(p)
  /\ \A s \in Sessions : redis[s] # Absent => redis[s].id = s

\* Is c a command that writes session s?
Writes(c, s) == c.cmd = "setex" /\ c.id = s

\* The activity times on their way to session s: none is behind one answered, and once
\* one is executed the store has what some write not before it writes.
Stamps ==
  /\ \A s \in Sessions : stamped[s] <= now
  /\ \A i \in DOMAIN pipeline : \A s \in Sessions : Writes(pipeline[i], s) =>
       /\ stamped[s] <= pipeline[i].value.stamp /\ pipeline[i].value.stamp <= now
       /\ i <= executed /\ redis[s] # Absent =>
            \E j \in DOMAIN pipeline :
              i <= j /\ Writes(pipeline[j], s) /\ redis[s] = pipeline[j].value
  /\ ActivityIsKept

\* A session that has ended is stored nowhere: not in Redis, not in a command, not in a
\* reply to a request that would write it back, nor in the hands of such a request.
NowhereLeft(s) ==
  /\ redis[s] = Absent
  /\ \A i \in DOMAIN pipeline :
       /\ ~Writes(pipeline[i], s)
       /\ pipeline[i].cmd = "get" /\ pipeline[i].id = s /\ op[pipeline[i].by] = "update" =>
            pipeline[i].reply = {}
  /\ \A p \in Handlers : op[p] = "update" /\ about[p] = s => found[p] = {}

\* A deletion that Redis has executed lasts until a write issued after it.
Deletions ==
  \A i \in DOMAIN pipeline : \A s \in Sessions :
    i <= executed /\ pipeline[i].cmd = "del" /\ pipeline[i].id = s =>
      redis[s] = Absent \/ \E j \in DOMAIN pipeline : i < j /\ Writes(pipeline[j], s)

EndedGone == \A s \in Sessions : ended[s] => NowhereLeft(s)

Endings == Deletions /\ EndedGone

\* A stored session expires in its lifetime at the latest, and without a writer in its
\* lifetime since the last one.
Expiries ==
  \A s \in Sessions :
    redis[s] # Absent => /\ now < expiry[s] /\ expiry[s] <= now + Lifetime
                         /\ Writers(s) = {} => expiry[s] <= touched[s] + Lifetime

\* The active sessions among those read.
ActiveIn(sessions) == {e.id : e \in {d \in sessions : d.active}}

\* A listing has read active sessions only of those seen active during it, and each session
\* active all the while is listed, still to be asked for, asked for, or the keys are.
Fair(p) ==
  /\ Actives(redis) \subseteq ever[p] /\ always[p] \subseteq Actives(redis)
  /\ ActiveIn(found[p]) \subseteq ever[p]
  /\ \A i \in DOMAIN pipeline : pipeline[i].by = p =>
       /\ pipeline[i].cmd = "get" => ActiveIn(pipeline[i].reply) \subseteq ever[p]
       /\ i <= executed /\ pipeline[i].cmd = "get" /\ pipeline[i].id \in always[p] =>
            pipeline[i].id \in ActiveIn(pipeline[i].reply)
       /\ i <= executed /\ pipeline[i].cmd = "keys" => always[p] \subseteq pipeline[i].reply
  /\ \A s \in always[p] :
       \/ s \in ActiveIn(found[p]) \/ s \in todo[p]
       \/ \E i \in DOMAIN pipeline :
            /\ pipeline[i].by = p
            /\ pipeline[i].cmd = "get" => pipeline[i].id = s
            /\ pipeline[i].cmd \in {"get", "keys"}

Listings == \A p \in Handlers : op[p] = "list" => Fair(p)

Inv == Shape /\ Stamps /\ Endings /\ Expiries /\ Listings

-----------------------------------------------------------------------------
(* Commands and the pipeline *)

\* The parts of a command.
LEMMA CommandParts ==
  ASSUME NEW c \in Command
  PROVE  /\ c.by \in Handlers /\ c.cmd \in {"get", "setex", "del", "keys"}
         /\ c.id \in Sessions \cup {Absent} /\ c.value \in Session \cup {Absent}
         /\ c.reply \in SUBSET (Sessions \cup Session)
BY DEF Command

\* The parts of a session.
LEMMA SessionParts ==
  ASSUME NEW e \in Session
  PROVE  e.id \in Sessions /\ e.stamp \in 0..MaxTime /\ e.stamp \in Nat /\ e.active \in BOOLEAN
BY CacheAssumption DEF Session

\* The pipeline is a sequence, of which Redis has executed a beginning.
LEMMA PipelineType ==
  ASSUME Shape
  PROVE  /\ pipeline \in Seq(Command) /\ Len(pipeline) \in Nat
         /\ DOMAIN pipeline = 1..Len(pipeline) /\ executed \in 0..Len(pipeline)
         /\ executed \in Nat
         /\ \A i \in DOMAIN pipeline : i \in Nat /\ pipeline[i] \in Command
BY DEF Shape, TypeOK

\* Commands are added at the end, behind those that are executed.
LEMMA Issued ==
  ASSUME Shape, NEW commands \in Seq(Command), Issue(commands)
  PROVE  /\ pipeline' \in Seq(Command) /\ executed' = executed
         /\ executed' \in 0..Len(pipeline)'
         /\ DOMAIN pipeline \subseteq DOMAIN pipeline'
         /\ \A i \in DOMAIN pipeline : pipeline'[i] = pipeline[i]
         /\ \A i \in DOMAIN pipeline' \ DOMAIN pipeline :
              /\ executed < i /\ (\A j \in DOMAIN pipeline : j < i)
              /\ \E k \in DOMAIN commands : pipeline'[i] = commands[k]
         /\ \A k \in DOMAIN commands : \E i \in DOMAIN pipeline' : pipeline'[i] = commands[k]
<1>1. PICK new : new = pipeline' OBVIOUS
<1>2. PICK old \in Seq(Command) : old = pipeline BY PipelineType
<1>3. PICK m \in Nat, n \in Nat : m = Len(old) /\ n = Len(commands) BY LenProperties
<1>4. /\ new \in Seq(Command) /\ Len(new) = m + n
      /\ \A i \in 1..(m + n) : new[i] = IF i <= m THEN old[i] ELSE commands[i - m]
  BY <1>1, <1>2, <1>3, ConcatProperties DEF Issue
<1>5. DOMAIN new = 1..(m + n) /\ DOMAIN old = 1..m /\ DOMAIN commands = 1..n
  BY <1>3, <1>4, LenProperties
<1>6. executed \in 0..m /\ executed' = executed BY <1>2, <1>3, PipelineType DEF Issue
<1>7. ASSUME NEW i \in (1..(m + n)) \ (1..m)
      PROVE  /\ executed < i /\ (\A j \in 1..m : j < i)
             /\ i - m \in 1..n /\ new[i] = commands[i - m]
  BY <1>4, <1>6
<1>8. ASSUME NEW k \in 1..n PROVE m + k \in 1..(m + n) /\ new[m + k] = commands[k]
  BY <1>4
<1>9. \A i \in 1..m : i \in 1..(m + n) /\ new[i] = old[i] BY <1>4
<1>10. executed \in 0..(m + n) BY <1>6
<1> QED BY <1>1, <1>2, <1>4, <1>5, <1>6, <1>7, <1>8, <1>9, <1>10

\* Only the reply of the command that Redis executes changes.
LEMMA Executed ==
  ASSUME Shape, Execute
  PROVE  LET k == executed + 1 IN
         /\ k \in DOMAIN pipeline /\ executed' = k
         /\ DOMAIN pipeline' = DOMAIN pipeline /\ Len(pipeline)' = Len(pipeline)
         /\ \A i \in DOMAIN pipeline \ {k} : pipeline'[i] = pipeline[i]
         /\ pipeline'[k] = [pipeline[k] EXCEPT !.reply = ReplyTo(pipeline[k])]
BY PipelineType DEF Execute

\* The oldest command leaves, the others move up.
LEMMA Acknowledged ==
  ASSUME Shape, Acknowledge
  PROVE  /\ 1 \in DOMAIN pipeline /\ Head(pipeline) = pipeline[1] /\ 1 <= executed
         /\ executed' = executed - 1 /\ executed' \in 0..Len(pipeline)'
         /\ pipeline' \in Seq(Command)
         /\ \A i \in DOMAIN pipeline' :
              i + 1 \in DOMAIN pipeline /\ pipeline'[i] = pipeline[i + 1]
         /\ \A i \in DOMAIN pipeline \ {1} :
              i - 1 \in DOMAIN pipeline' /\ pipeline'[i - 1] = pipeline[i]
<1>1. PICK n \in Nat : /\ n = Len(pipeline) /\ DOMAIN pipeline = 1..n
                       /\ executed \in 1..n /\ pipeline \in Seq(Command)
  <2>1. executed > 0 BY DEF Acknowledge
  <2>2. /\ pipeline \in Seq(Command) /\ Len(pipeline) \in Nat
        /\ DOMAIN pipeline = 1..Len(pipeline) /\ executed \in 0..Len(pipeline)
    BY PipelineType
  <2>3. executed \in 1..Len(pipeline) BY <2>1, <2>2
  <2> QED BY <2>2, <2>3
<1>2. pipeline # << >> BY <1>1
<1>3. PICK new \in Seq(Command) : new = pipeline' BY <1>1, <1>2 DEF Acknowledge
<1>4. /\ Len(new) = n - 1 /\ DOMAIN new = 1..(n - 1)
      /\ \A i \in 1..(n - 1) : new[i] = pipeline[i + 1]
  BY <1>1, <1>2, <1>3 DEF Acknowledge
<1>5. executed' = executed - 1 BY DEF Acknowledge
<1>6. Head(pipeline) = pipeline[1] BY <1>1, <1>2
<1> QED BY <1>1, <1>3, <1>4, <1>5, <1>6

\* A command stays as it is while its request goes on with the same operation.
LEMMA CommandStays ==
  ASSUME NEW c, CommandOK(c), pc'[c.by] # "idle",
         op'[c.by] = op[c.by], about'[c.by] = about[c.by]
  PROVE  CommandOK(c)'
BY DEF CommandOK, Command, Session

\* A request that is idle, or has been answered, has no command in the pipeline.
LEMMA NoCommand ==
  ASSUME Shape, NEW p \in Handlers, pc[p] = "idle" \/ Pending(p) = {},
         NEW i \in DOMAIN pipeline
  PROVE  pipeline[i].by # p
BY DEF Shape, CommandOK, Pending

-----------------------------------------------------------------------------
(* Shape *)

\* At the start nothing is stored and nothing is asked.
LEMMA InitShape == Init => Shape
<1> SUFFICES ASSUME Init PROVE Shape OBVIOUS
<1>1. Len(pipeline) = 0 /\ pipeline \in Seq(Command) /\ DOMAIN pipeline = {}
  BY DEF Init
<1>2. TypeOK BY <1>1, CacheAssumption DEF Init, TypeOK
<1> QED BY <1>1, <1>2 DEF Init, Shape, RequestOK

\* What is stored under an identifier is its session, or nothing.
Stored(db) ==
  \A s \in Sessions : db[s] \in Session \cup {Absent} /\ (db[s] # Absent => db[s].id = s)

\* The invariant after a step, from its parts.
LEMMA ShapeNext ==
  ASSUME TypeOK', \A i \in DOMAIN pipeline' : CommandOK(pipeline[i])',
         \A p \in Handlers : RequestOK(p)', Stored(redis')
  PROVE  Shape'
BY DEF Shape, Stored

\* The command c fits the call with which request p issues it.
Fits(p, o, s, c) ==
  /\ c \in Command /\ c.by = p /\ c.reply = {}
  /\ \/ o = "update" /\ c.cmd = "get" /\ s \in Sessions /\ c.id = s
     \/ /\ o = "set" /\ c.cmd = "setex" /\ s \in Sessions /\ c.id = s
        /\ c.value \in Session /\ c.value.id = s
     \/ o = "delete" /\ c.cmd = "del" /\ s \in Sessions /\ c.id = s /\ c.value = Absent
     \/ o = "list" /\ c.cmd = "keys" /\ s = Absent

\* The history takes no time answered forward, and takes it back to the time of a write
\* that is issued, unless that is the present.
Lowered ==
  stamped' \in [Sessions -> 0..MaxTime] /\ \A s \in Sessions : stamped'[s] <= stamped[s]

OnTime(c) ==
  /\ c.value.stamp <= now
  /\ c.value.stamp = now \/ stamped'[c.id] <= c.value.stamp

Minded(c) == Lowered /\ (c.cmd = "setex" => OnTime(c))

\* A history that takes no note takes nothing back.
LEMMA StampsStay ==
  ASSUME Shape, stamped' = stamped
  PROVE  Lowered
<1>1. \A s \in Sessions : stamped[s] \in Nat BY CacheAssumption DEF Shape, TypeOK
<1> QED BY <1>1 DEF Lowered, Shape, TypeOK

\* A call issues the command that fits it, and its request was idle.
LEMMA CallShape ==
  ASSUME Shape, NEW p \in Handlers, NEW o, NEW s \in Sessions \cup {Absent}, NEW c,
         Fits(p, o, s, c), Call(p, o, s, c), Lowered, ended' \in [Sessions -> BOOLEAN],
         ever' \in [Handlers -> SUBSET Sessions], always' \in [Handlers -> SUBSET Sessions]
  PROVE  Shape'
<1>1. /\ pc[p] = "idle" /\ pc' = [pc EXCEPT ![p] = "await"]
      /\ op' = [op EXCEPT ![p] = o] /\ about' = [about EXCEPT ![p] = s]
      /\ UNCHANGED <<redis, expiry, now, found, todo, faults, touched>>
      /\ stamped' \in [Sessions -> 0..MaxTime]
      /\ Issue(<<c>>)
  BY DEF Call, store, Lowered
<1>2. c \in Command /\ o \in {"set", "delete", "update", "list"} BY DEF Fits
<1>3. <<c>> \in Seq(Command) /\ DOMAIN <<c>> = {1} /\ <<c>>[1] = c BY <1>2
<1>4. /\ pipeline' \in Seq(Command) /\ executed' \in 0..Len(pipeline)'
      /\ \A i \in DOMAIN pipeline : pipeline'[i] = pipeline[i]
      /\ \A i \in DOMAIN pipeline' \ DOMAIN pipeline : pipeline'[i] = c
  <2>1. PICK commands \in Seq(Command) :
          Issue(commands) /\ \A k \in DOMAIN commands : commands[k] = c
    BY <1>1, <1>3
  <2> QED BY <2>1, Issued
<1>5. /\ pc' \in [Handlers -> {"idle", "await", "store"}]
      /\ op' \in [Handlers -> {"none", "set", "delete", "update", "list"}]
      /\ about' \in [Handlers -> Sessions \cup {Absent}]
      /\ pc'[p] = "await" /\ op'[p] = o /\ about'[p] = s
      /\ \A q \in Handlers \ {p} : pc'[q] = pc[q] /\ op'[q] = op[q] /\ about'[q] = about[q]
  BY <1>1, <1>2 DEF Shape, TypeOK
<1>6. TypeOK' BY <1>1, <1>4, <1>5 DEF Shape, TypeOK, Session, Command
<1>7. ASSUME NEW i \in DOMAIN pipeline' PROVE CommandOK(pipeline[i])'
  <2>1. PICK d : d = pipeline'[i] OBVIOUS
  <2>2. CASE i \in DOMAIN pipeline
    <3>1. d = pipeline[i] /\ CommandOK(d) /\ d.by # p /\ d.by \in Handlers
      BY <1>1, <1>4, <2>1, <2>2, NoCommand, PipelineType, CommandParts DEF Shape
    <3>2. CommandOK(d)' BY <1>5, <3>1, CommandStays DEF CommandOK
    <3> QED BY <2>1, <3>2
  <2>3. CASE i \notin DOMAIN pipeline
    <3>1. d = c BY <1>4, <2>1, <2>3
    <3>2. CommandOK(c)'
      <4>1. c \in Command' /\ c.value \in Session => c.value \in Session'
        BY <1>2 DEF Command, Session
      <4> QED BY <1>5, <4>1 DEF CommandOK, Fits, Session
    <3> QED BY <2>1, <3>1, <3>2
  <2> QED BY <2>2, <2>3
<1>8. ASSUME NEW q \in Handlers PROVE RequestOK(q)'
  <2>1. CASE q = p
    <3>1. found'[p] = {} BY <1>1 DEF Shape, RequestOK
    <3> QED BY <1>5, <2>1, <3>1 DEF RequestOK, Fits
  <2>2. CASE q # p BY <1>1, <1>5, <2>2 DEF Shape, RequestOK
  <2> QED BY <2>1, <2>2
<1>9. Stored(redis') BY <1>1 DEF Shape, TypeOK, Stored
<1> QED BY <1>6, <1>7, <1>8, <1>9, ShapeNext

\* The four operations fit what they issue.
LEMMA OperationsFit ==
  ASSUME Shape, NEW p \in Handlers
  PROVE  /\ \A s \in Sessions, stamp \in 0..now, active \in BOOLEAN :
              Fits(p, "set", s, SetEx(p, [id |-> s, stamp |-> stamp, active |-> active]))
         /\ \A s \in Sessions : Fits(p, "delete", s, Del(p, s)) /\ Fits(p, "update", s, Get(p, s))
         /\ Fits(p, "list", Absent, Keys(p))
<1>1. \A s \in Sessions, stamp \in 0..now, active \in BOOLEAN :
        [id |-> s, stamp |-> stamp, active |-> active] \in Session
  <2>1. now \in 0..MaxTime /\ MaxTime \in Nat
    BY CacheAssumption DEF CacheAssumption, Shape, TypeOK
  <2>2. ASSUME NEW stamp \in 0..now PROVE stamp \in 0..MaxTime BY <2>1
  <2> QED BY <2>2 DEF Session
<1>2. \A s \in Sessions, stamp \in 0..now, active \in BOOLEAN :
        Fits(p, "set", s, SetEx(p, [id |-> s, stamp |-> stamp, active |-> active]))
  <2> SUFFICES ASSUME NEW s \in Sessions, NEW session \in Session, session.id = s
               PROVE  Fits(p, "set", s, SetEx(p, session))
    BY <1>1
  <2>1. SetEx(p, session) \in Command BY DEF SetEx, Command
  <2> QED BY <2>1 DEF SetEx, Fits
<1>3. \A s \in Sessions : Fits(p, "delete", s, Del(p, s)) /\ Fits(p, "update", s, Get(p, s))
  BY DEF Del, Get, Fits, Command
<1>4. Fits(p, "list", Absent, Keys(p)) BY DEF Keys, Fits, Command
<1> QED BY <1>2, <1>3, <1>4

\* What the four operations are: a call that issues a command that fits, and what they note.
LEMMA Calls ==
  ASSUME Shape, NEW p \in Handlers,
         SetUserSession(p) \/ DeleteUserSession(p) \/ UpdateUserActivityTime(p)
           \/ GetActiveSessions(p)
  PROVE  \E o \in {"set", "delete", "update", "list"}, s \in Sessions \cup {Absent}, c \in Command :
           /\ Fits(p, o, s, c) /\ Call(p, o, s, c) /\ Minded(c)
           /\ ended' = IF o = "set" THEN [ended EXCEPT ![s] = FALSE] ELSE ended
           /\ ever' = IF o = "list" THEN [ever EXCEPT ![p] = Actives(redis)] ELSE ever
           /\ always' = IF o = "list" THEN [always EXCEPT ![p] = Actives(redis)] ELSE always
<1>0. stamped' = stamped => Lowered BY StampsStay
<1> DEFINE Answer(o, s, c) ==
           /\ ended' = IF o = "set" THEN [ended EXCEPT ![s] = FALSE] ELSE ended
           /\ ever' = IF o = "list" THEN [ever EXCEPT ![p] = Actives(redis)] ELSE ever
           /\ always' = IF o = "list" THEN [always EXCEPT ![p] = Actives(redis)] ELSE always
<1>1. CASE SetUserSession(p)
  <2>1. PICK s \in Sessions, stamp \in 0..now, active \in BOOLEAN :
          /\ Call(p, "set", s, SetEx(p, [id |-> s, stamp |-> stamp, active |-> active]))
          /\ stamped' = [stamped EXCEPT ![s] = IF stamp < @ THEN stamp ELSE @]
          /\ ended' = [ended EXCEPT ![s] = FALSE] /\ ever' = ever /\ always' = always
    BY <1>1 DEF SetUserSession, listHistory
  <2>2. PICK c : c = SetEx(p, [id |-> s, stamp |-> stamp, active |-> active]) OBVIOUS
  <2>6. /\ s \in Sessions /\ stamp \in 0..now /\ now \in 0..MaxTime
        /\ stamped \in [Sessions -> 0..MaxTime]
        /\ \A t \in Sessions : stamped[t] \in Nat
    BY CacheAssumption DEF Shape, TypeOK
  <2>7. /\ \A t \in Sessions \ {s} : stamped'[t] = stamped[t]
        /\ stamped'[s] = IF stamp < stamped[s] THEN stamp ELSE stamped[s]
        /\ stamped' \in [Sessions -> 0..MaxTime]
    BY <2>1, <2>6, CacheAssumption DEF CacheAssumption
  <2>8. Minded(c)
    <3>1. c.value.stamp = stamp /\ c.id = s BY <2>2 DEF SetEx
    <3>2. stamped'[s] <= stamp /\ stamp <= now BY <2>6, <2>7
    <3>3. OnTime(c) BY <3>1, <3>2 DEF OnTime
    <3>4. Lowered BY <2>6, <2>7 DEF Lowered
    <3> QED BY <3>3, <3>4 DEF Minded
  <2>3. Fits(p, "set", s, c) /\ Call(p, "set", s, c) /\ c \in Command
    BY <2>1, <2>2, OperationsFit DEF Fits
  <2>4. Answer("set", s, c) BY <2>1
  <2> HIDE DEF Answer
  <2>5. Answer("set", s, c) BY <2>4
  <2> QED BY <2>3, <2>5, <2>8 DEF Answer
<1>2. CASE DeleteUserSession(p)
  <2>1. PICK s \in Sessions :
          /\ Call(p, "delete", s, Del(p, s))
          /\ ended' = ended /\ ever' = ever /\ always' = always /\ stamped' = stamped
    BY <1>2 DEF DeleteUserSession, listHistory
  <2>2. PICK c : c = Del(p, s) OBVIOUS
  <2>3. Fits(p, "delete", s, c) /\ Call(p, "delete", s, c) /\ c \in Command
    BY <2>1, <2>2, OperationsFit DEF Fits
  <2>4. Answer("delete", s, c) BY <2>1
  <2>5. Minded(c) BY <1>0, <2>1, <2>2 DEF Minded, Del
  <2> QED BY <2>3, <2>4, <2>5
<1>3. CASE UpdateUserActivityTime(p)
  <2>1. PICK s \in Sessions :
          /\ Call(p, "update", s, Get(p, s))
          /\ ended' = ended /\ ever' = ever /\ always' = always /\ stamped' = stamped
    BY <1>3 DEF UpdateUserActivityTime, listHistory
  <2>2. PICK c : c = Get(p, s) OBVIOUS
  <2>3. Fits(p, "update", s, c) /\ Call(p, "update", s, c) /\ c \in Command
    BY <2>1, <2>2, OperationsFit DEF Fits
  <2>4. Answer("update", s, c) BY <2>1
  <2>5. Minded(c) BY <1>0, <2>1, <2>2 DEF Minded, Get
  <2> QED BY <2>3, <2>4, <2>5
<1>4. CASE GetActiveSessions(p)
  <2>1. PICK c : c = Keys(p) OBVIOUS
  <2>2. Fits(p, "list", Absent, c) /\ Call(p, "list", Absent, c) /\ c \in Command
    BY <1>4, <2>1, OperationsFit DEF GetActiveSessions, Fits
  <2>3. Answer("list", Absent, c) BY <1>4 DEF GetActiveSessions
  <2>4. Minded(c) BY <1>0, <1>4, <2>1 DEF GetActiveSessions, Minded, Keys
  <2> QED BY <2>2, <2>3, <2>4
<1> QED BY <1>1, <1>2, <1>3, <1>4

\* The four operations keep the shape.
LEMMA CallsShape ==
  ASSUME Shape, NEW p \in Handlers,
         SetUserSession(p) \/ DeleteUserSession(p) \/ UpdateUserActivityTime(p)
           \/ GetActiveSessions(p)
  PROVE  Shape'
<1>1. PICK o \in {"set", "delete", "update", "list"}, s \in Sessions \cup {Absent}, c \in Command :
           /\ Fits(p, o, s, c) /\ Call(p, o, s, c) /\ Minded(c)
           /\ ended' = IF o = "set" THEN [ended EXCEPT ![s] = FALSE] ELSE ended
           /\ ever' = IF o = "list" THEN [ever EXCEPT ![p] = Actives(redis)] ELSE ever
           /\ always' = IF o = "list" THEN [always EXCEPT ![p] = Actives(redis)] ELSE always
  BY Calls
<1>2. ended' \in [Sessions -> BOOLEAN] BY <1>1 DEF Shape, TypeOK
<1>3. Actives(redis) \subseteq Sessions BY DEF Actives
<1>4. /\ ever' \in [Handlers -> SUBSET Sessions]
      /\ always' \in [Handlers -> SUBSET Sessions]
  BY <1>1, <1>3 DEF Shape, TypeOK
<1> QED BY <1>1, <1>2, <1>4, CallShape DEF Minded

\* A request with nothing more to issue has no command in the pipeline.
LEMMA DoneIsAnswered ==
  ASSUME NEW p, Done(p)
  PROVE  Pending(p) = {}
BY DEF Done, Resumed

\* A request that is answered leaves nothing behind.
LEMMA FinishShape ==
  ASSUME Shape, NEW p \in Handlers, Finish(p)
  PROVE  Shape'
<1>1. /\ pc' = [pc EXCEPT ![p] = "idle"] /\ op' = [op EXCEPT ![p] = "none"]
      /\ about' = [about EXCEPT ![p] = Absent] /\ found' = [found EXCEPT ![p] = {}]
      /\ ever' = [ever EXCEPT ![p] = {}] /\ always' = [always EXCEPT ![p] = {}]
      /\ UNCHANGED <<redis, expiry, now, pipeline, executed, todo, faults, stamped, ended>>
      /\ Pending(p) = {}
  BY DoneIsAnswered DEF Finish, store, client
<1>2. touched' \in [Sessions -> 0..MaxTime]
  <2>1. [touched EXCEPT ![about[p]] = now] \in [Sessions -> 0..MaxTime]
    BY DEF Shape, TypeOK
  <2> QED BY <2>1 DEF Finish, Shape, TypeOK
<1>3. TypeOK' BY <1>1, <1>2 DEF Shape, TypeOK, Session, Command
<1>4. \A q \in Handlers \ {p} :
        pc'[q] = pc[q] /\ op'[q] = op[q] /\ about'[q] = about[q] /\ found'[q] = found[q]
  BY <1>1 DEF Shape, TypeOK
<1>5. ASSUME NEW i \in DOMAIN pipeline' PROVE CommandOK(pipeline[i])'
  <2>1. PICK d : d = pipeline'[i] OBVIOUS
  <2>2. d = pipeline[i] /\ CommandOK(d) /\ d.by # p /\ d.by \in Handlers
    BY <1>1, <1>5, <2>1, NoCommand, PipelineType, CommandParts DEF Shape
  <2>3. CommandOK(d)' BY <1>4, <2>2, CommandStays DEF CommandOK
  <2> QED BY <2>1, <2>3
<1>6. ASSUME NEW q \in Handlers PROVE RequestOK(q)'
  <2>1. CASE q = p
    BY <1>1, <2>1 DEF Shape, TypeOK, RequestOK
  <2>2. CASE q # p BY <1>4, <2>2 DEF Shape, RequestOK
  <2> QED BY <2>1, <2>2
<1>7. Stored(redis') BY <1>1 DEF Shape, TypeOK, Stored
<1> QED BY <1>3, <1>5, <1>6, <1>7, ShapeNext

\* updateUserActivityTime issues a write of the session it has found, active at this moment.
LEMMA WritesBack ==
  ASSUME Shape, NEW p \in Handlers, WriteBack(p)
  PROVE  /\ pc[p] = "await" /\ op[p] = "update" /\ Pending(p) = {}
         /\ about[p] \in Sessions /\ found[p] # {}
         /\ \E c \in Command :
              /\ c.by = p /\ c.cmd = "setex" /\ c.id = about[p]
              /\ c.value \in Session /\ c.value.id = about[p] /\ c.value.stamp = now
              /\ Issue(<<c>>)
<1>1. pc[p] = "await" /\ op[p] = "update" /\ Pending(p) = {} BY DEF WriteBack, Resumed
<1>2. PICK session \in found[p] : Issue(<<SetEx(p, Touched(session))>>) BY DEF WriteBack
<1>3. session \in Session /\ session.id = about[p] /\ about[p] \in Sessions
  BY <1>1, <1>2 DEF Shape, TypeOK, RequestOK
<1>4. PICK e : e = Touched(session) OBVIOUS
<1>5. e \in Session /\ e.id = about[p] /\ e.stamp = now
  <2>1. now \in 0..MaxTime BY DEF Shape, TypeOK
  <2> QED BY <1>3, <1>4, <2>1 DEF Touched, Session
<1>6. PICK c : c = SetEx(p, e) OBVIOUS
<1>7. c \in Command /\ c.by = p /\ c.cmd = "setex" /\ c.id = about[p] /\ c.value = e
  BY <1>3, <1>5, <1>6 DEF SetEx, Command
<1>8. Issue(<<c>>) BY <1>2, <1>4, <1>6
<1> QED BY <1>1, <1>2, <1>3, <1>5, <1>7, <1>8

\* The beginning of a sequence.
LEMMA Beginning ==
  ASSUME NEW T, NEW n \in Nat, NEW s \in [1..n -> T], NEW m \in 0..n
  PROVE  SubSeq(s, 1, m) \in Seq(T) /\ Len(SubSeq(s, 1, m)) = m
<1>1. ASSUME NEW i \in 1..m PROVE s[i] \in T
  <2>1. i \in 1..n OBVIOUS
  <2> QED BY <2>1
<1>2. m \in Int /\ 1 \in Int OBVIOUS
<1> QED BY <1>1, <1>2, SubSeqProperties

\* The commands ask for the sessions of the batch, which is taken from those to do.
Asks(p, commands, batch) ==
  /\ op[p] = "list" /\ pc[p] = "await" /\ Pending(p) = {}
  /\ Issue(commands)
  /\ todo' = [todo EXCEPT ![p] = @ \ batch]
  /\ \A k \in DOMAIN commands : \E s \in batch : commands[k] = Get(p, s)
  /\ \A s \in batch : \E k \in DOMAIN commands : commands[k] = Get(p, s)

\* getActiveSessions asks for the sessions of a batch.
LEMMA NextBatchAsks ==
  ASSUME Shape, NEW p \in Handlers, NextBatch(p)
  PROVE  \E commands \in Seq(Command), batch \in SUBSET Sessions : Asks(p, commands, batch)
<1>1. op[p] = "list" /\ pc[p] = "await" /\ Pending(p) = {} BY DEF NextBatch, Resumed
<1>2. PICK order \in SetToSeqs(todo[p]) :
        LET batch == SubSeq(order, 1, IF Len(order) < BatchSize THEN Len(order) ELSE BatchSize)
        IN /\ Issue([i \in DOMAIN batch |-> Get(p, batch[i])])
           /\ todo' = [todo EXCEPT ![p] = @ \ ToSet(batch)]
  BY Zenon DEF NextBatch
<1>3. todo[p] \subseteq Sessions /\ Cardinality(todo[p]) \in Nat
  BY CacheAssumption, FS_Subset, FS_CardinalityType DEF Shape, TypeOK
<1>4. PICK n \in Nat : order \in [1..n -> todo[p]] BY <1>3 DEF SetToSeqs
<1>5. order \in Seq(todo[p]) /\ Len(order) = n BY <1>4
<1>6. PICK m \in 0..n : m = IF Len(order) < BatchSize THEN Len(order) ELSE BatchSize
  BY <1>5, CacheAssumption
<1>7. PICK batch : batch = SubSeq(order, 1, m) OBVIOUS
<1>8. DOMAIN batch = 1..m /\ \A i \in 1..m : batch[i] \in Sessions
  <2>1. PICK T \in SUBSET Sessions : T = todo[p] BY <1>3
  <2>2. order \in [1..n -> T] BY <1>4, <2>1
  <2>3. SubSeq(order, 1, m) \in Seq(T) /\ Len(SubSeq(order, 1, m)) = m BY <2>2, Beginning
  <2> QED BY <1>7, <2>3
<1>9. PICK commands : commands = [i \in 1..m |-> Get(p, batch[i])] OBVIOUS
<1>10. Issue(commands) /\ todo' = [todo EXCEPT ![p] = @ \ ToSet(batch)]
  BY <1>2, <1>6, <1>7, <1>8, <1>9
<1>11. \A i \in 1..m : Get(p, batch[i]) \in Command BY <1>8 DEF Get, Command
<1>12. commands \in Seq(Command) /\ DOMAIN commands = 1..m BY <1>9, <1>11
<1>13. ToSet(batch) = {batch[i] : i \in 1..m} BY <1>8 DEF ToSet
<1>14. ToSet(batch) \in SUBSET Sessions BY <1>8, <1>13
<1>15. /\ \A k \in DOMAIN commands : \E s \in ToSet(batch) : commands[k] = Get(p, s)
       /\ \A s \in ToSet(batch) : \E k \in DOMAIN commands : commands[k] = Get(p, s)
  BY <1>9, <1>12, <1>13
<1> QED BY <1>1, <1>10, <1>12, <1>14, <1>15 DEF Asks

\* A write that is issued keeps the shape.
LEMMA WriteBackShape ==
  ASSUME Shape, NEW p \in Handlers, WriteBack(p)
  PROVE  Shape'
<1>1. PICK c \in Command :
        /\ c.by = p /\ c.cmd = "setex" /\ c.id = about[p]
        /\ c.value \in Session /\ c.value.id = about[p] /\ Issue(<<c>>)
        /\ pc[p] = "await" /\ op[p] = "update" /\ Pending(p) = {} /\ about[p] \in Sessions
  BY WritesBack
<1>2. /\ pc' = [pc EXCEPT ![p] = "store"] /\ found' = [found EXCEPT ![p] = {}]
      /\ UNCHANGED <<redis, expiry, now, op, about, todo, faults, stamped, ended, touched,
                     ever, always>>
  BY DEF WriteBack, store, sessionHistory, listHistory
<1>3. <<c>> \in Seq(Command) /\ \A k \in DOMAIN <<c>> : <<c>>[k] = c BY <1>1
<1>4. /\ pipeline' \in Seq(Command) /\ executed' \in 0..Len(pipeline)'
      /\ \A i \in DOMAIN pipeline : pipeline'[i] = pipeline[i]
      /\ \A i \in DOMAIN pipeline' \ DOMAIN pipeline : pipeline'[i] = c
  BY <1>1, <1>3, Issued
<1>5. /\ pc' \in [Handlers -> {"idle", "await", "store"}] /\ pc'[p] = "store"
      /\ found' \in [Handlers -> SUBSET Session] /\ found'[p] = {}
      /\ \A q \in Handlers \ {p} : pc'[q] = pc[q] /\ found'[q] = found[q]
  BY <1>2 DEF Shape, TypeOK
<1>6. TypeOK' BY <1>2, <1>4, <1>5 DEF Shape, TypeOK, Session, Command
<1>7. ASSUME NEW i \in DOMAIN pipeline' PROVE CommandOK(pipeline[i])'
  <2>1. PICK d : d = pipeline'[i] OBVIOUS
  <2>2. CASE i \in DOMAIN pipeline
    <3>1. d = pipeline[i] /\ CommandOK(d) /\ d.by # p /\ d.by \in Handlers
      BY <1>1, <1>4, <2>1, <2>2, NoCommand, PipelineType, CommandParts DEF Shape
    <3>2. CommandOK(d)' BY <1>2, <1>5, <3>1, CommandStays DEF CommandOK
    <3> QED BY <2>1, <3>2
  <2>3. CASE i \notin DOMAIN pipeline
    <3>1. d = c BY <1>4, <2>1, <2>3
    <3>2. CommandOK(c)' BY <1>1, <1>2, <1>5 DEF CommandOK, Session, Command
    <3> QED BY <2>1, <3>1, <3>2
  <2> QED BY <2>2, <2>3
<1>8. ASSUME NEW q \in Handlers PROVE RequestOK(q)'
  <2>1. CASE q = p BY <1>1, <1>2, <1>5, <2>1 DEF RequestOK
  <2>2. CASE q # p BY <1>2, <1>5, <2>2 DEF Shape, RequestOK
  <2> QED BY <2>1, <2>2
<1>9. Stored(redis') BY <1>2 DEF Shape, TypeOK, Stored
<1> QED BY <1>6, <1>7, <1>8, <1>9, ShapeNext

\* A batch of reads keeps the shape.
LEMMA NextBatchShape ==
  ASSUME Shape, NEW p \in Handlers, NextBatch(p)
  PROVE  Shape'
<1> PICK commands \in Seq(Command), batch \in SUBSET Sessions : Asks(p, commands, batch)
  BY NextBatchAsks
<1>1. /\ op[p] = "list" /\ pc[p] = "await" /\ Issue(commands)
      /\ todo' = [todo EXCEPT ![p] = @ \ batch]
      /\ \A k \in DOMAIN commands : \E s \in batch : commands[k] = Get(p, s)
  BY DEF Asks
<1>2. UNCHANGED <<redis, expiry, now, pc, op, about, found, faults, stamped, ended, touched,
                  ever, always>>
  BY DEF NextBatch, store, sessionHistory, listHistory
<1>3. /\ pipeline' \in Seq(Command) /\ executed' \in 0..Len(pipeline)'
      /\ \A i \in DOMAIN pipeline : pipeline'[i] = pipeline[i]
      /\ \A i \in DOMAIN pipeline' \ DOMAIN pipeline : \E s \in batch : pipeline'[i] = Get(p, s)
  BY <1>1, Issued
<1>4. todo' \in [Handlers -> SUBSET Sessions] BY <1>1 DEF Shape, TypeOK
<1>5. TypeOK' BY <1>2, <1>3, <1>4 DEF Shape, TypeOK, Session, Command
<1>6. ASSUME NEW i \in DOMAIN pipeline' PROVE CommandOK(pipeline[i])'
  <2>1. PICK d : d = pipeline'[i] OBVIOUS
  <2>2. CommandOK(d)
    <3>1. CASE i \in DOMAIN pipeline BY <1>3, <2>1, <3>1 DEF Shape
    <3>2. CASE i \notin DOMAIN pipeline
      <4>1. PICK s \in Sessions : d = Get(p, s) BY <1>1, <1>3, <2>1, <3>2
      <4> QED BY <1>1, <4>1 DEF CommandOK, Get, Command
    <3> QED BY <3>1, <3>2
  <2>3. CommandOK(d)' BY <1>2, <2>2, CommandStays DEF CommandOK
  <2> QED BY <2>1, <2>3
<1>7. \A q \in Handlers : RequestOK(q)' BY <1>2 DEF Shape, RequestOK
<1>8. Stored(redis') BY <1>2 DEF Shape, TypeOK, Stored
<1> QED BY <1>5, <1>6, <1>7, <1>8, ShapeNext

\* A reply changes nothing else of a command.
LEMMA Replied ==
  ASSUME NEW c \in Command, NEW r \in SUBSET (Sessions \cup Session),
         NEW d, d = [c EXCEPT !.reply = r]
  PROVE  /\ d \in Command /\ d.by = c.by /\ d.cmd = c.cmd /\ d.id = c.id /\ d.value = c.value
         /\ d.reply = r
BY DEF Command

\* What Redis does for a command, and replies to it.
LEMMA Execution ==
  ASSUME Shape, Execute
  PROVE  \E k \in DOMAIN pipeline, c \in Command, d \in Command :
           /\ k = executed + 1 /\ executed' = k /\ c = pipeline[k] /\ CommandOK(c)
           /\ DOMAIN pipeline' = DOMAIN pipeline /\ Len(pipeline)' = Len(pipeline)
           /\ \A i \in DOMAIN pipeline \ {k} : pipeline'[i] = pipeline[i]
           /\ pipeline'[k] = d
           /\ d.by = c.by /\ d.cmd = c.cmd /\ d.id = c.id /\ d.value = c.value
           /\ d.reply = ReplyTo(c)
           /\ c.cmd = "get" => d.reply = {redis[c.id]} \ {Absent}
           /\ c.cmd = "keys" => d.reply = {s \in Sessions : redis[s] # Absent}
           /\ c.cmd = "setex" =>
                /\ redis' = [redis EXCEPT ![c.id] = c.value]
                /\ expiry' = [expiry EXCEPT ![c.id] = now + Lifetime]
           /\ c.cmd = "del" =>
                redis' = [redis EXCEPT ![c.id] = Absent] /\ expiry' = [expiry EXCEPT ![c.id] = 0]
           /\ c.cmd \in {"get", "keys"} => redis' = redis /\ expiry' = expiry
<1>1. PICK k \in DOMAIN pipeline :
        /\ k = executed + 1 /\ executed' = k
        /\ DOMAIN pipeline' = DOMAIN pipeline /\ Len(pipeline)' = Len(pipeline)
        /\ \A i \in DOMAIN pipeline \ {k} : pipeline'[i] = pipeline[i]
        /\ pipeline'[k] = [pipeline[k] EXCEPT !.reply = ReplyTo(pipeline[k])]
  BY Executed
<1>2. PICK c \in Command : c = pipeline[k] /\ CommandOK(c) BY PipelineType DEF Shape
<1>3. /\ c.cmd = "get" => ReplyTo(c) = {redis[c.id]} \ {Absent}
      /\ c.cmd = "keys" => ReplyTo(c) = {s \in Sessions : redis[s] # Absent}
      /\ c.cmd \in {"setex", "del"} => ReplyTo(c) = {}
  BY DEF ReplyTo
<1>4. PICK r \in SUBSET (Sessions \cup Session) : r = ReplyTo(c)
  <2>1. c.cmd = "get" => redis[c.id] \in Session \cup {Absent}
    BY <1>2 DEF CommandOK, Shape, TypeOK
  <2> QED BY <1>2, <1>3, <2>1, CommandParts
<1>5. PICK d : d = [c EXCEPT !.reply = r] OBVIOUS
<1>6. /\ d \in Command /\ d.by = c.by /\ d.cmd = c.cmd /\ d.id = c.id /\ d.value = c.value
      /\ d.reply = r
  BY <1>5, Replied
<1>7. pipeline'[k] = d BY <1>1, <1>2, <1>4, <1>5
<1>8. /\ redis' = IF c.cmd \in {"setex", "del"} THEN [redis EXCEPT ![c.id] = c.value] ELSE redis
      /\ expiry' = CASE c.cmd = "setex" -> [expiry EXCEPT ![c.id] = Expiry(c.id)]
                     [] c.cmd = "del"   -> [expiry EXCEPT ![c.id] = 0]
                     [] OTHER           -> expiry
  BY <1>1, <1>2 DEF Execute
<1>9. /\ c.cmd = "setex" =>
           /\ redis' = [redis EXCEPT ![c.id] = c.value]
           /\ expiry' = [expiry EXCEPT ![c.id] = now + Lifetime]
      /\ c.cmd = "del" =>
           redis' = [redis EXCEPT ![c.id] = Absent] /\ expiry' = [expiry EXCEPT ![c.id] = 0]
      /\ c.cmd \in {"get", "keys"} => redis' = redis /\ expiry' = expiry
  BY <1>2, <1>8 DEF CommandOK, Expiry
<1> QED BY <1>1, <1>2, <1>3, <1>4, <1>6, <1>7, <1>9

\* The listings that watch keep their types.
LEMMA WatchType ==
  ASSUME Shape, NEW db, Watch(db)
  PROVE  /\ ever' \in [Handlers -> SUBSET Sessions]
         /\ always' \in [Handlers -> SUBSET Sessions]
         /\ \A p \in Handlers : op[p] = "list" =>
              ever'[p] = ever[p] \cup Actives(db) /\ always'[p] = always[p] \cap Actives(db)
<1>1. Actives(db) \subseteq Sessions BY DEF Actives
<1> QED BY <1>1 DEF Watch, Shape, TypeOK, Listing, RequestOK

\* The execution of a command keeps the shape.
LEMMA ExecuteShape ==
  ASSUME Shape, Execute
  PROVE  Shape'
<1>1. PICK k \in DOMAIN pipeline, c \in Command, d \in Command :
        /\ k = executed + 1 /\ executed' = k /\ c = pipeline[k] /\ CommandOK(c)
        /\ DOMAIN pipeline' = DOMAIN pipeline /\ Len(pipeline)' = Len(pipeline)
        /\ \A i \in DOMAIN pipeline \ {k} : pipeline'[i] = pipeline[i]
        /\ pipeline'[k] = d
        /\ d.by = c.by /\ d.cmd = c.cmd /\ d.id = c.id /\ d.value = c.value
        /\ c.cmd = "get" => d.reply = {redis[c.id]} \ {Absent}
        /\ c.cmd = "keys" => d.reply = {s \in Sessions : redis[s] # Absent}
        /\ c.cmd = "setex" =>
             /\ redis' = [redis EXCEPT ![c.id] = c.value]
             /\ expiry' = [expiry EXCEPT ![c.id] = now + Lifetime]
        /\ c.cmd = "del" =>
             redis' = [redis EXCEPT ![c.id] = Absent] /\ expiry' = [expiry EXCEPT ![c.id] = 0]
        /\ c.cmd \in {"get", "keys"} => redis' = redis /\ expiry' = expiry
  BY Execution
<1>2. UNCHANGED <<now, pc, op, about, found, todo, faults, stamped, ended, touched>>
  BY DEF Execute, request, sessionHistory
<1>3. c.cmd \in {"get", "setex", "del", "keys"} BY CommandParts
<1>4. Stored(redis')
  <2> PICK new : new = redis' OBVIOUS
  <2>0. redis = [s \in Sessions |-> redis[s]] /\ Stored(redis) BY DEF Stored, Shape, TypeOK
  <2>1. CASE c.cmd = "setex"
    <3>1. c.value \in Session /\ c.value.id = c.id BY <1>1, <2>1 DEF CommandOK
    <3>2. new = [redis EXCEPT ![c.id] = c.value] BY <1>1, <2>1
    <3>3. \A s \in Sessions : new[s] = redis[s] \/ (s = c.id /\ new[s] = c.value)
      BY <2>0, <3>2
    <3>4. Stored(new) BY <2>0, <3>1, <3>3 DEF Stored
    <3> QED BY <3>4
  <2>2. CASE c.cmd = "del"
    <3>1. new = [redis EXCEPT ![c.id] = Absent] BY <1>1, <2>2
    <3>2. \A s \in Sessions : new[s] = redis[s] \/ new[s] = Absent BY <2>0, <3>1
    <3>3. Stored(new) BY <2>0, <3>2 DEF Stored
    <3> QED BY <3>3
  <2>3. CASE c.cmd \in {"get", "keys"} BY <1>1, <2>3 DEF Stored, Shape, TypeOK
  <2> QED BY <1>3, <2>1, <2>2, <2>3
<1>5. redis' \in [Sessions -> Session \cup {Absent}]
  <2>1. redis' = [s \in Sessions |-> redis'[s]]
    BY <1>1, <1>3 DEF Shape, TypeOK
  <2> QED BY <1>4, <2>1 DEF Stored
<1>6. expiry' \in [Sessions -> 0..(MaxTime + Lifetime)]
  <2>1. now + Lifetime \in 0..(MaxTime + Lifetime) /\ 0 \in 0..(MaxTime + Lifetime)
    BY CacheAssumption DEF Shape, TypeOK
  <2> QED BY <1>1, <1>3, <2>1 DEF Shape, TypeOK
<1>7. pipeline' \in Seq(Command) /\ executed' \in 0..Len(pipeline)'
  <2>1. PICK new : new = pipeline' OBVIOUS
  <2>2. PICK n \in Nat : n = Len(pipeline) /\ DOMAIN pipeline = 1..n /\ n = Len(new)
    BY <1>1, <2>1, PipelineType
  <2>3. \A i \in 1..n : new[i] \in Command BY <1>1, <2>1, <2>2, PipelineType
  <2>4. pipeline' = [pipeline EXCEPT ![k] = d]
    BY <1>1, <2>1 DEF Execute
  <2>5. pipeline' \in Seq(Command) BY <2>4, ExceptSeq, PipelineType
  <2> QED BY <1>1, <2>1, <2>2, <2>5
<1>8. /\ ever' \in [Handlers -> SUBSET Sessions]
      /\ always' \in [Handlers -> SUBSET Sessions]
  <2>1. Watch(redis') BY DEF Execute
  <2>2. PICK db : db = redis' OBVIOUS
  <2> QED BY <2>1, <2>2, WatchType
<1>9. TypeOK' BY <1>2, <1>5, <1>6, <1>7, <1>8 DEF Shape, TypeOK, Session, Command
<1>10. ASSUME NEW i \in DOMAIN pipeline' PROVE CommandOK(pipeline[i])'
  <2>1. PICK b : b = pipeline'[i] OBVIOUS
  <2>2. CommandOK(b)
    <3>1. CASE i # k BY <1>1, <2>1, <3>1 DEF Shape
    <3>2. CASE i = k
      <4>1. c.cmd = "get" => redis[c.id] \in Session \cup {Absent}
                             /\ (redis[c.id] # Absent => redis[c.id].id = c.id)
        BY <1>1 DEF CommandOK, Shape, TypeOK
      <4>2. b = d BY <1>1, <2>1, <3>2
      <4> QED BY <1>1, <4>1, <4>2 DEF CommandOK
    <3> QED BY <3>1, <3>2
  <2>3. CommandOK(b)' BY <1>2, <2>2, CommandStays DEF CommandOK
  <2> QED BY <2>1, <2>3
<1>11. \A q \in Handlers : RequestOK(q)' BY <1>2 DEF Shape, RequestOK
<1> QED BY <1>4, <1>9, <1>10, <1>11, ShapeNext

\* What a reply does: a session found, the keys to do, a time that is answered, an end.
LEMMA Acknowledgement ==
  ASSUME Shape, Acknowledge
  PROVE  \E c \in Command :
           /\ c = pipeline[1] /\ CommandOK(c)
           /\ found' = IF c.cmd = "get" THEN [found EXCEPT ![c.by] = @ \cup c.reply] ELSE found
           /\ todo' = IF c.cmd = "keys" THEN [todo EXCEPT ![c.by] = c.reply] ELSE todo
           /\ stamped' = IF c.cmd = "setex" /\ Newest(c, Tail(pipeline))
                         THEN [stamped EXCEPT ![c.id] = c.value.stamp]
                         ELSE stamped
           /\ ended' = IF c.cmd = "del" /\ Writers(c.id) = {} THEN [ended EXCEPT ![c.id] = TRUE]
                                                             ELSE ended
<1>1. 1 \in DOMAIN pipeline /\ Head(pipeline) = pipeline[1] BY Acknowledged
<1>2. PICK c \in Command : c = pipeline[1] /\ c = Head(pipeline) /\ CommandOK(c)
  BY <1>1, PipelineType DEF Shape
<1> QED BY <1>2 DEF Acknowledge

\* A reply keeps the shape.
LEMMA AcknowledgeShape ==
  ASSUME Shape, Acknowledge
  PROVE  Shape'
<1>1. PICK c \in Command :
        /\ CommandOK(c)
        /\ found' = IF c.cmd = "get" THEN [found EXCEPT ![c.by] = @ \cup c.reply] ELSE found
        /\ todo' = IF c.cmd = "keys" THEN [todo EXCEPT ![c.by] = c.reply] ELSE todo
        /\ stamped' = IF c.cmd = "setex" /\ Newest(c, Tail(pipeline))
                      THEN [stamped EXCEPT ![c.id] = c.value.stamp]
                      ELSE stamped
        /\ ended' = IF c.cmd = "del" /\ Writers(c.id) = {} THEN [ended EXCEPT ![c.id] = TRUE]
                                                          ELSE ended
  BY Acknowledgement
<1>2. UNCHANGED <<redis, expiry, now, pc, op, about, faults, touched, ever, always>>
  BY DEF Acknowledge, store, listHistory
<1>3. /\ pipeline' \in Seq(Command) /\ executed' \in 0..Len(pipeline)'
      /\ \A i \in DOMAIN pipeline' :
           i + 1 \in DOMAIN pipeline /\ pipeline'[i] = pipeline[i + 1]
  BY Acknowledged
<1>4. c.by \in Handlers BY CommandParts
<1>5. found' \in [Handlers -> SUBSET Session]
  <2>1. CASE c.cmd = "get"
    <3>1. c.reply \subseteq Session BY <1>1, <2>1 DEF CommandOK
    <3> QED BY <1>1, <2>1, <3>1 DEF Shape, TypeOK
  <2>2. CASE c.cmd # "get" BY <1>1, <2>2 DEF Shape, TypeOK
  <2> QED BY <2>1, <2>2
<1>6. todo' \in [Handlers -> SUBSET Sessions]
  <2>1. CASE c.cmd = "keys"
    <3>1. c.reply \subseteq Sessions BY <1>1, <2>1 DEF CommandOK
    <3> QED BY <1>1, <2>1, <3>1 DEF Shape, TypeOK
  <2>2. CASE c.cmd # "keys" BY <1>1, <2>2 DEF Shape, TypeOK
  <2> QED BY <2>1, <2>2
<1>7. stamped' \in [Sessions -> 0..MaxTime]
  <2>1. CASE c.cmd = "setex"
    <3>1. c.value.stamp \in 0..MaxTime BY <1>1, <2>1, SessionParts DEF CommandOK
    <3> QED BY <1>1, <2>1, <3>1 DEF Shape, TypeOK
  <2>2. CASE c.cmd # "setex" BY <1>1, <2>2 DEF Shape, TypeOK
  <2> QED BY <2>1, <2>2
<1>8. ended' \in [Sessions -> BOOLEAN] BY <1>1 DEF Shape, TypeOK
<1>9. TypeOK'
  BY <1>2, <1>3, <1>5, <1>6, <1>7, <1>8 DEF Shape, TypeOK, Session, Command
<1>10. ASSUME NEW i \in DOMAIN pipeline' PROVE CommandOK(pipeline[i])'
  <2>1. PICK d : d = pipeline'[i] OBVIOUS
  <2>2. CommandOK(d) BY <1>3, <2>1 DEF Shape
  <2>3. CommandOK(d)' BY <1>2, <2>2, CommandStays DEF CommandOK
  <2> QED BY <2>1, <2>3
<1>11. ASSUME NEW q \in Handlers PROVE RequestOK(q)'
  <2>1. CASE c.cmd = "get" /\ q = c.by
    <3>1. found'[q] = found[q] \cup c.reply BY <1>1, <2>1 DEF Shape, TypeOK
    <3>2. /\ pc[q] # "idle" /\ \A e \in c.reply : e.id = c.id
          /\ op[q] = "update" => about[q] = c.id
      BY <1>1, <2>1 DEF CommandOK
    <3> QED BY <1>2, <3>1, <3>2 DEF Shape, RequestOK
  <2>2. CASE ~(c.cmd = "get" /\ q = c.by)
    <3>1. found'[q] = found[q] BY <1>1, <2>2 DEF Shape, TypeOK
    <3> QED BY <1>2, <3>1 DEF Shape, RequestOK
  <2> QED BY <2>1, <2>2
<1>12. Stored(redis') BY <1>2 DEF Shape, TypeOK, Stored
<1> QED BY <1>9, <1>10, <1>11, <1>12, ShapeNext

\* To send the commands again changes none of them; to give up leaves none.
LEMMA BrokenShape ==
  ASSUME Shape, Resend \/ GiveUp
  PROVE  Shape'
<1>1. /\ UNCHANGED <<redis, expiry, now, pc, op, about, found, todo, stamped, ended, touched, ever>>
      /\ faults' = faults + 1 /\ faults < MaxFaults /\ executed' = 0
      /\ pipeline' = pipeline \/ pipeline' = << >>
  BY DEF Resend, GiveUp, store, request, sessionHistory, listHistory
<1>2. pipeline' \in Seq(Command) /\ executed' \in 0..Len(pipeline)'
      /\ \A i \in DOMAIN pipeline' : i \in DOMAIN pipeline /\ pipeline'[i] = pipeline[i]
  <2>1. CASE pipeline' = pipeline BY <1>1, <2>1, PipelineType
  <2>2. CASE pipeline' = << >>
    <3>1. Len(<< >>) = 0 /\ DOMAIN << >> = {} /\ << >> \in Seq(Command) OBVIOUS
    <3> QED BY <1>1, <2>2, <3>1
  <2> QED BY <1>1, <2>1, <2>2
<1>3. always' \in [Handlers -> SUBSET Sessions]
  BY DEF Resend, GiveUp, listHistory, Shape, TypeOK
<1>4. faults' \in 0..MaxFaults BY <1>1, CacheAssumption DEF Shape, TypeOK
<1>5. TypeOK' BY <1>1, <1>2, <1>3, <1>4 DEF Shape, TypeOK, Session, Command
<1>6. ASSUME NEW i \in DOMAIN pipeline' PROVE CommandOK(pipeline[i])'
  <2>1. PICK d : d = pipeline'[i] OBVIOUS
  <2>2. CommandOK(d) BY <1>2, <2>1 DEF Shape
  <2>3. CommandOK(d)' BY <1>1, <2>2, CommandStays DEF CommandOK
  <2> QED BY <2>1, <2>3
<1>7. \A q \in Handlers : RequestOK(q)' BY <1>1 DEF Shape, RequestOK
<1>8. Stored(redis') BY <1>1 DEF Shape, TypeOK, Stored
<1> QED BY <1>5, <1>6, <1>7, <1>8, ShapeNext

\* After a restart there are no requests.
LEMMA RestartShape ==
  ASSUME Shape, Restart
  PROVE  Shape'
<1>1. /\ pipeline' = << >> /\ Len(<< >>) = 0 /\ DOMAIN << >> = {} /\ << >> \in Seq(Command)
      /\ executed' = 0 /\ faults' = faults + 1 /\ faults < MaxFaults
      /\ UNCHANGED <<redis, expiry, now, stamped, ended>>
  BY DEF Restart, store
<1>2. touched' \in [Sessions -> 0..MaxTime] BY DEF Restart, Shape, TypeOK
<1>3. faults' \in 0..MaxFaults BY <1>1, CacheAssumption DEF Shape, TypeOK
<1>4. /\ pc' = [p \in Handlers |-> "idle"] /\ op' = [p \in Handlers |-> "none"]
      /\ about' = [p \in Handlers |-> Absent] /\ found' = [p \in Handlers |-> {}]
      /\ todo' = [p \in Handlers |-> {}]
      /\ ever' = [p \in Handlers |-> {}] /\ always' = [p \in Handlers |-> {}]
  BY DEF Restart
<1>5. TypeOK' BY <1>1, <1>2, <1>3, <1>4 DEF Shape, TypeOK, Session, Command
<1>6. \A q \in Handlers : RequestOK(q)' BY <1>4 DEF RequestOK
<1>7. Stored(redis') BY <1>1 DEF Shape, TypeOK, Stored
<1> QED BY <1>1, <1>5, <1>6, <1>7, ShapeNext

\* What a tick does to each session.
LEMMA Ticked ==
  ASSUME Shape, Tick
  PROVE  /\ now' = now + 1 /\ now' \in 0..MaxTime
         /\ UNCHANGED <<pipeline, executed, pc, op, about, found, todo, faults, stamped, touched>>
         /\ Watch(redis')
         /\ redis' = [s \in Sessions |-> redis'[s]] /\ expiry' = [s \in Sessions |-> expiry'[s]]
         /\ ended' = [s \in Sessions |-> ended'[s]]
         /\ \A s \in Sessions :
              \/ /\ redis[s] # Absent => expiry[s] > now + 1
                 /\ redis'[s] = redis[s] /\ expiry'[s] = expiry[s] /\ ended'[s] = ended[s]
              \/ /\ redis'[s] = Absent /\ expiry'[s] = 0
                 /\ ended'[s] = (ended[s] \/ Writers(s) = {})
<1> DEFINE expired == {s \in Sessions : redis[s] # Absent /\ expiry[s] <= now + 1}
<1>1. /\ now' = now + 1 /\ now < MaxTime
      /\ redis' = [s \in Sessions |-> IF s \in expired THEN Absent ELSE redis[s]]
      /\ expiry' = [s \in Sessions |-> IF s \in expired THEN 0 ELSE expiry[s]]
      /\ ended' = [s \in Sessions |-> ended[s] \/ (s \in expired /\ Writers(s) = {})]
      /\ Watch(redis')
      /\ UNCHANGED <<pipeline, executed, pc, op, about, found, todo, faults, stamped, touched>>
  BY DEF Tick, client, request
<1>2. now' \in 0..MaxTime BY <1>1, CacheAssumption DEF Shape, TypeOK
<1>3. ASSUME NEW s \in Sessions
      PROVE  /\ s \in expired => /\ redis'[s] = Absent /\ expiry'[s] = 0
                                 /\ ended'[s] = (ended[s] \/ Writers(s) = {})
             /\ s \notin expired => /\ redis[s] # Absent => expiry[s] > now + 1
                                    /\ redis'[s] = redis[s] /\ expiry'[s] = expiry[s]
                                    /\ ended'[s] = ended[s]
  <2>1. expiry[s] \in Int /\ now \in Int /\ ended[s] \in BOOLEAN
    BY CacheAssumption DEF Shape, TypeOK
  <2>2. s \in expired \/ redis[s] = Absent \/ expiry[s] > now + 1 BY <2>1
  <2>3. ended'[s] = (ended[s] \/ (s \in expired /\ Writers(s) = {})) BY <1>1
  <2> HIDE DEF expired
  <2> QED BY <1>1, <2>1, <2>2, <2>3
<1> HIDE DEF expired
<1>4. /\ redis' = [s \in Sessions |-> redis'[s]] /\ expiry' = [s \in Sessions |-> expiry'[s]]
      /\ ended' = [s \in Sessions |-> ended'[s]]
  BY <1>1
<1> QED BY <1>1, <1>2, <1>3, <1>4

\* What a tick leaves is of the same shape.
LEMMA TickShape ==
  ASSUME Shape, Tick
  PROVE  Shape'
<1>1. UNCHANGED <<pipeline, executed, pc, op, about, found, todo, faults, stamped, touched>>
      /\ now' \in 0..MaxTime
  BY Ticked
<1>2. redis' \in [Sessions -> Session \cup {Absent}] /\ Stored(redis')
  <2>1. \A s \in Sessions : redis'[s] = Absent \/ redis'[s] = redis[s] BY Ticked
  <2>2. redis' = [s \in Sessions |-> redis'[s]] BY Ticked
  <2>3. Stored(redis') BY <2>1 DEF Stored, Shape, TypeOK
  <2> QED BY <2>2, <2>3 DEF Stored
<1>3. expiry' \in [Sessions -> 0..(MaxTime + Lifetime)]
  <2>1. \A s \in Sessions : expiry'[s] = 0 \/ expiry'[s] = expiry[s] BY Ticked
  <2>2. expiry' = [s \in Sessions |-> expiry'[s]] BY Ticked
  <2>3. 0 \in 0..(MaxTime + Lifetime) BY CacheAssumption
  <2>4. \A s \in Sessions : expiry'[s] \in 0..(MaxTime + Lifetime)
    BY <2>1, <2>3 DEF Shape, TypeOK
  <2> QED BY <2>2, <2>4
<1>4. ended' \in [Sessions -> BOOLEAN] BY DEF Tick, Shape, TypeOK
<1>5. /\ ever' \in [Handlers -> SUBSET Sessions]
      /\ always' \in [Handlers -> SUBSET Sessions]
  <2>1. PICK db : db = redis' OBVIOUS
  <2> QED BY <2>1, Ticked, WatchType
<1>6. TypeOK' BY <1>1, <1>2, <1>3, <1>4, <1>5 DEF Shape, TypeOK, Session, Command
<1>7. ASSUME NEW i \in DOMAIN pipeline' PROVE CommandOK(pipeline[i])'
  <2>1. PICK d : d = pipeline'[i] OBVIOUS
  <2>2. CommandOK(d) BY <1>1, <2>1 DEF Shape
  <2>3. CommandOK(d)' BY <1>1, <2>2, CommandStays DEF CommandOK
  <2> QED BY <2>1, <2>3
<1>8. \A q \in Handlers : RequestOK(q)' BY <1>1 DEF Shape, RequestOK
<1> QED BY <1>2, <1>6, <1>7, <1>8, ShapeNext

\* A step that changes nothing.
LEMMA StutterShape ==
  ASSUME Shape, UNCHANGED vars
  PROVE  Shape'
<1>1. UNCHANGED <<redis, expiry, now, pipeline, executed, pc, op, about, found, todo, faults,
                  stamped, ended, touched, ever, always>>
  BY DEF vars
<1>2. TypeOK' BY <1>1 DEF Shape, TypeOK, Session, Command
<1>3. ASSUME NEW i \in DOMAIN pipeline' PROVE CommandOK(pipeline[i])'
  <2>1. PICK d : d = pipeline'[i] OBVIOUS
  <2>2. CommandOK(d) BY <1>1, <2>1 DEF Shape
  <2>3. CommandOK(d)' BY <1>1, <2>2, CommandStays DEF CommandOK
  <2> QED BY <2>1, <2>3
<1>4. \A q \in Handlers : RequestOK(q)' BY <1>1 DEF Shape, RequestOK
<1>5. Stored(redis') BY <1>1 DEF Shape, TypeOK, Stored
<1> QED BY <1>2, <1>3, <1>4, <1>5, ShapeNext

-----------------------------------------------------------------------------
(* Steps that issue commands, and steps that issue none *)

\* Request p issues commands; what is stored, and what is answered, stays.
Grows(p) ==
  /\ UNCHANGED <<redis, expiry, now, executed, faults, touched>> /\ Lowered
  /\ \A i \in DOMAIN pipeline :
       i \in DOMAIN pipeline' /\ pipeline'[i] = pipeline[i] /\ pipeline[i].by # p
  /\ \A i \in DOMAIN pipeline' \ DOMAIN pipeline :
       /\ i \in Nat /\ executed < i /\ \A j \in DOMAIN pipeline : j < i
       /\ pipeline'[i].by = p /\ pipeline'[i].reply = {}
       /\ Minded(pipeline'[i])

\* The commands stay as they were, or none is left; Redis has executed no more of them.
Dwindles ==
  /\ DOMAIN pipeline' \in {DOMAIN pipeline, {}}
  /\ \A i \in DOMAIN pipeline' : i \in DOMAIN pipeline /\ pipeline'[i] = pipeline[i]
  /\ executed' \in {executed, 0}
  /\ now' \in Nat /\ now <= now' /\ stamped' = stamped
  /\ \A s \in Sessions : redis'[s] \in {redis[s], Absent}

\* Issuing such commands is a step of the first kind.
LEMMA IssueGrows ==
  ASSUME Shape, NEW p \in Handlers, pc[p] = "idle" \/ Pending(p) = {},
         NEW commands \in Seq(Command), Issue(commands),
         UNCHANGED <<redis, expiry, now, faults, touched>>, Lowered,
         \A k \in DOMAIN commands :
           commands[k].by = p /\ commands[k].reply = {} /\ Minded(commands[k])
  PROVE  Grows(p)
<1>1. /\ pipeline' \in Seq(Command) /\ executed' = executed
      /\ DOMAIN pipeline \subseteq DOMAIN pipeline'
      /\ \A i \in DOMAIN pipeline : pipeline'[i] = pipeline[i]
      /\ \A i \in DOMAIN pipeline' \ DOMAIN pipeline :
           /\ executed < i /\ (\A j \in DOMAIN pipeline : j < i)
           /\ \E k \in DOMAIN commands : pipeline'[i] = commands[k]
  BY Issued
<1>2. \A i \in DOMAIN pipeline' : i \in Nat
  <2>1. PICK new \in Seq(Command) : new = pipeline' BY <1>1
  <2>2. DOMAIN new = 1..Len(new) /\ Len(new) \in Nat OBVIOUS
  <2> QED BY <2>1, <2>2
<1>3. \A i \in DOMAIN pipeline : pipeline[i].by # p BY NoCommand
<1> QED BY <1>1, <1>2, <1>3 DEF Grows

\* So is each of the four operations, ...
LEMMA CallGrows ==
  ASSUME Shape, NEW p \in Handlers, NEW o, NEW s, NEW c \in Command, Fits(p, o, s, c),
         Call(p, o, s, c), Minded(c)
  PROVE  Grows(p)
<1>1. <<c>> \in Seq(Command) /\ \A k \in DOMAIN <<c>> : <<c>>[k] = c OBVIOUS
<1>2. c.by = p /\ c.reply = {} /\ Minded(c) BY DEF Fits
<1>3. /\ pc[p] = "idle" /\ Issue(<<c>>) /\ Lowered
      /\ UNCHANGED <<redis, expiry, now, faults, touched>>
  BY DEF Call, store, Minded
<1>4. PICK commands : commands = <<c>> OBVIOUS
<1> QED BY <1>1, <1>2, <1>3, <1>4, IssueGrows

\* ... the second command of updateUserActivityTime, ...
LEMMA WriteBackGrows ==
  ASSUME Shape, NEW p \in Handlers, WriteBack(p)
  PROVE  Grows(p)
<1>1. PICK c \in Command : /\ c.by = p /\ c.value.stamp = now /\ Issue(<<c>>)
                           /\ c.reply = {} /\ Pending(p) = {}
  <2>1. PICK session \in found[p] : Issue(<<SetEx(p, Touched(session))>>) BY DEF WriteBack
  <2>2. PICK c : c = SetEx(p, Touched(session)) OBVIOUS
  <2>3. session \in Session BY <2>1 DEF Shape, TypeOK
  <2>4. Touched(session) \in Session /\ Touched(session).stamp = now
        /\ Touched(session).id \in Sessions
    BY <2>3 DEF Touched, Session, Shape, TypeOK
  <2>5. c \in Command /\ c.by = p /\ c.value.stamp = now /\ c.reply = {}
    BY <2>2, <2>4 DEF SetEx, Command
  <2>6. Pending(p) = {} BY DEF WriteBack, Resumed
  <2> QED BY <2>1, <2>2, <2>5, <2>6
<1>2. <<c>> \in Seq(Command) /\ \A k \in DOMAIN <<c>> : <<c>>[k] = c OBVIOUS
<1>3. UNCHANGED <<redis, expiry, now, faults, touched>> /\ Lowered
  BY StampsStay DEF WriteBack, store, sessionHistory
<1>5. Minded(c)
  <2>1. now \in Nat BY CacheAssumption DEF Shape, TypeOK
  <2> QED BY <1>1, <1>3, <2>1 DEF Minded, OnTime
<1>4. PICK commands : commands = <<c>> OBVIOUS
<1> QED BY <1>1, <1>2, <1>3, <1>4, <1>5, IssueGrows

\* ... and a batch of getActiveSessions.
LEMMA NextBatchGrows ==
  ASSUME Shape, NEW p \in Handlers, NextBatch(p)
  PROVE  Grows(p)
<1> PICK commands \in Seq(Command), batch \in SUBSET Sessions : Asks(p, commands, batch)
  BY NextBatchAsks
<1>1. /\ Issue(commands) /\ Pending(p) = {}
      /\ \A k \in DOMAIN commands : \E s \in batch : commands[k] = Get(p, s)
  BY DEF Asks
<1>2. \A k \in DOMAIN commands :
        commands[k].by = p /\ commands[k].reply = {} /\ commands[k].cmd # "setex"
  BY <1>1 DEF Get
<1>3. UNCHANGED <<redis, expiry, now, faults, touched>> /\ Lowered
  BY StampsStay DEF NextBatch, store, sessionHistory
<1> QED BY <1>1, <1>2, <1>3, IssueGrows DEF Minded

\* The other steps but those of Redis and of replies are of the second kind.
LEMMA OthersDwindle ==
  ASSUME Shape,
         \/ \E p \in Handlers : Finish(p)
         \/ Resend \/ GiveUp \/ Restart \/ Tick \/ UNCHANGED vars
  PROVE  Dwindles
<1>1. now \in Nat BY CacheAssumption DEF Shape, TypeOK
<1>2. CASE \/ \E p \in Handlers : Finish(p)
           \/ Resend \/ UNCHANGED vars
  <2>1. pipeline' = pipeline /\ executed' \in {executed, 0}
        /\ UNCHANGED <<now, stamped, redis>>
    BY <1>2 DEF Finish, Resend, vars, store, client, sessionHistory
  <2> QED BY <1>1, <2>1 DEF Dwindles
<1>3. CASE GiveUp \/ Restart
  <2>1. pipeline' = << >> /\ executed' = 0 /\ UNCHANGED <<now, stamped, redis>>
    BY <1>3 DEF GiveUp, Restart, store, sessionHistory
  <2>2. DOMAIN << >> = {} OBVIOUS
  <2> QED BY <1>1, <2>1, <2>2 DEF Dwindles
<1>4. CASE Tick
  <2>1. now' = now + 1 /\ UNCHANGED <<pipeline, executed, stamped>>
        /\ \A s \in Sessions : redis'[s] \in {redis[s], Absent}
    BY <1>4, Ticked
  <2> QED BY <1>1, <2>1 DEF Dwindles
<1> QED BY <1>2, <1>3, <1>4

-----------------------------------------------------------------------------
(* Activity times *)

\* An issued write carries the present, or a time the history has taken note of.
LEMMA GrowsStamps ==
  ASSUME Shape, Shape', Stamps, NEW p \in Handlers, Grows(p)
  PROVE  Stamps'
<1>1. /\ UNCHANGED <<redis, now, executed>> /\ now \in Nat
      /\ \A s \in Sessions :
           /\ stamped[s] \in Nat /\ stamped'[s] \in Nat
           /\ stamped'[s] <= stamped[s] /\ stamped[s] <= now
  BY CacheAssumption DEF Grows, Lowered, Stamps, Shape, TypeOK
<1>2. ASSUME NEW i \in DOMAIN pipeline', NEW s \in Sessions, NEW c, c = pipeline'[i], Writes(c, s)
      PROVE  /\ stamped'[s] <= c.value.stamp /\ c.value.stamp <= now
             /\ i <= executed /\ redis[s] # Absent =>
                  \E j \in DOMAIN pipeline' :
                    i <= j /\ Writes(pipeline'[j], s) /\ redis[s] = pipeline'[j].value
  <2>0. c.value.stamp \in Nat
    <3>1. CommandOK(c)' BY <1>2 DEF Shape
    <3>2. c.value \in Session BY <1>2, <3>1 DEF CommandOK, Writes, Session
    <3> QED BY <3>2, SessionParts
  <2>1. CASE i \in DOMAIN pipeline
    <3>1. c = pipeline[i] BY <1>2, <2>1 DEF Grows
    <3>2. /\ stamped[s] <= c.value.stamp /\ c.value.stamp <= now
          /\ i <= executed /\ redis[s] # Absent =>
                  \E j \in DOMAIN pipeline :
                    i <= j /\ Writes(pipeline[j], s) /\ redis[s] = pipeline[j].value
      BY <1>2, <2>1, <3>1 DEF Stamps
    <3>3. \A j \in DOMAIN pipeline : j \in DOMAIN pipeline' /\ pipeline'[j] = pipeline[j]
      BY DEF Grows
    <3>4. stamped'[s] <= c.value.stamp BY <1>1, <2>0, <3>2
    <3> QED BY <3>2, <3>3, <3>4
  <2>2. CASE i \notin DOMAIN pipeline
    <3>1. OnTime(c) /\ i \in Nat /\ executed < i
      BY <1>2, <2>2 DEF Grows, Minded, Writes
    <3>2. stamped'[s] <= c.value.stamp /\ c.value.stamp <= now
      BY <1>1, <1>2, <2>0, <3>1 DEF OnTime, Writes
    <3>3. executed \in Nat BY PipelineType
    <3> QED BY <3>1, <3>2, <3>3
  <2> QED BY <2>1, <2>2
<1>3. ActivityIsKept'
  <2>1. ASSUME NEW s \in Sessions, redis[s] # Absent PROVE redis[s].stamp >= stamped'[s]
    <3>1. redis[s].stamp \in Nat /\ redis[s].stamp >= stamped[s]
      BY <2>1, SessionParts DEF Shape, TypeOK, Stamps, ActivityIsKept
    <3> QED BY <1>1, <3>1
  <2> QED BY <1>1, <2>1 DEF ActivityIsKept
<1>4. \A s \in Sessions : stamped'[s] <= now' BY <1>1
<1> QED BY <1>1, <1>2, <1>3, <1>4 DEF Stamps, Writes

\* What is dropped, forgotten or executed anew stays in order.
LEMMA DwindlesStamps ==
  ASSUME Shape, Stamps, Dwindles
  PROVE  Stamps'
<1>1. /\ stamped' = stamped /\ now \in Nat /\ now' \in Nat /\ now <= now'
      /\ executed' \in {executed, 0} /\ executed \in Nat
      /\ \A s \in Sessions : redis'[s] \in {redis[s], Absent} /\ stamped[s] \in Nat
  BY CacheAssumption, PipelineType DEF Dwindles, Shape, TypeOK
<1>2. ASSUME NEW i \in DOMAIN pipeline', NEW s \in Sessions, NEW c, c = pipeline'[i], Writes(c, s)
      PROVE  /\ stamped[s] <= c.value.stamp /\ c.value.stamp <= now'
             /\ i <= executed' /\ redis'[s] # Absent =>
                  \E j \in DOMAIN pipeline' :
                    i <= j /\ Writes(pipeline'[j], s) /\ redis'[s] = pipeline'[j].value
  <2>1. /\ i \in DOMAIN pipeline /\ c = pipeline[i] /\ i \in Nat
        /\ \A j \in DOMAIN pipeline : j \in DOMAIN pipeline' /\ pipeline'[j] = pipeline[j]
    BY <1>2, PipelineType DEF Dwindles
  <2>2. c.value.stamp \in Nat
    <3>1. c.value \in Session BY <1>2, <2>1 DEF Shape, CommandOK, Writes
    <3> QED BY <3>1, SessionParts
  <2>3. /\ stamped[s] <= c.value.stamp /\ c.value.stamp <= now
        /\ i <= executed /\ redis[s] # Absent =>
             \E j \in DOMAIN pipeline :
               i <= j /\ Writes(pipeline[j], s) /\ redis[s] = pipeline[j].value
    BY <1>2, <2>1 DEF Stamps
  <2>4. i <= executed' => i <= executed BY <1>1, <2>1
  <2>5. redis'[s] # Absent => redis'[s] = redis[s] BY <1>1
  <2>6. c.value.stamp <= now' BY <1>1, <2>2, <2>3
  <2> QED BY <2>1, <2>3, <2>4, <2>5, <2>6
<1>3. \A s \in Sessions : stamped[s] <= now'
  BY <1>1 DEF Stamps
<1>4. ActivityIsKept' BY <1>1 DEF Stamps, ActivityIsKept
<1> QED BY <1>1, <1>2, <1>3, <1>4 DEF Stamps, Writes

\* What Redis executes next is not behind what it executed before.
LEMMA ExecuteStamps ==
  ASSUME Shape, Stamps, Execute
  PROVE  Stamps'
<1>1. PICK k \in DOMAIN pipeline, c \in Command, d \in Command :
        /\ k = executed + 1 /\ executed' = k /\ c = pipeline[k] /\ CommandOK(c)
        /\ DOMAIN pipeline' = DOMAIN pipeline
        /\ \A i \in DOMAIN pipeline \ {k} : pipeline'[i] = pipeline[i]
        /\ pipeline'[k] = d
        /\ d.by = c.by /\ d.cmd = c.cmd /\ d.id = c.id /\ d.value = c.value
        /\ c.cmd = "setex" => redis' = [redis EXCEPT ![c.id] = c.value]
        /\ c.cmd = "del" => redis' = [redis EXCEPT ![c.id] = Absent]
        /\ c.cmd \in {"get", "keys"} => redis' = redis
  BY Execution
<1>2. UNCHANGED <<now, stamped>> BY DEF Execute, sessionHistory
<1>3. ASSUME NEW s \in Sessions
      PROVE  IF Writes(c, s) THEN redis'[s] = c.value ELSE redis'[s] \in {redis[s], Absent}
  BY <1>1, CommandParts DEF Writes, Shape, TypeOK
<1>4. \A i \in DOMAIN pipeline, s \in Sessions :
        /\ Writes(pipeline'[i], s) <=> Writes(pipeline[i], s)
        /\ pipeline'[i].value = pipeline[i].value
  BY <1>1 DEF Writes
<1>5. ASSUME NEW i \in DOMAIN pipeline, NEW s \in Sessions, Writes(pipeline[i], s),
             i <= executed', redis'[s] # Absent
      PROVE  \E j \in DOMAIN pipeline :
               i <= j /\ Writes(pipeline[j], s) /\ redis'[s] = pipeline[j].value
  <2>1. i \in Nat /\ executed \in Nat /\ (i = k \/ i <= executed)
    BY <1>1, <1>5, PipelineType
  <2>2. CASE Writes(c, s)
    <3>1. redis'[s] = c.value BY <1>3, <2>2
    <3>2. i <= k BY <1>1, <2>1
    <3> QED BY <1>1, <2>2, <3>1, <3>2
  <2>3. CASE ~Writes(c, s)
    <3>1. redis'[s] = redis[s] BY <1>3, <1>5, <2>3
    <3>2. i # k BY <1>1, <1>5, <2>3
    <3> QED BY <1>5, <2>1, <3>1, <3>2 DEF Stamps
  <2> QED BY <2>2, <2>3
<1>6. ASSUME NEW s \in Sessions, redis'[s] # Absent PROVE redis'[s].stamp >= stamped[s]
  <2>1. CASE Writes(c, s)
    <3>1. stamped[s] <= c.value.stamp /\ c.value \in Session
      BY <1>1, <2>1 DEF Stamps, CommandOK, Writes
    <3>2. c.value.stamp \in Nat /\ stamped[s] \in Nat
      BY <3>1, SessionParts, CacheAssumption DEF Shape, TypeOK
    <3>3. redis'[s] = c.value BY <1>3, <2>1
    <3> QED BY <3>1, <3>2, <3>3
  <2>2. CASE ~Writes(c, s) BY <1>3, <1>6, <2>2 DEF Stamps, ActivityIsKept
  <2> QED BY <2>1, <2>2
<1>7. ActivityIsKept' BY <1>2, <1>6 DEF ActivityIsKept
<1>8. \A i \in DOMAIN pipeline : \A s \in Sessions : Writes(pipeline'[i], s) =>
        /\ stamped[s] <= pipeline'[i].value.stamp /\ pipeline'[i].value.stamp <= now
        /\ i <= executed' /\ redis'[s] # Absent =>
             \E j \in DOMAIN pipeline :
               i <= j /\ Writes(pipeline'[j], s) /\ redis'[s] = pipeline'[j].value
  BY <1>4, <1>5 DEF Stamps
<1> QED BY <1>1, <1>2, <1>7, <1>8 DEF Stamps, Writes

\* When a write is answered, the store is not behind it or behind a write to come; if one
\* to come is older, the history waits for its answer.
LEMMA AcknowledgeStamps ==
  ASSUME Shape, Stamps, Acknowledge
  PROVE  Stamps'
<1>1. PICK c \in Command :
        /\ c = pipeline[1] /\ CommandOK(c)
        /\ stamped' = IF c.cmd = "setex" /\ Newest(c, Tail(pipeline))
                      THEN [stamped EXCEPT ![c.id] = c.value.stamp]
                      ELSE stamped
  BY Acknowledgement
<1>2. /\ 1 \in DOMAIN pipeline /\ 1 <= executed /\ executed' = executed - 1
      /\ \A i \in DOMAIN pipeline' :
           i + 1 \in DOMAIN pipeline /\ pipeline'[i] = pipeline[i + 1]
  BY Acknowledged
<1>3. UNCHANGED <<redis, now>> /\ pipeline' = Tail(pipeline) BY DEF Acknowledge, store
<1>4. ASSUME NEW s \in Sessions
      PROVE  stamped'[s] = IF Writes(c, s) /\ Newest(c, pipeline') THEN c.value.stamp
                                                                  ELSE stamped[s]
  BY <1>1, <1>3 DEF Writes, Shape, TypeOK
<1>5. ASSUME NEW s \in Sessions, Writes(c, s), Newest(c, pipeline'), NEW j \in DOMAIN pipeline,
             Writes(pipeline[j], s)
      PROVE  c.value.stamp <= pipeline[j].value.stamp
  <2>1. j \in 1..Len(pipeline) /\ Len(pipeline) \in Nat
    BY PipelineType
  <2>2. CASE j = 1
    <3>1. c.value \in Session BY <1>1, <1>5 DEF CommandOK, Writes
    <3> QED BY <1>1, <2>2, <3>1, SessionParts
  <2>3. CASE j # 1
    <3>1. j - 1 \in DOMAIN pipeline' /\ pipeline'[j - 1] = pipeline[j]
      BY <1>3, <2>1, <2>3, PipelineType
    <3> QED BY <1>5, <3>1 DEF Newest, Writes
  <2> QED BY <2>2, <2>3
<1>6. ASSUME NEW s \in Sessions
      PROVE  stamped'[s] <= now /\ (redis[s] # Absent => redis[s].stamp >= stamped'[s])
  <2>1. CASE Writes(c, s) /\ Newest(c, pipeline')
    <3>1. stamped'[s] = c.value.stamp BY <1>4, <2>1
    <3>2. /\ c.value.stamp <= now
          /\ redis[s] # Absent =>
               \E j \in DOMAIN pipeline :
                 1 <= j /\ Writes(pipeline[j], s) /\ redis[s] = pipeline[j].value
      BY <1>1, <1>2, <2>1 DEF Stamps
    <3>3. redis[s] # Absent => c.value.stamp <= redis[s].stamp BY <1>5, <2>1, <3>2
    <3>4. redis[s] # Absent => redis[s].stamp \in Nat
      BY SessionParts DEF Shape, TypeOK
    <3>5. c.value \in Session BY <1>1, <2>1 DEF CommandOK, Writes
    <3>6. c.value.stamp \in Nat BY <3>5, SessionParts
    <3> QED BY <3>1, <3>2, <3>3, <3>4, <3>6
  <2>2. CASE ~(Writes(c, s) /\ Newest(c, pipeline'))
    BY <1>4, <2>2 DEF Stamps, ActivityIsKept
  <2> QED BY <2>1, <2>2
<1>7. ASSUME NEW i \in DOMAIN pipeline', NEW s \in Sessions, NEW e, e = pipeline'[i], Writes(e, s)
      PROVE  /\ stamped'[s] <= e.value.stamp /\ e.value.stamp <= now
             /\ i <= executed' /\ redis[s] # Absent =>
                  \E j \in DOMAIN pipeline' :
                    i <= j /\ Writes(pipeline'[j], s) /\ redis[s] = pipeline'[j].value
  <2>1. /\ i + 1 \in DOMAIN pipeline /\ e = pipeline[i + 1]
        /\ i + 1 \in Nat /\ 1 \in Nat /\ executed \in Nat
    BY <1>2, <1>7, PipelineType
  <2>2. i \in Nat /\ i >= 1
    <3>1. PICK new \in Seq(Command) : new = pipeline' BY Acknowledged
    <3>2. DOMAIN new = 1..Len(new) /\ Len(new) \in Nat OBVIOUS
    <3> QED BY <3>1, <3>2
  <2>3. stamped'[s] <= e.value.stamp
    <3>1. stamped[s] <= e.value.stamp BY <1>7, <2>1 DEF Stamps
    <3>2. Writes(c, s) /\ Newest(c, pipeline') => c.value.stamp <= e.value.stamp
      BY <1>5, <1>7, <2>1
    <3> QED BY <1>4, <3>1, <3>2
  <2>4. /\ e.value.stamp <= now
        /\ i + 1 <= executed /\ redis[s] # Absent =>
             \E j \in DOMAIN pipeline :
               i + 1 <= j /\ Writes(pipeline[j], s) /\ redis[s] = pipeline[j].value
    BY <1>7, <2>1 DEF Stamps
  <2>5. i <= executed' => i + 1 <= executed BY <1>2, <2>1, <2>2
  <2>6. ASSUME NEW j \in DOMAIN pipeline, i + 1 <= j, Writes(pipeline[j], s),
               redis[s] = pipeline[j].value
        PROVE  /\ j - 1 \in DOMAIN pipeline' /\ i <= j - 1 /\ Writes(pipeline'[j - 1], s)
               /\ redis[s] = pipeline'[j - 1].value
    <3>1. j \in 1..Len(pipeline) /\ Len(pipeline) \in Nat /\ j # 1
      BY <2>2, <2>6, PipelineType
    <3>2. j - 1 \in DOMAIN pipeline' /\ pipeline'[j - 1] = pipeline[j]
      BY <1>3, <3>1, PipelineType
    <3> QED BY <2>2, <2>6, <3>1, <3>2
  <2> QED BY <2>3, <2>4, <2>5, <2>6
<1>8. ActivityIsKept' BY <1>3, <1>6 DEF ActivityIsKept
<1> QED BY <1>3, <1>6, <1>7, <1>8 DEF Stamps, Writes

-----------------------------------------------------------------------------
(* Sessions that have ended *)

\* Nobody writes a session that has no writer.
LEMMA NoWriters ==
  ASSUME Shape, NEW s \in Sessions, Writers(s) = {}
  PROVE  /\ \A i \in DOMAIN pipeline :
              /\ ~Writes(pipeline[i], s)
              /\ ~(pipeline[i].cmd = "get" /\ pipeline[i].id = s /\ op[pipeline[i].by] = "update")
         /\ \A p \in Handlers : ~(op[p] = "update" /\ about[p] = s)
<1>1. \A p \in Handlers : pc[p] # "idle" /\ about[p] = s => op[p] \notin {"set", "update"}
  BY DEF Writers
<1>2. ASSUME NEW i \in DOMAIN pipeline
      PROVE  /\ ~Writes(pipeline[i], s)
             /\ ~(pipeline[i].cmd = "get" /\ pipeline[i].id = s /\ op[pipeline[i].by] = "update")
  <2>1. PICK c \in Command : c = pipeline[i] /\ CommandOK(c) /\ c.by \in Handlers
    BY PipelineType, CommandParts DEF Shape
  <2> QED BY <1>1, <2>1 DEF CommandOK, Writes
<1>3. \A p \in Handlers : ~(op[p] = "update" /\ about[p] = s)
  BY <1>1 DEF Shape, RequestOK
<1> QED BY <1>2, <1>3

\* Commands that are added make no deletion undone.
LEMMA GrowsDeletions ==
  ASSUME Shape, Deletions, NEW p \in Handlers, Grows(p)
  PROVE  Deletions'
<1> SUFFICES ASSUME NEW i \in DOMAIN pipeline', NEW s \in Sessions, i <= executed',
                    pipeline'[i].cmd = "del", pipeline'[i].id = s
             PROVE  redis'[s] = Absent \/ \E j \in DOMAIN pipeline' :
                                            i < j /\ Writes(pipeline'[j], s)
  BY DEF Deletions, Writes
<1>1. i \in DOMAIN pipeline
  <2>1. SUFFICES ASSUME i \notin DOMAIN pipeline PROVE FALSE OBVIOUS
  <2>2. i \in Nat /\ executed < i /\ executed' = executed BY <2>1 DEF Grows
  <2> QED BY <2>2, PipelineType
<1>2. /\ pipeline'[i] = pipeline[i] /\ i <= executed /\ redis' = redis
      /\ \A j \in DOMAIN pipeline : j \in DOMAIN pipeline' /\ pipeline'[j] = pipeline[j]
  BY <1>1 DEF Grows
<1> QED BY <1>1, <1>2 DEF Deletions

\* Nor do steps that add none.
LEMMA DwindlesDeletions ==
  ASSUME Shape, Deletions, Dwindles
  PROVE  Deletions'
<1> SUFFICES ASSUME NEW i \in DOMAIN pipeline', NEW s \in Sessions, i <= executed',
                    pipeline'[i].cmd = "del", pipeline'[i].id = s
             PROVE  redis'[s] = Absent \/ \E j \in DOMAIN pipeline' :
                                            i < j /\ Writes(pipeline'[j], s)
  BY DEF Deletions, Writes
<1>1. /\ DOMAIN pipeline' = DOMAIN pipeline
      /\ \A j \in DOMAIN pipeline' : pipeline'[j] = pipeline[j]
      /\ redis'[s] \in {redis[s], Absent}
  BY DEF Dwindles
<1>2. i <= executed BY <1>1, PipelineType DEF Dwindles
<1> QED BY <1>1, <1>2 DEF Deletions

\* Redis executes a deletion, or a write that is issued after those it has executed.
LEMMA ExecuteDeletions ==
  ASSUME Shape, Deletions, Execute
  PROVE  Deletions'
<1>1. PICK k \in DOMAIN pipeline, c \in Command, d \in Command :
        /\ k = executed + 1 /\ executed' = k /\ c = pipeline[k] /\ CommandOK(c)
        /\ DOMAIN pipeline' = DOMAIN pipeline
        /\ \A i \in DOMAIN pipeline \ {k} : pipeline'[i] = pipeline[i]
        /\ pipeline'[k] = d
        /\ d.by = c.by /\ d.cmd = c.cmd /\ d.id = c.id /\ d.value = c.value
        /\ c.cmd = "setex" => redis' = [redis EXCEPT ![c.id] = c.value]
        /\ c.cmd = "del" => redis' = [redis EXCEPT ![c.id] = Absent]
        /\ c.cmd \in {"get", "keys"} => redis' = redis
  BY Execution
<1>2. \A i \in DOMAIN pipeline :
        pipeline'[i].cmd = pipeline[i].cmd /\ pipeline'[i].id = pipeline[i].id
  BY <1>1
<1> SUFFICES ASSUME NEW i \in DOMAIN pipeline, NEW s \in Sessions, i <= executed',
                    pipeline[i].cmd = "del", pipeline[i].id = s
             PROVE  redis'[s] = Absent \/ \E j \in DOMAIN pipeline :
                                            i < j /\ Writes(pipeline[j], s)
  BY <1>1, <1>2 DEF Deletions, Writes
<1>3. redis[s] = Absent => Writes(c, s) \/ redis'[s] = Absent
  BY <1>1, CommandParts DEF Writes, Shape, TypeOK
<1>4. i \in Nat /\ executed \in Nat /\ (i = k \/ i <= executed)
  BY <1>1, PipelineType
<1>5. CASE i = k BY <1>1, <1>5 DEF Shape, TypeOK
<1>6. CASE i # k /\ i <= executed
  <2>1. i < k BY <1>1, <1>4, <1>6
  <2> QED BY <1>1, <1>3, <1>6, <2>1 DEF Deletions
<1> QED BY <1>4, <1>5, <1>6

\* A write that came after a deletion is answered after it.
LEMMA AcknowledgeDeletions ==
  ASSUME Shape, Deletions, Acknowledge
  PROVE  Deletions'
<1> SUFFICES ASSUME NEW i \in DOMAIN pipeline', NEW s \in Sessions, i <= executed',
                    pipeline'[i].cmd = "del", pipeline'[i].id = s
             PROVE  redis'[s] = Absent \/ \E j \in DOMAIN pipeline' :
                                            i < j /\ Writes(pipeline'[j], s)
  BY DEF Deletions, Writes
<1>1. /\ i + 1 \in DOMAIN pipeline /\ pipeline'[i] = pipeline[i + 1]
      /\ executed' = executed - 1
      /\ \A j \in DOMAIN pipeline \ {1} :
           j - 1 \in DOMAIN pipeline' /\ pipeline'[j - 1] = pipeline[j]
  BY Acknowledged
<1>2. i \in Nat /\ i >= 1
  <2>1. PICK new \in Seq(Command) : new = pipeline' BY Acknowledged
  <2>2. DOMAIN new = 1..Len(new) /\ Len(new) \in Nat OBVIOUS
  <2> QED BY <2>1, <2>2
<1>3. i + 1 <= executed BY <1>1, <1>2, PipelineType
<1>4. redis[s] = Absent \/ \E j \in DOMAIN pipeline : i + 1 < j /\ Writes(pipeline[j], s)
  BY <1>1, <1>3 DEF Deletions
<1>5. ASSUME NEW j \in DOMAIN pipeline, i + 1 < j, Writes(pipeline[j], s)
      PROVE  \E m \in DOMAIN pipeline' : i < m /\ Writes(pipeline'[m], s)
  <2>1. j \in Nat /\ j # 1 BY <1>2, <1>5, PipelineType
  <2>2. i < j - 1 BY <1>2, <1>5, <2>1
  <2> QED BY <1>1, <1>5, <2>1, <2>2
<1>6. redis' = redis BY DEF Acknowledge, store
<1> QED BY <1>4, <1>5, <1>6

\* A call that sets a session makes it one that has not ended; the others write nothing yet.
LEMMA CallsEnded ==
  ASSUME Shape, EndedGone, NEW p \in Handlers,
         SetUserSession(p) \/ DeleteUserSession(p) \/ UpdateUserActivityTime(p)
           \/ GetActiveSessions(p)
  PROVE  EndedGone'
<1>1. PICK o \in {"set", "delete", "update", "list"}, t \in Sessions \cup {Absent}, c \in Command :
        /\ Fits(p, o, t, c) /\ Call(p, o, t, c) /\ Minded(c)
        /\ ended' = IF o = "set" THEN [ended EXCEPT ![t] = FALSE] ELSE ended
  BY Calls
<1>2. /\ pc[p] = "idle" /\ Issue(<<c>>)
      /\ op' = [op EXCEPT ![p] = o] /\ about' = [about EXCEPT ![p] = t]
      /\ UNCHANGED <<redis, found>>
  BY <1>1 DEF Call, store
<1>3. <<c>> \in Seq(Command) /\ \A k \in DOMAIN <<c>> : <<c>>[k] = c OBVIOUS
<1>4. /\ \A i \in DOMAIN pipeline : pipeline'[i] = pipeline[i] /\ pipeline[i].by # p
      /\ \A i \in DOMAIN pipeline' \ DOMAIN pipeline : pipeline'[i] = c
  BY <1>2, <1>3, Issued, NoCommand
<1>5. \A q \in Handlers \ {p} : op'[q] = op[q] /\ about'[q] = about[q]
  BY <1>2 DEF Shape, TypeOK
<1>6. found[p] = {} BY <1>2 DEF Shape, RequestOK
<1>7. ASSUME NEW s \in Sessions, ended'[s] PROVE NowhereLeft(s)'
  <2>1. NowhereLeft(s) /\ ~Writes(c, s)
    <3>1. ended[s] /\ ~(o = "set" /\ s = t) BY <1>1, <1>7 DEF Shape, TypeOK
    <3> QED BY <1>1, <3>1 DEF EndedGone, Fits, Writes
  <2>2. ASSUME NEW i \in DOMAIN pipeline', NEW d, d = pipeline'[i]
        PROVE  /\ ~Writes(d, s)
               /\ d.cmd = "get" /\ d.id = s /\ op'[d.by] = "update" => d.reply = {}
    <3>1. CASE i \in DOMAIN pipeline
      <4>1. d = pipeline[i] /\ d.by \in Handlers \ {p}
        BY <1>4, <2>2, <3>1, PipelineType, CommandParts
      <4> QED BY <1>5, <2>1, <3>1, <4>1 DEF NowhereLeft
    <3>2. CASE i \notin DOMAIN pipeline BY <1>1, <1>4, <2>1, <2>2, <3>2 DEF Fits
    <3> QED BY <3>1, <3>2
  <2>3. \A q \in Handlers : op'[q] = "update" /\ about'[q] = s => found'[q] = {}
    BY <1>2, <1>5, <1>6, <2>1 DEF NowhereLeft
  <2> QED BY <1>2, <2>1, <2>2, <2>3 DEF NowhereLeft, Writes
<1> QED BY <1>7 DEF EndedGone

\* An updater that has found its session knows that it has not ended.
LEMMA WriteBackEnded ==
  ASSUME Shape, EndedGone, NEW p \in Handlers, WriteBack(p)
  PROVE  EndedGone'
<1>1. PICK c \in Command :
        /\ c.by = p /\ c.cmd = "setex" /\ c.id = about[p] /\ Issue(<<c>>)
        /\ op[p] = "update" /\ about[p] \in Sessions /\ found[p] # {}
  BY WritesBack
<1>2. /\ found' = [found EXCEPT ![p] = {}] /\ UNCHANGED <<redis, op, about, ended>>
  BY DEF WriteBack, store, sessionHistory
<1>3. <<c>> \in Seq(Command) /\ \A k \in DOMAIN <<c>> : <<c>>[k] = c OBVIOUS
<1>4. /\ \A i \in DOMAIN pipeline : pipeline'[i] = pipeline[i]
      /\ \A i \in DOMAIN pipeline' \ DOMAIN pipeline : pipeline'[i] = c
  BY <1>1, <1>3, Issued
<1>5. ASSUME NEW s \in Sessions, ended[s] PROVE NowhereLeft(s)'
  <2>1. NowhereLeft(s) /\ about[p] # s BY <1>1, <1>5 DEF EndedGone, NowhereLeft
  <2>2. ASSUME NEW i \in DOMAIN pipeline', NEW d, d = pipeline'[i]
        PROVE  /\ ~Writes(d, s)
               /\ d.cmd = "get" /\ d.id = s /\ op[d.by] = "update" => d.reply = {}
    <3>1. CASE i \in DOMAIN pipeline BY <1>4, <2>1, <2>2, <3>1 DEF NowhereLeft
    <3>2. CASE i \notin DOMAIN pipeline BY <1>1, <1>4, <2>1, <2>2, <3>2 DEF Writes
    <3> QED BY <3>1, <3>2
  <2>3. \A q \in Handlers : op[q] = "update" /\ about[q] = s => found'[q] = {}
    BY <1>2, <2>1 DEF NowhereLeft, Shape, TypeOK
  <2> QED BY <1>2, <2>1, <2>2, <2>3 DEF NowhereLeft, Writes
<1> QED BY <1>2, <1>5 DEF EndedGone

\* A listing only reads.
LEMMA NextBatchEnded ==
  ASSUME Shape, EndedGone, NEW p \in Handlers, NextBatch(p)
  PROVE  EndedGone'
<1> PICK commands \in Seq(Command), batch \in SUBSET Sessions : Asks(p, commands, batch)
  BY NextBatchAsks
<1>1. /\ op[p] = "list" /\ Issue(commands)
      /\ \A k \in DOMAIN commands : \E s \in batch : commands[k] = Get(p, s)
  BY DEF Asks
<1>2. UNCHANGED <<redis, op, about, found, ended>>
  BY DEF NextBatch, store, sessionHistory
<1>3. /\ \A i \in DOMAIN pipeline : pipeline'[i] = pipeline[i]
      /\ \A i \in DOMAIN pipeline' \ DOMAIN pipeline : \E s \in batch : pipeline'[i] = Get(p, s)
  BY <1>1, Issued
<1>4. ASSUME NEW s \in Sessions, ended[s] PROVE NowhereLeft(s)'
  <2>1. NowhereLeft(s) BY <1>4 DEF EndedGone
  <2>2. ASSUME NEW i \in DOMAIN pipeline', NEW d, d = pipeline'[i]
        PROVE  /\ ~Writes(d, s)
               /\ d.cmd = "get" /\ d.id = s /\ op[d.by] = "update" => d.reply = {}
    <3>1. CASE i \in DOMAIN pipeline BY <1>3, <2>1, <2>2, <3>1 DEF NowhereLeft
    <3>2. CASE i \notin DOMAIN pipeline
      <4>1. d.by = p /\ d.cmd = "get" BY <1>3, <2>2, <3>2 DEF Get
      <4> QED BY <1>1, <4>1 DEF Writes
    <3> QED BY <3>1, <3>2
  <2> QED BY <1>2, <2>1, <2>2 DEF NowhereLeft, Writes
<1> QED BY <1>2, <1>4 DEF EndedGone

\* A request that is answered holds nothing.
LEMMA FinishEnded ==
  ASSUME Shape, EndedGone, NEW p \in Handlers, Finish(p)
  PROVE  EndedGone'
<1>1. /\ op' = [op EXCEPT ![p] = "none"] /\ about' = [about EXCEPT ![p] = Absent]
      /\ found' = [found EXCEPT ![p] = {}]
      /\ UNCHANGED <<redis, pipeline, ended>>
      /\ Pending(p) = {}
  BY DoneIsAnswered DEF Finish, store, client
<1>2. /\ op'[p] = "none"
      /\ \A q \in Handlers \ {p} : op'[q] = op[q] /\ about'[q] = about[q] /\ found'[q] = found[q]
  BY <1>1 DEF Shape, TypeOK
<1>3. \A i \in DOMAIN pipeline : op'[pipeline[i].by] = op[pipeline[i].by]
  BY <1>1, <1>2, NoCommand, PipelineType, CommandParts
<1>4. ASSUME NEW s \in Sessions, ended[s] PROVE NowhereLeft(s)'
  <2>1. NowhereLeft(s) BY <1>4 DEF EndedGone
  <2>2. \A q \in Handlers : op'[q] = "update" /\ about'[q] = s => found'[q] = {}
    BY <1>2, <2>1 DEF NowhereLeft
  <2> QED BY <1>1, <1>3, <2>1, <2>2 DEF NowhereLeft, Writes
<1> QED BY <1>1, <1>4 DEF EndedGone

\* Of a session that is stored nowhere, Redis finds nothing.
LEMMA ExecuteEnded ==
  ASSUME Shape, EndedGone, Execute
  PROVE  EndedGone'
<1>1. PICK k \in DOMAIN pipeline, c \in Command, d \in Command :
        /\ k = executed + 1 /\ executed' = k /\ c = pipeline[k] /\ CommandOK(c)
        /\ DOMAIN pipeline' = DOMAIN pipeline
        /\ \A i \in DOMAIN pipeline \ {k} : pipeline'[i] = pipeline[i]
        /\ pipeline'[k] = d
        /\ d.by = c.by /\ d.cmd = c.cmd /\ d.id = c.id /\ d.value = c.value
        /\ c.cmd = "get" => d.reply = {redis[c.id]} \ {Absent}
        /\ c.cmd = "setex" => redis' = [redis EXCEPT ![c.id] = c.value]
        /\ c.cmd = "del" => redis' = [redis EXCEPT ![c.id] = Absent]
        /\ c.cmd \in {"get", "keys"} => redis' = redis
  BY Execution
<1>2. UNCHANGED <<op, about, found, ended>> BY DEF Execute, request, sessionHistory
<1>3. ASSUME NEW s \in Sessions, ended[s] PROVE NowhereLeft(s)'
  <2>1. NowhereLeft(s) BY <1>3 DEF EndedGone
  <2>2. redis'[s] = Absent
    BY <1>1, <2>1, CommandParts DEF NowhereLeft, Writes, Shape, TypeOK
  <2>3. ASSUME NEW i \in DOMAIN pipeline, NEW e, e = pipeline'[i]
        PROVE  /\ ~Writes(e, s)
               /\ e.cmd = "get" /\ e.id = s /\ op[e.by] = "update" => e.reply = {}
    <3>1. CASE i # k
      <4>1. e = pipeline[i] BY <1>1, <2>3, <3>1
      <4> QED BY <2>1, <4>1 DEF NowhereLeft
    <3>2. CASE i = k
      <4>1. e = d BY <1>1, <2>3, <3>2
      <4>2. ~Writes(c, s) BY <1>1, <2>1 DEF NowhereLeft
      <4>3. c.cmd = "get" /\ c.id = s => d.reply = {} BY <1>1, <2>1 DEF NowhereLeft
      <4> QED BY <1>1, <4>1, <4>2, <4>3 DEF Writes
    <3> QED BY <3>1, <3>2
  <2> QED BY <1>1, <1>2, <2>1, <2>2, <2>3 DEF NowhereLeft, Writes
<1> QED BY <1>2, <1>3 DEF EndedGone

\* A session ends with a deletion when nobody is writing it: then no write of it is left.
LEMMA AcknowledgeEnded ==
  ASSUME Shape, Deletions, EndedGone, Acknowledge
  PROVE  EndedGone'
<1>1. PICK c \in Command :
        /\ c = pipeline[1] /\ CommandOK(c)
        /\ found' = IF c.cmd = "get" THEN [found EXCEPT ![c.by] = @ \cup c.reply] ELSE found
        /\ ended' = IF c.cmd = "del" /\ Writers(c.id) = {} THEN [ended EXCEPT ![c.id] = TRUE]
                                                          ELSE ended
  BY Acknowledgement
<1>2. /\ 1 \in DOMAIN pipeline /\ 1 <= executed
      /\ \A i \in DOMAIN pipeline' :
           i + 1 \in DOMAIN pipeline /\ pipeline'[i] = pipeline[i + 1]
  BY Acknowledged
<1>3. UNCHANGED <<redis, op, about>> BY DEF Acknowledge, store
<1>4. ASSUME NEW s \in Sessions, ended'[s] PROVE NowhereLeft(s)'
  <2>1. NowhereLeft(s)
    <3>1. CASE ended[s] BY <3>1 DEF EndedGone
    <3>2. CASE ~ended[s]
      <4>1. c.cmd = "del" /\ c.id = s /\ Writers(s) = {}
        BY <1>1, <1>4, <3>2 DEF Shape, TypeOK
      <4>2. redis[s] = Absent \/ \E j \in DOMAIN pipeline : Writes(pipeline[j], s)
        BY <1>1, <1>2, <4>1 DEF Deletions
      <4> QED BY <4>1, <4>2, NoWriters DEF NowhereLeft
    <3> QED BY <3>1, <3>2
  <2>2. ASSUME NEW q \in Handlers, op[q] = "update", about[q] = s PROVE found'[q] = {}
    <3>1. found[q] = {} BY <2>1, <2>2 DEF NowhereLeft
    <3>2. CASE c.cmd = "get" /\ q = c.by
      <4>1. c.id = s BY <1>1, <2>2, <3>2 DEF CommandOK
      <4>2. c.reply = {} BY <1>1, <1>2, <2>1, <2>2, <3>2, <4>1 DEF NowhereLeft
      <4> QED BY <1>1, <3>1, <3>2, <4>2 DEF Shape, TypeOK
    <3>3. CASE ~(c.cmd = "get" /\ q = c.by) BY <1>1, <3>1, <3>3 DEF Shape, TypeOK
    <3> QED BY <3>2, <3>3
  <2>3. ASSUME NEW i \in DOMAIN pipeline', NEW e, e = pipeline'[i]
        PROVE  /\ ~Writes(e, s)
               /\ e.cmd = "get" /\ e.id = s /\ op[e.by] = "update" => e.reply = {}
    BY <1>2, <2>1, <2>3 DEF NowhereLeft
  <2> QED BY <1>3, <2>1, <2>2, <2>3 DEF NowhereLeft, Writes
<1> QED BY <1>4 DEF EndedGone

\* Broken connections and restarts only lose what was under way.
LEMMA BrokenEnded ==
  ASSUME Shape, EndedGone, Resend \/ GiveUp \/ Restart
  PROVE  EndedGone'
<1>1. UNCHANGED <<redis, ended>>
      /\ \A i \in DOMAIN pipeline' : i \in DOMAIN pipeline /\ pipeline'[i] = pipeline[i]
  <2>1. Dwindles BY OthersDwindle
  <2> QED BY <2>1 DEF Dwindles, Resend, GiveUp, Restart, store, sessionHistory
<1>2. \/ UNCHANGED <<op, about, found>>
      \/ /\ DOMAIN pipeline' = {}
         /\ \A q \in Handlers : op'[q] = "none" /\ found'[q] = {}
  BY DEF Resend, GiveUp, Restart, request
<1>3. ASSUME NEW s \in Sessions, ended[s] PROVE NowhereLeft(s)'
  <2>1. NowhereLeft(s) BY <1>3 DEF EndedGone
  <2> QED BY <1>1, <1>2, <2>1 DEF NowhereLeft, Writes
<1> QED BY <1>1, <1>3 DEF EndedGone

\* A session ends by expiring when nobody is writing it.
LEMMA TickEnded ==
  ASSUME Shape, EndedGone, Tick
  PROVE  EndedGone'
<1>1. UNCHANGED <<pipeline, op, about, found>> BY Ticked
<1>2. ASSUME NEW s \in Sessions, ended'[s] PROVE NowhereLeft(s)'
  <2>1. redis'[s] = Absent /\ (ended[s] \/ Writers(s) = {})
    <3>1. CASE redis'[s] = redis[s] /\ ended'[s] = ended[s]
      BY <1>2, <3>1 DEF EndedGone, NowhereLeft
    <3>2. CASE redis'[s] = Absent /\ ended'[s] = (ended[s] \/ Writers(s) = {})
      BY <1>2, <3>2
    <3> QED BY <3>1, <3>2, Ticked
  <2>2. CASE ended[s] BY <1>1, <2>1, <2>2 DEF EndedGone, NowhereLeft, Writes
  <2>3. CASE Writers(s) = {} BY <1>1, <2>1, <2>3, NoWriters DEF NowhereLeft, Writes
  <2> QED BY <2>1, <2>2, <2>3
<1> QED BY <1>2 DEF EndedGone

-----------------------------------------------------------------------------
(* Lifetimes *)

\* A step that stores nothing, and after which a session without a writer had none before.
LEMMA ExpiriesStay ==
  ASSUME Expiries, UNCHANGED <<redis, expiry, now, touched>>,
         \A p \in Handlers : pc[p] # "idle" /\ op[p] \in {"set", "update"} =>
           pc'[p] # "idle" /\ op'[p] = op[p] /\ about'[p] = about[p]
  PROVE  Expiries'
<1>1. ASSUME NEW s \in Sessions, Writers(s)' = {} PROVE Writers(s) = {}
  BY <1>1 DEF Writers
<1> QED BY <1>1 DEF Expiries

\* A request that goes on, or begins, leaves the writers there are.
LEMMA StepsExpiries ==
  ASSUME Shape, Expiries, NEW p \in Handlers,
         \/ SetUserSession(p) \/ DeleteUserSession(p) \/ UpdateUserActivityTime(p)
              \/ GetActiveSessions(p)
         \/ WriteBack(p) \/ NextBatch(p)
  PROVE  Expiries'
<1>1. CASE SetUserSession(p) \/ DeleteUserSession(p) \/ UpdateUserActivityTime(p)
              \/ GetActiveSessions(p)
  <2>1. PICK o, s, c : Call(p, o, s, c) BY <1>1, Calls
  <2>2. /\ UNCHANGED <<redis, expiry, now, touched>> /\ pc[p] = "idle"
        /\ \A q \in Handlers \ {p} : pc'[q] = pc[q] /\ op'[q] = op[q] /\ about'[q] = about[q]
    BY <2>1 DEF Call, store, Shape, TypeOK
  <2> QED BY <2>2, ExpiriesStay
<1>2. CASE WriteBack(p)
  <2>1. UNCHANGED <<redis, expiry, now, touched, op, about>> /\ pc' = [pc EXCEPT ![p] = "store"]
    BY <1>2 DEF WriteBack, store, sessionHistory
  <2>2. \A q \in Handlers : pc[q] # "idle" => pc'[q] # "idle" BY <2>1 DEF Shape, TypeOK
  <2> QED BY <2>1, <2>2, ExpiriesStay
<1>3. CASE NextBatch(p)
  <2>1. UNCHANGED <<redis, expiry, now, touched, pc, op, about>>
    BY <1>3 DEF NextBatch, store, sessionHistory
  <2> QED BY <2>1, ExpiriesStay
<1> QED BY <1>1, <1>2, <1>3

\* When a writer is answered, its session has no more than a lifetime left.
LEMMA FinishExpiries ==
  ASSUME Shape, Expiries, NEW p \in Handlers, Finish(p)
  PROVE  Expiries'
<1>1. /\ UNCHANGED <<redis, expiry, now>>
      /\ touched' = IF op[p] \in {"set", "update"} THEN [touched EXCEPT ![about[p]] = now]
                                                  ELSE touched
      /\ \A q \in Handlers \ {p} : pc'[q] = pc[q] /\ op'[q] = op[q] /\ about'[q] = about[q]
  BY DEF Finish, store, Shape, TypeOK
<1>2. ASSUME NEW s \in Sessions, Writers(s)' = {}, redis[s] # Absent
      PROVE  expiry[s] <= touched'[s] + Lifetime
  <2>1. expiry[s] <= now + Lifetime /\ (Writers(s) = {} => expiry[s] <= touched[s] + Lifetime)
    BY <1>2 DEF Expiries
  <2>2. CASE op[p] \in {"set", "update"} /\ about[p] = s
    <3>1. touched'[s] = now BY <1>1, <2>2 DEF Shape, TypeOK
    <3> QED BY <2>1, <3>1
  <2>3. CASE ~(op[p] \in {"set", "update"} /\ about[p] = s)
    <3>1. touched'[s] = touched[s] BY <1>1, <2>3 DEF Shape, TypeOK
    <3>2. Writers(s) = {} BY <1>1, <1>2, <2>3 DEF Writers
    <3> QED BY <2>1, <3>1, <3>2
  <2> QED BY <2>2, <2>3
<1> QED BY <1>1, <1>2 DEF Expiries

\* A session is stored for a lifetime, by a writer that waits for the answer.
LEMMA ExecuteExpiries ==
  ASSUME Shape, Expiries, Execute
  PROVE  Expiries'
<1>1. PICK c \in Command :
        /\ CommandOK(c)
        /\ c.cmd = "setex" => /\ redis' = [redis EXCEPT ![c.id] = c.value]
                              /\ expiry' = [expiry EXCEPT ![c.id] = now + Lifetime]
        /\ c.cmd = "del" => /\ redis' = [redis EXCEPT ![c.id] = Absent]
                            /\ expiry' = [expiry EXCEPT ![c.id] = 0]
        /\ c.cmd \in {"get", "keys"} => redis' = redis /\ expiry' = expiry
  BY Execution
<1>2. UNCHANGED <<now, pc, op, about, touched>> BY DEF Execute, request, sessionHistory
<1>3. ASSUME NEW s \in Sessions, redis'[s] # Absent
      PROVE  /\ now < expiry'[s] /\ expiry'[s] <= now + Lifetime
             /\ Writers(s) = {} => expiry'[s] <= touched[s] + Lifetime
  <2>1. CASE Writes(c, s)
    <3>1. expiry'[s] = now + Lifetime BY <1>1, <2>1 DEF Writes, Shape, TypeOK
    <3>2. c.by \in Writers(s) BY <1>1, <2>1, CommandParts DEF CommandOK, Writes, Writers
    <3>3. now \in Int /\ Lifetime \in Nat /\ Lifetime > 0
      BY CacheAssumption DEF Shape, TypeOK
    <3> QED BY <3>1, <3>2, <3>3
  <2>2. CASE ~Writes(c, s)
    <3>1. redis'[s] = redis[s] /\ expiry'[s] = expiry[s]
      BY <1>1, <1>3, <2>2, CommandParts DEF Writes, Shape, TypeOK
    <3> QED BY <1>3, <3>1 DEF Expiries
  <2> QED BY <2>1, <2>2
<1>4. \A s \in Sessions : Writers(s)' = Writers(s) BY <1>2 DEF Writers
<1> QED BY <1>2, <1>3, <1>4 DEF Expiries

\* Replies and broken connections store nothing.
LEMMA RepliesExpiries ==
  ASSUME Shape, Expiries, Acknowledge \/ Resend \/ GiveUp \/ UNCHANGED vars
  PROVE  Expiries'
<1>1. UNCHANGED <<redis, expiry, now, touched, pc, op, about>>
  BY DEF Acknowledge, Resend, GiveUp, vars, store, request, sessionHistory
<1> QED BY <1>1, ExpiriesStay

\* A restart takes the writers away at the latest moment at which they wrote.
LEMMA RestartExpiries ==
  ASSUME Shape, Expiries, Restart
  PROVE  Expiries'
<1>1. UNCHANGED <<redis, expiry, now>> BY DEF Restart, store
<1>2. ASSUME NEW s \in Sessions, redis[s] # Absent
      PROVE  expiry[s] <= touched'[s] + Lifetime
  <2>1. expiry[s] <= now + Lifetime /\ (Writers(s) = {} => expiry[s] <= touched[s] + Lifetime)
    BY <1>2 DEF Expiries
  <2>2. touched'[s] = IF Writers(s) # {} THEN now ELSE touched[s] BY DEF Restart
  <2> QED BY <2>1, <2>2
<1> QED BY <1>1, <1>2 DEF Expiries

\* What a tick leaves has not expired.
LEMMA TickExpiries ==
  ASSUME Shape, Expiries, Tick
  PROVE  Expiries'
<1>1. now' = now + 1 /\ UNCHANGED <<pc, op, about, touched>> /\ now \in Int
  BY Ticked DEF Shape, TypeOK
<1>2. ASSUME NEW s \in Sessions, redis'[s] # Absent
      PROVE  /\ now' < expiry'[s] /\ expiry'[s] <= now' + Lifetime
             /\ Writers(s) = {} => expiry'[s] <= touched[s] + Lifetime
  <2>1. redis'[s] = redis[s] /\ expiry'[s] = expiry[s] /\ expiry[s] > now + 1
    BY <1>2, Ticked
  <2>2. expiry[s] <= now + Lifetime /\ (Writers(s) = {} => expiry[s] <= touched[s] + Lifetime)
    BY <1>2, <2>1 DEF Expiries
  <2>3. expiry[s] \in Int /\ Lifetime \in Int BY CacheAssumption DEF Shape, TypeOK
  <2> QED BY <1>1, <2>1, <2>2, <2>3
<1>3. \A s \in Sessions : Writers(s)' = Writers(s) BY <1>1 DEF Writers
<1> QED BY <1>1, <1>2, <1>3 DEF Expiries

-----------------------------------------------------------------------------
(* Listings *)

\* Actives of a larger set, of nothing, and of what is stored.
LEMMA ActiveInFacts ==
  /\ ActiveIn({}) = {}
  /\ \A a, b : ActiveIn(a \cup b) = ActiveIn(a) \cup ActiveIn(b)
BY DEF ActiveIn

\* A listing in whose hands nothing changes, while others issue commands.
LEMMA GrowsFair ==
  ASSUME Shape, NEW p \in Handlers, Grows(p), NEW q \in Handlers \ {p}, Fair(q),
         found'[q] = found[q], todo'[q] = todo[q], ever'[q] = ever[q], always'[q] = always[q]
  PROVE  Fair(q)'
<1>1. /\ UNCHANGED <<redis, executed>>
      /\ \A i \in DOMAIN pipeline : i \in DOMAIN pipeline' /\ pipeline'[i] = pipeline[i]
      /\ \A i \in DOMAIN pipeline' \ DOMAIN pipeline : pipeline'[i].by # q
  BY DEF Grows
<1>2. ASSUME NEW i \in DOMAIN pipeline', NEW c, c = pipeline'[i], c.by = q
      PROVE  i \in DOMAIN pipeline /\ c = pipeline[i]
  BY <1>1, <1>2
<1>3. ASSUME NEW i \in DOMAIN pipeline', NEW c, c = pipeline'[i], c.by = q
      PROVE  /\ c.cmd = "get" => ActiveIn(c.reply) \subseteq ever[q]
             /\ i <= executed /\ c.cmd = "get" /\ c.id \in always[q] => c.id \in ActiveIn(c.reply)
             /\ i <= executed /\ c.cmd = "keys" => always[q] \subseteq c.reply
  BY <1>2, <1>3 DEF Fair
<1>4. ASSUME NEW s \in always[q]
      PROVE  \/ s \in ActiveIn(found[q]) \/ s \in todo[q]
             \/ \E i \in DOMAIN pipeline' :
                  /\ pipeline'[i].by = q
                  /\ pipeline'[i].cmd = "get" => pipeline'[i].id = s
                  /\ pipeline'[i].cmd \in {"get", "keys"}
  BY <1>1 DEF Fair
<1> QED BY <1>1, <1>3, <1>4 DEF Fair, Actives, ActiveIn

\* A call of getActiveSessions starts with what is stored, and asks for the keys.
LEMMA ListFair ==
  ASSUME Shape, NEW p \in Handlers, NEW c \in Command, Fits(p, "list", Absent, c),
         Call(p, "list", Absent, c), Minded(c),
         ever' = [ever EXCEPT ![p] = Actives(redis)],
         always' = [always EXCEPT ![p] = Actives(redis)]
  PROVE  Fair(p)'
<1>1. Grows(p) BY CallGrows
<1>2. /\ UNCHANGED <<redis, executed, found>> /\ pc[p] = "idle" /\ Issue(<<c>>)
  BY DEF Call, store, Issue
<1>3. found'[p] = {} /\ ever'[p] = Actives(redis) /\ always'[p] = Actives(redis)
  BY <1>2 DEF Shape, TypeOK, RequestOK
<1>4. <<c>> \in Seq(Command) /\ DOMAIN <<c>> = {1} /\ <<c>>[1] = c OBVIOUS
<1>5. /\ \A i \in DOMAIN pipeline' \ DOMAIN pipeline : pipeline'[i] = c
      /\ \E i \in DOMAIN pipeline' : pipeline'[i] = c
  <2>1. /\ \A k \in DOMAIN <<c>> : <<c>>[k] = c
        /\ 1 \in DOMAIN <<c>>
    BY <1>4
  <2>2. PICK commands \in Seq(Command) :
          Issue(commands) /\ (\A k \in DOMAIN commands : commands[k] = c) /\ 1 \in DOMAIN commands
    BY <1>2, <1>4, <2>1
  <2> QED BY <2>2, Issued
<1>6. c.cmd = "keys" /\ c.by = p BY DEF Fits
<1>7. ASSUME NEW i \in DOMAIN pipeline', pipeline'[i].by = p
      PROVE  pipeline'[i] = c /\ ~(i <= executed)
  <2>1. i \notin DOMAIN pipeline BY <1>1, <1>7 DEF Grows
  <2>2. i \in Nat /\ executed < i BY <1>1, <2>1 DEF Grows
  <2> QED BY <1>5, <2>1, <2>2, PipelineType
<1> QED BY <1>2, <1>3, <1>5, <1>6, <1>7, ActiveInFacts DEF Fair, Actives, ActiveIn

\* The four operations.
LEMMA CallsListings ==
  ASSUME Shape, Listings, NEW p \in Handlers,
         SetUserSession(p) \/ DeleteUserSession(p) \/ UpdateUserActivityTime(p)
           \/ GetActiveSessions(p)
  PROVE  Listings'
<1>1. PICK o \in {"set", "delete", "update", "list"}, s \in Sessions \cup {Absent}, c \in Command :
        /\ Fits(p, o, s, c) /\ Call(p, o, s, c) /\ Minded(c)
        /\ ever' = IF o = "list" THEN [ever EXCEPT ![p] = Actives(redis)] ELSE ever
        /\ always' = IF o = "list" THEN [always EXCEPT ![p] = Actives(redis)] ELSE always
  BY Calls
<1>2. op' = [op EXCEPT ![p] = o] /\ UNCHANGED <<found, todo>> BY <1>1 DEF Call
<1>3. ASSUME NEW q \in Handlers, op'[q] = "list" PROVE Fair(q)'
  <2>1. CASE q = p
    <3>1. o = "list" BY <1>2, <1>3, <2>1 DEF Shape, TypeOK
    <3>2. s = Absent BY <1>1, <3>1 DEF Fits
    <3> QED BY <1>1, <2>1, <3>1, <3>2, ListFair
  <2>2. CASE q # p
    <3>1. Grows(p) BY <1>1, CallGrows
    <3>2. Fair(q) BY <1>2, <1>3, <2>2 DEF Listings, Shape, TypeOK
    <3>3. ever'[q] = ever[q] /\ always'[q] = always[q] BY <1>1, <2>2 DEF Shape, TypeOK
    <3> QED BY <1>2, <2>2, <3>1, <3>2, <3>3, GrowsFair
  <2> QED BY <2>1, <2>2
<1> QED BY <1>3 DEF Listings

\* An updater is no listing.
LEMMA WriteBackListings ==
  ASSUME Shape, Listings, NEW p \in Handlers, WriteBack(p)
  PROVE  Listings'
<1>1. Grows(p) /\ op[p] = "update" BY WriteBackGrows DEF WriteBack
<1>2. found' = [found EXCEPT ![p] = {}] /\ UNCHANGED <<op, todo, ever, always>>
  BY DEF WriteBack, listHistory
<1>3. ASSUME NEW q \in Handlers, op[q] = "list" PROVE Fair(q)'
  <2>1. q # p /\ Fair(q) BY <1>1, <1>3 DEF Listings
  <2>2. found'[q] = found[q] BY <1>2, <2>1 DEF Shape, TypeOK
  <2> QED BY <1>1, <1>2, <2>1, <2>2, GrowsFair
<1> QED BY <1>2, <1>3 DEF Listings

\* The sessions of a batch are asked for; the others are still to do.
LEMMA NextBatchListings ==
  ASSUME Shape, Listings, NEW p \in Handlers, NextBatch(p)
  PROVE  Listings'
<1> PICK commands \in Seq(Command), batch \in SUBSET Sessions : Asks(p, commands, batch)
  BY NextBatchAsks
<1>1. /\ op[p] = "list" /\ Pending(p) = {} /\ Issue(commands)
      /\ todo' = [todo EXCEPT ![p] = @ \ batch]
      /\ \A k \in DOMAIN commands : \E s \in batch : commands[k] = Get(p, s)
      /\ \A s \in batch : \E k \in DOMAIN commands : commands[k] = Get(p, s)
  BY DEF Asks
<1>2. UNCHANGED <<op, found, ever, always>> BY DEF NextBatch, listHistory
<1>3. Grows(p) BY NextBatchGrows
<1>4. /\ \A i \in DOMAIN pipeline' \ DOMAIN pipeline : \E s \in batch : pipeline'[i] = Get(p, s)
      /\ \A s \in batch : \E i \in DOMAIN pipeline' : pipeline'[i] = Get(p, s)
  BY <1>1, Issued
<1>5. Fair(p)'
  <2>1. Fair(p) /\ UNCHANGED <<redis, executed>> BY <1>1, <1>3 DEF Listings, Grows
  <2>2. todo'[p] = todo[p] \ batch BY <1>1 DEF Shape, TypeOK
  <2>3. ASSUME NEW i \in DOMAIN pipeline', NEW c, c = pipeline'[i], c.by = p
        PROVE  c.cmd = "get" /\ c.reply = {} /\ ~(i <= executed)
    <3>1. i \notin DOMAIN pipeline BY <1>3, <2>3 DEF Grows
    <3>2. c.cmd = "get" /\ c.reply = {} BY <1>4, <2>3, <3>1 DEF Get
    <3>3. i \in Nat /\ executed < i BY <1>3, <3>1 DEF Grows
    <3> QED BY <3>2, <3>3, PipelineType
  <2>4. ASSUME NEW s \in always[p]
        PROVE  \/ s \in ActiveIn(found[p]) \/ s \in todo'[p]
               \/ \E i \in DOMAIN pipeline' :
                    /\ pipeline'[i].by = p
                    /\ pipeline'[i].cmd = "get" => pipeline'[i].id = s
                    /\ pipeline'[i].cmd \in {"get", "keys"}
    <3>1. s \in ActiveIn(found[p]) \/ s \in todo[p]
      BY <1>1, <2>1, NoCommand DEF Fair
    <3>2. CASE s \in batch
      <4>1. PICK i \in DOMAIN pipeline' : pipeline'[i] = Get(p, s) BY <1>4, <3>2
      <4> QED BY <4>1 DEF Get
    <3>3. CASE s \notin batch BY <2>2, <3>1, <3>3
    <3> QED BY <3>2, <3>3
  <2>5. ASSUME NEW i \in DOMAIN pipeline', pipeline'[i].by = p
        PROVE  ActiveIn(pipeline'[i].reply) \subseteq ever[p] /\ ~(i <= executed)
    <3>1. PICK c : c = pipeline'[i] OBVIOUS
    <3>2. c.reply = {} /\ ~(i <= executed) BY <2>3, <2>5, <3>1
    <3> QED BY <3>1, <3>2, ActiveInFacts
  <2>6. /\ Actives(redis) \subseteq ever[p] /\ always[p] \subseteq Actives(redis)
        /\ ActiveIn(found[p]) \subseteq ever[p]
    BY <2>1 DEF Fair
  <2>7. Actives(redis') = Actives(redis) /\ ever' = ever /\ always' = always /\ found' = found
        /\ executed' = executed
    BY <1>2, <2>1
  <2>8. \A i \in DOMAIN pipeline' : pipeline'[i].by = p =>
          /\ ActiveIn(pipeline'[i].reply) \subseteq ever'[p] /\ ~(i <= executed')
    BY <2>5, <2>7
  <2> QED BY <2>4, <2>6, <2>7, <2>8 DEF Fair
<1>6. ASSUME NEW q \in Handlers \ {p}, op[q] = "list" PROVE Fair(q)'
  <2>1. Fair(q) /\ todo'[q] = todo[q] BY <1>1, <1>6 DEF Listings, Shape, TypeOK
  <2> QED BY <1>2, <1>3, <2>1, GrowsFair
<1> QED BY <1>2, <1>5, <1>6 DEF Listings

\* A listing in whose hands nothing changes: what is stored may, while it watches.
LEMMA WatchedFair ==
  ASSUME NEW q \in Handlers, Fair(q), UNCHANGED pipeline,
         found'[q] = found[q], todo'[q] = todo[q],
         \A i \in DOMAIN pipeline : i <= executed' => i <= executed,
         Actives(redis') \subseteq ever'[q], always'[q] \subseteq Actives(redis'),
         ever[q] \subseteq ever'[q], always'[q] \subseteq always[q]
  PROVE  Fair(q)'
<1>1. ActiveIn(found[q]) \subseteq ever'[q] BY DEF Fair
<1>2. ASSUME NEW i \in DOMAIN pipeline, NEW c, c = pipeline[i], c.by = q
      PROVE  /\ c.cmd = "get" => ActiveIn(c.reply) \subseteq ever'[q]
             /\ i <= executed' /\ c.cmd = "get" /\ c.id \in always'[q] =>
                  c.id \in ActiveIn(c.reply)
             /\ i <= executed' /\ c.cmd = "keys" => always'[q] \subseteq c.reply
  BY <1>2 DEF Fair
<1>3. ASSUME NEW s \in always'[q]
      PROVE  \/ s \in ActiveIn(found[q]) \/ s \in todo[q]
             \/ \E i \in DOMAIN pipeline :
                  /\ pipeline[i].by = q
                  /\ pipeline[i].cmd = "get" => pipeline[i].id = s
                  /\ pipeline[i].cmd \in {"get", "keys"}
  BY DEF Fair
<1> QED BY <1>1, <1>2, <1>3 DEF Fair

\* A request that is answered lists no more.
LEMMA FinishListings ==
  ASSUME Shape, Listings, NEW p \in Handlers, Finish(p)
  PROVE  Listings'
<1>1. /\ op' = [op EXCEPT ![p] = "none"] /\ found' = [found EXCEPT ![p] = {}]
      /\ ever' = [ever EXCEPT ![p] = {}] /\ always' = [always EXCEPT ![p] = {}]
      /\ UNCHANGED <<redis, pipeline, executed, todo>>
  BY DEF Finish, store, client
<1>2. ASSUME NEW q \in Handlers, op'[q] = "list" PROVE Fair(q)'
  <2>1. q # p /\ op[q] = "list" BY <1>1, <1>2 DEF Shape, TypeOK
  <2>2. found'[q] = found[q] /\ ever'[q] = ever[q] /\ always'[q] = always[q]
    BY <1>1, <2>1 DEF Shape, TypeOK
  <2>3. Fair(q) BY <2>1 DEF Listings
  <2>4. Actives(redis) \subseteq ever[q] /\ always[q] \subseteq Actives(redis)
    BY <2>3 DEF Fair
  <2> QED BY <1>1, <2>2, <2>3, <2>4, WatchedFair
<1> QED BY <1>2 DEF Listings

\* What is sent again has not been executed.
LEMMA ResendListings ==
  ASSUME Shape, Listings, Resend \/ UNCHANGED vars
  PROVE  Listings'
<1>1. /\ UNCHANGED <<redis, pipeline, op, found, todo, ever, always>>
      /\ executed' \in {0, executed}
  BY DEF Resend, vars, store, request, listHistory
<1>2. \A i \in DOMAIN pipeline : i <= executed' => i <= executed BY <1>1, PipelineType
<1>3. ASSUME NEW q \in Handlers, op[q] = "list" PROVE Fair(q)'
  <2>1. Fair(q) BY <1>3 DEF Listings
  <2>2. Actives(redis) \subseteq ever[q] /\ always[q] \subseteq Actives(redis)
    BY <2>1 DEF Fair
  <2> QED BY <1>1, <1>2, <2>1, <2>2, WatchedFair
<1> QED BY <1>1, <1>3 DEF Listings

\* A listing that loses a command owes nothing any more.
LEMMA GiveUpListings ==
  ASSUME Shape, Listings, GiveUp
  PROVE  Listings'
<1>1. /\ UNCHANGED <<redis, op, found, todo, ever>> /\ pipeline' = << >>
      /\ always' = [p \in Handlers |-> IF Pending(p) # {} THEN {} ELSE always[p]]
  BY DEF GiveUp, store, request
<1>2. DOMAIN pipeline' = {} BY <1>1
<1>3. ASSUME NEW q \in Handlers, op[q] = "list" PROVE Fair(q)'
  <2>1. Fair(q) BY <1>3 DEF Listings
  <2>2. /\ Actives(redis) \subseteq ever[q] /\ always[q] \subseteq Actives(redis)
        /\ ActiveIn(found[q]) \subseteq ever[q]
    BY <2>1 DEF Fair
  <2>3. always'[q] = IF Pending(q) # {} THEN {} ELSE always[q] BY <1>1
  <2>4. ASSUME NEW s \in always'[q] PROVE s \in ActiveIn(found[q]) \/ s \in todo[q]
    <3>1. Pending(q) = {} /\ s \in always[q] BY <2>3, <2>4
    <3> QED BY <2>1, <3>1, NoCommand DEF Fair
  <2>5. always'[q] \subseteq always[q] BY <2>3
  <2> QED BY <1>1, <1>2, <2>2, <2>4, <2>5 DEF Fair
<1> QED BY <1>1, <1>3 DEF Listings

\* After a restart nobody lists, and when time passes the listings watch.
LEMMA ClockListings ==
  ASSUME Shape, Listings, Restart \/ Tick
  PROVE  Listings'
<1>1. CASE Restart
  <2>1. \A q \in Handlers : op'[q] = "none" BY <1>1 DEF Restart
  <2> QED BY <2>1 DEF Listings
<1>2. CASE Tick
  <2>1. UNCHANGED <<pipeline, executed, op, found, todo>> /\ Watch(redis') BY <1>2, Ticked
  <2>2. PICK db : db = redis' OBVIOUS
  <2>3. \A q \in Handlers : op[q] = "list" =>
          ever'[q] = ever[q] \cup Actives(db) /\ always'[q] = always[q] \cap Actives(db)
    BY <2>1, <2>2, WatchType
  <2>4. ASSUME NEW q \in Handlers, op[q] = "list" PROVE Fair(q)'
    <3>1. Fair(q) BY <2>4 DEF Listings
    <3>2. /\ ever'[q] = ever[q] \cup Actives(redis')
          /\ always'[q] = always[q] \cap Actives(redis')
      BY <2>2, <2>3, <2>4
    <3> QED BY <2>1, <3>1, <3>2, WatchedFair
  <2> QED BY <2>1, <2>4 DEF Listings
<1> QED BY <1>1, <1>2

\* What a read of session s returns, if anything, is active exactly when s is.
LEMMA ReadFacts ==
  ASSUME Shape, NEW s \in Sessions, NEW r, r = {redis[s]} \ {Absent}
  PROVE  /\ ActiveIn(r) \subseteq Actives(redis)
         /\ s \in Actives(redis) => s \in ActiveIn(r)
<1>1. redis[s] # Absent => redis[s].id = s BY DEF Shape
<1>2. ASSUME redis[s] # Absent
      PROVE  ActiveIn(r) = {e.id : e \in {d \in {redis[s]} : d.active}}
  BY <1>2 DEF ActiveIn
<1>3. ASSUME redis[s] = Absent PROVE ActiveIn(r) = {} BY <1>3 DEF ActiveIn
<1> QED BY <1>1, <1>2, <1>3 DEF Actives

\* A read finds what is active, KEYS finds all that is active, and the listings watch.
LEMMA ExecuteListings ==
  ASSUME Shape, Listings, Execute
  PROVE  Listings'
<1>1. PICK k \in DOMAIN pipeline, c \in Command, d \in Command :
        /\ k = executed + 1 /\ executed' = k /\ c = pipeline[k] /\ CommandOK(c)
        /\ DOMAIN pipeline' = DOMAIN pipeline
        /\ \A i \in DOMAIN pipeline \ {k} : pipeline'[i] = pipeline[i]
        /\ pipeline'[k] = d
        /\ d.by = c.by /\ d.cmd = c.cmd /\ d.id = c.id
        /\ c.cmd = "get" => d.reply = {redis[c.id]} \ {Absent}
        /\ c.cmd = "keys" => d.reply = {s \in Sessions : redis[s] # Absent}
        /\ c.cmd \in {"get", "keys"} => redis' = redis
  BY Execution
<1>2. UNCHANGED <<op, found, todo>> /\ Watch(redis') BY DEF Execute, request
<1> PICK db : db = redis' OBVIOUS
<1>3. ASSUME NEW q \in Handlers, op[q] = "list" PROVE Fair(q)'
  <2>1. Fair(q) BY <1>3 DEF Listings
  <2>2. /\ Actives(redis) \subseteq ever[q] /\ always[q] \subseteq Actives(redis)
        /\ ActiveIn(found[q]) \subseteq ever[q]
    BY <2>1 DEF Fair
  <2>3. ever'[q] = ever[q] \cup Actives(db) /\ always'[q] = always[q] \cap Actives(db)
    BY <1>2, <1>3, WatchType
  <2>4. ASSUME NEW i \in DOMAIN pipeline', NEW b, b = pipeline'[i], b.by = q
        PROVE  /\ b.cmd = "get" => ActiveIn(b.reply) \subseteq ever'[q]
               /\ i <= executed' /\ b.cmd = "get" /\ b.id \in always'[q] =>
                    b.id \in ActiveIn(b.reply)
               /\ i <= executed' /\ b.cmd = "keys" => always'[q] \subseteq b.reply
    <3>1. CASE i # k
      <4>1. b = pipeline[i] /\ i \in DOMAIN pipeline BY <1>1, <2>4, <3>1
      <4>2. i <= executed' => i <= executed BY <1>1, <3>1, <4>1, PipelineType
      <4> QED BY <2>1, <2>3, <2>4, <4>1, <4>2 DEF Fair
    <3>2. CASE i = k
      <4>1. b = d BY <1>1, <2>4, <3>2
      <4>2. CASE c.cmd = "get"
        <5>1. c.id \in Sessions /\ b.reply = {redis[c.id]} \ {Absent} /\ db = redis
          BY <1>1, <4>1, <4>2 DEF CommandOK
        <5>2. /\ ActiveIn(b.reply) \subseteq Actives(redis)
              /\ c.id \in Actives(redis) => c.id \in ActiveIn(b.reply)
          BY <5>1, ReadFacts
        <5>3. b.id = c.id /\ b.cmd = "get" BY <1>1, <4>1, <4>2
        <5> QED BY <2>2, <2>3, <5>1, <5>2, <5>3
      <4>3. CASE c.cmd = "keys"
        <5>1. b.cmd = "keys" /\ b.reply = {s \in Sessions : redis[s] # Absent}
          BY <1>1, <4>1, <4>3
        <5>2. Actives(redis) \subseteq b.reply BY <5>1 DEF Actives
        <5> QED BY <2>2, <2>3, <5>1, <5>2
      <4>4. CASE c.cmd \notin {"get", "keys"} BY <1>1, <4>1, <4>4
      <4> QED BY <4>2, <4>3, <4>4
    <3> QED BY <3>1, <3>2
  <2>5. ASSUME NEW s \in always'[q]
        PROVE  \/ s \in ActiveIn(found[q]) \/ s \in todo[q]
               \/ \E i \in DOMAIN pipeline' :
                    /\ pipeline'[i].by = q
                    /\ pipeline'[i].cmd = "get" => pipeline'[i].id = s
                    /\ pipeline'[i].cmd \in {"get", "keys"}
    <3>1. s \in always[q] BY <2>3
    <3>2. CASE s \in ActiveIn(found[q]) \/ s \in todo[q] BY <3>2
    <3>3. CASE \E i \in DOMAIN pipeline :
                 /\ pipeline[i].by = q
                 /\ pipeline[i].cmd = "get" => pipeline[i].id = s
                 /\ pipeline[i].cmd \in {"get", "keys"}
      <4> PICK i \in DOMAIN pipeline :
            /\ pipeline[i].by = q
            /\ pipeline[i].cmd = "get" => pipeline[i].id = s
            /\ pipeline[i].cmd \in {"get", "keys"}
        BY <3>3
      <4> PICK a : a = pipeline[i] OBVIOUS
      <4>1. /\ a = pipeline[i] /\ a.by = q /\ a.cmd \in {"get", "keys"}
            /\ a.cmd = "get" => a.id = s
        OBVIOUS
      <4>2. PICK b : b = pipeline'[i] OBVIOUS
      <4>3. b.by = a.by /\ b.cmd = a.cmd /\ b.id = a.id BY <1>1, <4>1, <4>2
      <4> QED BY <1>1, <4>1, <4>2, <4>3
    <3> QED BY <2>1, <3>1, <3>2, <3>3 DEF Fair
  <2>6. ActiveIn(found[q]) \subseteq ever'[q] BY <2>2, <2>3
  <2>7. Actives(redis') \subseteq ever'[q] /\ always'[q] \subseteq Actives(redis')
    BY <2>3
  <2> QED BY <1>2, <2>4, <2>5, <2>6, <2>7 DEF Fair
<1> QED BY <1>2, <1>3 DEF Listings

\* A session found is kept, and the keys found are to do.
LEMMA AcknowledgeListings ==
  ASSUME Shape, Listings, Acknowledge
  PROVE  Listings'
<1>1. PICK c \in Command :
        /\ c = pipeline[1] /\ CommandOK(c)
        /\ found' = IF c.cmd = "get" THEN [found EXCEPT ![c.by] = @ \cup c.reply] ELSE found
        /\ todo' = IF c.cmd = "keys" THEN [todo EXCEPT ![c.by] = c.reply] ELSE todo
  BY Acknowledgement
<1>2. /\ 1 \in DOMAIN pipeline /\ 1 <= executed /\ executed' = executed - 1
      /\ \A i \in DOMAIN pipeline' : i + 1 \in DOMAIN pipeline /\ pipeline'[i] = pipeline[i + 1]
      /\ \A i \in DOMAIN pipeline \ {1} :
           i - 1 \in DOMAIN pipeline' /\ pipeline'[i - 1] = pipeline[i]
  BY Acknowledged
<1>3. UNCHANGED <<redis, op, ever, always>> BY DEF Acknowledge, store, listHistory
<1>4. \A i \in DOMAIN pipeline' : i \in Int
  <2>1. PICK new \in Seq(Command) : new = pipeline' BY Acknowledged
  <2>2. DOMAIN new = 1..Len(new) /\ Len(new) \in Nat BY <2>1
  <2> QED BY <2>1, <2>2
<1>5. executed \in Int BY PipelineType
<1>6. ASSUME NEW q \in Handlers, op[q] = "list" PROVE Fair(q)'
  <2>1. Fair(q) BY <1>6 DEF Listings
  <2>2. /\ Actives(redis) \subseteq ever[q] /\ always[q] \subseteq Actives(redis)
        /\ ActiveIn(found[q]) \subseteq ever[q]
    BY <2>1 DEF Fair
  <2>3. ASSUME NEW i \in DOMAIN pipeline', NEW b, b = pipeline'[i], b.by = q
        PROVE  /\ b.cmd = "get" => ActiveIn(b.reply) \subseteq ever[q]
               /\ i <= executed' /\ b.cmd = "get" /\ b.id \in always[q] =>
                    b.id \in ActiveIn(b.reply)
               /\ i <= executed' /\ b.cmd = "keys" => always[q] \subseteq b.reply
    <3>1. i + 1 \in DOMAIN pipeline /\ b = pipeline[i + 1] BY <1>2, <2>3
    <3>2. i <= executed' => i + 1 <= executed BY <1>2, <1>4, <1>5
    <3> QED BY <2>1, <2>3, <3>1, <3>2 DEF Fair
  <2>4. c.by = q => /\ c.cmd = "get" => ActiveIn(c.reply) \subseteq ever[q]
                    /\ c.cmd = "get" /\ c.id \in always[q] => c.id \in ActiveIn(c.reply)
                    /\ c.cmd = "keys" => always[q] \subseteq c.reply
    BY <1>1, <1>2, <2>1 DEF Fair
  <2>5. found'[q] = IF c.cmd = "get" /\ c.by = q THEN found[q] \cup c.reply ELSE found[q]
    BY <1>1 DEF Shape, TypeOK
  <2>6. todo'[q] = IF c.cmd = "keys" /\ c.by = q THEN c.reply ELSE todo[q]
    BY <1>1 DEF Shape, TypeOK
  <2>7. ActiveIn(found'[q]) = ActiveIn(found[q])
          \cup (IF c.cmd = "get" /\ c.by = q THEN ActiveIn(c.reply) ELSE {})
    BY <2>5, ActiveInFacts
  <2>8. ActiveIn(found'[q]) \subseteq ever[q] BY <2>2, <2>4, <2>7
  <2>9. ASSUME NEW s \in always[q]
        PROVE  \/ s \in ActiveIn(found'[q]) \/ s \in todo'[q]
               \/ \E i \in DOMAIN pipeline' :
                    /\ pipeline'[i].by = q
                    /\ pipeline'[i].cmd = "get" => pipeline'[i].id = s
                    /\ pipeline'[i].cmd \in {"get", "keys"}
    <3>1. CASE s \in ActiveIn(found[q]) BY <2>7, <3>1
    <3>2. CASE s \in todo[q] BY <2>4, <2>6, <3>2
    <3>3. CASE \E i \in DOMAIN pipeline :
                 /\ pipeline[i].by = q
                 /\ pipeline[i].cmd = "get" => pipeline[i].id = s
                 /\ pipeline[i].cmd \in {"get", "keys"}
      <4> PICK i \in DOMAIN pipeline :
            /\ pipeline[i].by = q
            /\ pipeline[i].cmd = "get" => pipeline[i].id = s
            /\ pipeline[i].cmd \in {"get", "keys"}
        BY <3>3
      <4> PICK a : a = pipeline[i] OBVIOUS
      <4>1. /\ a = pipeline[i] /\ a.by = q /\ a.cmd \in {"get", "keys"}
            /\ a.cmd = "get" => a.id = s
        OBVIOUS
      <4>2. CASE i = 1
        <5>1. a = c BY <1>1, <4>1, <4>2
        <5>2. CASE c.cmd = "get" BY <2>4, <2>7, <4>1, <5>1, <5>2
        <5>3. CASE c.cmd = "keys" BY <2>4, <2>6, <4>1, <5>1, <5>3
        <5> QED BY <4>1, <5>1, <5>2, <5>3
      <4>3. CASE i # 1
        <5>1. PICK j \in DOMAIN pipeline' : pipeline'[j] = a BY <1>2, <4>1, <4>3
        <5> QED BY <4>1, <5>1
      <4> QED BY <4>2, <4>3
    <3> QED BY <2>1, <3>1, <3>2, <3>3 DEF Fair
  <2> QED BY <1>3, <2>2, <2>3, <2>8, <2>9 DEF Fair
<1> QED BY <1>3, <1>6 DEF Listings

-----------------------------------------------------------------------------
(* The invariant *)

\* A stuttering step leaves what has ended where it is.
LEMMA StutterEnded ==
  ASSUME EndedGone, UNCHANGED vars
  PROVE  EndedGone'
<1>1. UNCHANGED <<redis, pipeline, op, about, found, ended>> BY DEF vars
<1> QED BY <1>1 DEF EndedGone, NowhereLeft, Writes

\* At the start nothing is stored, and there is no command.
LEMMA InitInv == Init => Inv
<1> SUFFICES ASSUME Init PROVE Inv OBVIOUS
<1>1. Shape BY InitShape
<1>2. /\ DOMAIN pipeline = {} /\ now = 0
      /\ \A s \in Sessions : redis[s] = Absent /\ stamped[s] = 0
      /\ \A p \in Handlers : op[p] = "none"
  BY DEF Init
<1>3. Stamps BY <1>2 DEF Stamps, ActivityIsKept
<1>4. Endings BY <1>2 DEF Endings, Deletions, EndedGone, NowhereLeft
<1>5. Expiries BY <1>2 DEF Expiries
<1>6. Listings BY <1>2 DEF Listings
<1> QED BY <1>1, <1>3, <1>4, <1>5, <1>6 DEF Inv

\* Every step keeps the shape.
LEMMA StepShape ==
  ASSUME Shape, [Next]_vars
  PROVE  Shape'
<1>1. ASSUME NEW p \in Handlers,
             \/ SetUserSession(p) \/ DeleteUserSession(p)
             \/ UpdateUserActivityTime(p) \/ GetActiveSessions(p)
      PROVE  Shape'
  BY <1>1, CallsShape
<1>2. ASSUME NEW p \in Handlers, Step(p) PROVE Shape'
  BY <1>2, WriteBackShape, NextBatchShape, FinishShape DEF Step
<1>3. ASSUME Execute \/ Acknowledge \/ Resend \/ GiveUp \/ Restart \/ Tick PROVE Shape'
  BY <1>3, ExecuteShape, AcknowledgeShape, BrokenShape, RestartShape, TickShape
<1>4. CASE UNCHANGED vars BY <1>4, StutterShape
<1> QED BY <1>1, <1>2, <1>3, <1>4 DEF Next

\* Every step keeps the invariant.
LEMMA StepInv == Inv /\ [Next]_vars => Inv'
<1> SUFFICES ASSUME Inv, [Next]_vars PROVE Inv' OBVIOUS
<1>1. Shape /\ Stamps /\ Deletions /\ EndedGone /\ Expiries /\ Listings BY DEF Inv, Endings
<1>2. Shape' BY <1>1, StepShape
<1>3. ASSUME NEW p \in Handlers,
             \/ SetUserSession(p) \/ DeleteUserSession(p)
             \/ UpdateUserActivityTime(p) \/ GetActiveSessions(p)
      PROVE  Grows(p) /\ EndedGone' /\ Expiries' /\ Listings'
  <2>1. Grows(p) BY <1>1, <1>3, Calls, CallGrows
  <2>2. EndedGone' BY <1>1, <1>3, CallsEnded
  <2>3. Expiries' BY <1>1, <1>3, StepsExpiries
  <2>4. Listings' BY <1>1, <1>3, CallsListings
  <2> QED BY <2>1, <2>2, <2>3, <2>4
<1>4. ASSUME NEW p \in Handlers, WriteBack(p) \/ NextBatch(p)
      PROVE  Grows(p) /\ EndedGone' /\ Expiries' /\ Listings'
  <2>1. Grows(p) BY <1>1, <1>4, WriteBackGrows, NextBatchGrows
  <2>2. EndedGone' BY <1>1, <1>4, WriteBackEnded, NextBatchEnded
  <2>3. Expiries' BY <1>1, <1>4, StepsExpiries
  <2>4. Listings' BY <1>1, <1>4, WriteBackListings, NextBatchListings
  <2> QED BY <2>1, <2>2, <2>3, <2>4
<1>5. ASSUME NEW p \in Handlers, Grows(p) PROVE Stamps' /\ Deletions'
  BY <1>1, <1>2, <1>5, GrowsStamps, GrowsDeletions
<1>6. ASSUME Dwindles PROVE Stamps' /\ Deletions'
  BY <1>1, <1>6, DwindlesStamps, DwindlesDeletions
<1>7. ASSUME NEW p \in Handlers, Finish(p) PROVE Inv'
  <2>1. Dwindles BY <1>1, <1>7, OthersDwindle
  <2>2. EndedGone' /\ Expiries' /\ Listings'
    BY <1>1, <1>7, FinishEnded, FinishExpiries, FinishListings
  <2> QED BY <1>2, <1>6, <2>1, <2>2 DEF Inv, Endings
<1>8. CASE Execute
  <2>1. Stamps' /\ Deletions' BY <1>1, <1>8, ExecuteStamps, ExecuteDeletions
  <2>2. EndedGone' /\ Expiries' /\ Listings'
    BY <1>1, <1>8, ExecuteEnded, ExecuteExpiries, ExecuteListings
  <2> QED BY <1>2, <2>1, <2>2 DEF Inv, Endings
<1>9. CASE Acknowledge
  <2>1. Stamps' /\ Deletions' BY <1>1, <1>9, AcknowledgeStamps, AcknowledgeDeletions
  <2>2. EndedGone' /\ Expiries' /\ Listings'
    BY <1>1, <1>9, AcknowledgeEnded, RepliesExpiries, AcknowledgeListings
  <2> QED BY <1>2, <2>1, <2>2 DEF Inv, Endings
<1>10. CASE Resend \/ GiveUp \/ Restart \/ Tick \/ UNCHANGED vars
  <2>1. Dwindles BY <1>1, <1>10, OthersDwindle
  <2>2. EndedGone' BY <1>1, <1>10, BrokenEnded, TickEnded, StutterEnded
  <2>3. Expiries' BY <1>1, <1>10, RepliesExpiries, RestartExpiries, TickExpiries
  <2>4. Listings' BY <1>1, <1>10, ResendListings, GiveUpListings, ClockListings
  <2> QED BY <1>2, <1>6, <2>1, <2>2, <2>3, <2>4 DEF Inv, Endings
<1>11. ASSUME NEW p \in Handlers, Grows(p), EndedGone', Expiries', Listings' PROVE Inv'
  BY <1>2, <1>5, <1>11 DEF Inv, Endings
<1>12. ASSUME NEW p \in Handlers,
              \/ SetUserSession(p) \/ DeleteUserSession(p)
              \/ UpdateUserActivityTime(p) \/ GetActiveSessions(p)
       PROVE  Inv'
  BY <1>3, <1>11, <1>12
<1>13. ASSUME NEW p \in Handlers, WriteBack(p) \/ NextBatch(p) PROVE Inv'
  BY <1>4, <1>11, <1>13
<1> QED BY <1>7, <1>8, <1>9, <1>10, <1>12, <1>13 DEF Next, Step

\* The invariant holds in every reachable state.
THEOREM Invariance == Spec => []Inv
BY InitInv, StepInv, PTL DEF Spec

-----------------------------------------------------------------------------
(* The properties of the run *)

\* Types, whatever is sent twice or lost: TypeOK.
THEOREM TypeCorrect == Spec => []TypeOK
<1>1. Inv => TypeOK BY DEF Inv, Shape
<1> QED BY <1>1, Invariance, PTL

\* Racing updateUserActivityTime and setUserSession never take the activity time of a
\* session back behind one already answered, unless a caller hands an older one to
\* setUserSession.
THEOREM ActivityKept == Spec => []ActivityIsKept
<1>1. Inv => ActivityIsKept BY DEF Inv, Stamps
<1> QED BY <1>1, Invariance, PTL

\* A session that ended while nobody was writing it is not brought back by a write that
\* began from an older read.
THEOREM EndedStay == Spec => []EndedStaysEnded
<1>1. Inv => EndedStaysEnded
  BY DEF Inv, Endings, EndedGone, NowhereLeft, EndedStaysEnded
<1> QED BY <1>1, Invariance, PTL

\* A session that nobody has written for CACHE_TTL.USER_SESSION is gone.
THEOREM AbandonedExpire == Spec => []AbandonedExpires
<1>1. ASSUME Inv PROVE AbandonedExpires
  <2>1. SUFFICES ASSUME NEW s \in Sessions, redis[s] # Absent, Writers(s) = {}
                 PROVE  now < touched[s] + Lifetime
    BY DEF AbandonedExpires
  <2>2. now < expiry[s] /\ expiry[s] <= touched[s] + Lifetime
    BY <1>1, <2>1 DEF Inv, Expiries
  <2>3. now \in Int /\ expiry[s] \in Int /\ touched[s] \in Int /\ Lifetime \in Int
    BY <1>1, CacheAssumption DEF Inv, Shape, TypeOK
  <2> QED BY <2>2, <2>3
<1> QED BY <1>1, Invariance, PTL

\* getActiveSessions lists only sessions that were active during the call, and all that
\* were active throughout, unless a command of it failed.
THEOREM ListingsFair == Spec => []ListingIsFair
<1>1. ASSUME Inv PROVE ListingIsFair
  <2>1. SUFFICES ASSUME NEW p \in Handlers, op[p] = "list", Done(p)
                 PROVE  Listed(p) \subseteq ever[p] /\ always[p] \subseteq Listed(p)
    BY DEF ListingIsFair
  <2>2. Shape /\ Fair(p) BY <1>1, <2>1 DEF Inv, Listings
  <2>3. pc[p] = "await" BY <2>1, <2>2 DEF Shape, RequestOK
  <2>4. Pending(p) = {} /\ todo[p] = {} BY <2>1, <2>3 DEF Done, Resumed
  <2>5. Listed(p) = ActiveIn(found[p]) BY DEF Listed, ActiveIn
  <2>6. always[p] \subseteq ActiveIn(found[p]) BY <2>2, <2>4, NoCommand DEF Fair
  <2>7. ActiveIn(found[p]) \subseteq ever[p] BY <2>2 DEF Fair
  <2> QED BY <2>5, <2>6, <2>7
<1> QED BY <1>1, Invariance, PTL
=============================================================================
