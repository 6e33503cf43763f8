----------------------- MODULE ProcessSupervisorProofs -----------------------
(***************************************************************************)
(* Proofs about ProcessSupervisor, for any number of calls, identities and   *)
(* scopes, any adapters and any retention limit.                              *)
(*                                                                         *)
(* The invariant has three layers: what one run is by itself (RunOK), how    *)
(* the runs of a scope or of an identity wait for each other (Orders), and   *)
(* what the registry says of the last run of an identity (RecordsOK).  Each  *)
(* is an operator of the runs rs, and of the registry g, so that a step that *)
(* does two things at once (spawn() with nothing to wait for) is proved in    *)
(* two parts.  The last section is about the registry alone: its order and    *)
(* the counter that decides what prune() deletes (Books).                    *)
(***************************************************************************)
EXTENDS ProcessSupervisor, FiniteSetTheorems, TLAPS

Run ==
    [stage : {"unused", "fenced", "creating", "live", "stillborn", "warning", "over"},
     id : Ids \cup {"none"}, scope : Scopes \cup {"none"}, replace : BOOLEAN,
     order : Nat, behind : SUBSET Calls, forced : Reasons, asked : BOOLEAN,
     timer : {"none", "armed", "fired"}, adapter : Adapters \cup {"none"},
     root : {"none", "running", "ended"}, killed : BOOLEAN,
     failed : BOOLEAN, group : {"none", "held", "extinct", "lost"},
     result : {"none", "resolved", "rejected"}]

-----------------------------------------------------------------------------
(* One run.                                                                *)

\* Without an adapter there is no process.
Unlaunched(r) ==
    r.stage # "live" =>
        /\ r.adapter = "none" /\ r.root = "none" /\ r.group = "none" /\ r.result = "none"
        /\ r.asked = FALSE /\ r.timer = "none"

\* A run that was given up has ended its command, or lost sight of its group.
GivenUp(r) == r.stage = "live" /\ Extinct(r) => r.root = "ended" \/ r.group = "lost"

\* Only relays hold groups, and a group that is over leaves no command running.
GroupOK(r) ==
    /\ r.stage = "live" => (r.adapter = "relay" <=> r.group # "none") /\ r.adapter # "none"
    /\ r.group = "extinct" => r.root = "ended"
    /\ r.result # "none" => r.root = "ended" \/ r.group = "lost"

\* A cancelled run with a process was signalled.
Signalled(r) == r.stage = "live" /\ ~Extinct(r) /\ r.forced # "none" => r.asked

\* A start takes its place in the order, its identity and its scope.
Placed(r) ==
    /\ r.stage = "unused" => r.order = 0
    /\ r.stage \notin {"unused", "over"} => r.order # 0
    /\ r.order # 0 => r.id \in Ids
    /\ r.order = 0 => r.forced = "none"

RunOK(r) == r \in Run /\ Unlaunched(r) /\ GivenUp(r) /\ GroupOK(r) /\ Signalled(r) /\ Placed(r)

RunsOK(rs) == rs \in [Calls -> Run] /\ \A c \in Calls : RunOK(rs[c])

-----------------------------------------------------------------------------
(* The runs among each other.                                              *)

Used(rs) == {c \in Calls : rs[c].stage # "unused"}

\* Orders are given in turn.
Ranked(rs) ==
    /\ IsFiniteSet(Used(rs))
    /\ \A c \in Calls : rs[c].order <= Cardinality(Used(rs))
    /\ \A c, d \in Calls : rs[c].order # 0 /\ rs[c].order = rs[d].order => c = d

\* d was spawned before c in the same scope.
Before(rs, d, c) == rs[d].order # 0 /\ rs[d].order < rs[c].order /\ rs[d].scope = rs[c].scope

\* A replacement waits for all starts before it, and when it runs none is left.
Fenced(rs) ==
    \A r \in Calls, c \in startingRuns(rs) :
        rs[r].replace /\ Before(rs, c, r) =>
            /\ rs[r].stage = "fenced" => c \in rs[r].behind
            /\ rs[r].stage \notin {"creating", "live"}

\* While a replacement is starting, who came after it waits for it, or for a later
\* replacement that does.
Held(rs) ==
    \A r \in startingRuns(rs), c \in Calls :
        rs[r].replace /\ Before(rs, r, c) =>
            /\ rs[c].stage = "fenced"
            /\ \E d \in rs[c].behind \cap startingRuns(rs) :
                   rs[d].replace /\ rs[d].scope = rs[c].scope /\ rs[r].order <= rs[d].order

\* There is a last replacement among those of a scope that are starting.
LastExists(rs) ==
    \A r \in startingRuns(rs) : rs[r].replace =>
        \E m \in startingRuns(rs) :
            /\ rs[m].replace /\ rs[m].scope = rs[r].scope
            /\ \A d \in startingRuns(rs) :
                   rs[d].replace /\ rs[d].scope = rs[r].scope => rs[d].order <= rs[m].order

\* An identity is only given again when its last run is over.
Reused(rs) ==
    \A c, d \in Calls :
        rs[d].order # 0 /\ rs[d].order < rs[c].order /\ rs[d].id = rs[c].id => d \notin Owned(rs)

Superseded(rs) ==
    \A r \in Calls : rs[r].replace /\ rs[r].stage \in {"creating", "live"} =>
        \A c \in active(rs) :
            rs[c].scope = rs[r].scope /\ rs[c].order < rs[r].order => rs[c].asked

Orders(rs) == Ranked(rs) /\ Fenced(rs) /\ Held(rs) /\ LastExists(rs) /\ Reused(rs) /\ Superseded(rs)

-----------------------------------------------------------------------------
(* The registry.                                                           *)

Record == [state : {"none", "starting", "running", "exiting", "exited"}, reason : Reasons]

IsReg(g) ==
    /\ g = [rec |-> g.rec, older |-> g.older, exited |-> g.exited]
    /\ g.rec \in [Ids -> Record]

\* c is the last run of its identity, and no relay had it before.
Heads(rs, c) ==
    \A d \in Calls : rs[d].id = rs[c].id =>
        /\ rs[d].order <= rs[c].order
        /\ ~(rs[d].order < rs[c].order /\ rs[d].adapter = "relay")

RecordOK(r, rec) ==
    /\ r.stage \in {"creating", "live"} /\ r.result = "none" =>
           rec.state \in {"starting", "running", "exiting"}
    /\ r.stage # "fenced" /\ r.forced # "none" /\ rec.state # "none" => rec.reason = r.forced

RecordsOK(rs, g) ==
    \A c \in Calls : Heads(rs, c) /\ rs[c].order # 0 => RecordOK(rs[c], g.rec[rs[c].id])

-----------------------------------------------------------------------------
\* Once shutdown() resolved, nothing is owned, and nothing is accepted.
Closed == shut \in {"resolved", "rejected"} => Owned(run) = {}

Inv ==
    /\ RunsOK(run) /\ Orders(run) /\ IsReg(reg) /\ RecordsOK(run, reg)
    /\ shut \in {"open", "requested", "waiting", "resolved", "rejected"} /\ Closed

-----------------------------------------------------------------------------
(* Cancelling a run.                                                       *)

\* What a cancellation leaves alone.
Kept(r, q) ==
    /\ q.stage = r.stage /\ q.id = r.id /\ q.scope = r.scope /\ q.replace = r.replace
    /\ q.order = r.order /\ q.behind = r.behind
    /\ q.adapter = r.adapter /\ q.root = r.root /\ q.group = r.group /\ q.result = r.result

LEMMA KillFacts ==
    ASSUME NEW r \in Run, NEW signal \in {"TERM", "KILL"}
    PROVE  /\ Kill(r, signal) \in Run /\ Kept(r, Kill(r, signal))
           /\ Kill(r, signal).forced = r.forced
           /\ Kill(r, signal).asked = r.asked
           /\ Kill(r, signal).timer = r.timer
<1> DEFINE b == r.killed \/ signal = "KILL"
<1>1. b \in BOOLEAN
  OBVIOUS
<1>2. Kill(r, signal) \in {r, [r EXCEPT !.failed = TRUE], [r EXCEPT !.killed = b]}
  BY DEF Kill
<1> HIDE DEF b
<1> QED BY <1>1, <1>2 DEF Run, Kept

\* The signal is asked for, and the timer armed or cleared.
LEMMA AskedFacts ==
    ASSUME NEW k \in Run, NEW t \in {"none", "armed", "fired"}
    PROVE  /\ [k EXCEPT !.asked = TRUE, !.timer = t] \in Run
           /\ Kept(k, [k EXCEPT !.asked = TRUE, !.timer = t])
           /\ [k EXCEPT !.asked = TRUE, !.timer = t].forced = k.forced
           /\ [k EXCEPT !.asked = TRUE, !.timer = t].asked = TRUE
<1> DEFINE q == [k EXCEPT !.asked = TRUE, !.timer = t]
<1>1. q \in Run
  BY DEF Run
<1>2. Kept(k, q) /\ q.forced = k.forced
  BY DEF Run, Kept
<1>3. q.asked = TRUE
  BY DEF Run
<1> QED BY <1>1, <1>2, <1>3

LEMMA ForcedFacts ==
    ASSUME NEW r \in Run, NEW reason \in Reasons \ {"none"}
    PROVE  /\ Forced(r, reason) \in Run /\ Kept(r, Forced(r, reason))
           /\ Forced(r, reason).forced =
                  IF r.forced = "none" /\ r.result = "none" THEN reason ELSE r.forced
           /\ Forced(r, reason).asked = r.asked
           /\ Forced(r, reason).timer = r.timer
  BY DEF Forced, Run, Kept

LEMMA KeptExtinct ==
    ASSUME NEW r, NEW q, Kept(r, q)
    PROVE  Extinct(q) <=> Extinct(r)
  BY DEF Kept, Extinct

\* cancelAdapter signals, unless there is nothing to signal.
LEMMA CancelAdapterFacts ==
    ASSUME NEW r \in Run
    PROVE  /\ CancelAdapter(r) \in Run /\ Kept(r, CancelAdapter(r))
           /\ CancelAdapter(r).forced = r.forced
           /\ Extinct(r) \/ CancelAdapter(r).asked
           /\ r.asked => CancelAdapter(r).asked
<1>1. CASE Extinct(r) \/ (r.asked /\ ~(r.result # "none" /\ r.timer # "none"))
  BY <1>1 DEF CancelAdapter, Kept
<1>2. CASE ~(Extinct(r) \/ (r.asked /\ ~(r.result # "none" /\ r.timer # "none"))) /\ r.result # "none"
  <2> DEFINE k == Kill(r, "KILL")
  <2>1. CancelAdapter(r) = [k EXCEPT !.asked = TRUE, !.timer = "none"]
    BY <1>2 DEF CancelAdapter
  <2>2. k \in Run /\ Kept(r, k) /\ k.forced = r.forced
    BY KillFacts
  <2> HIDE DEF k
  <2>3. /\ CancelAdapter(r) \in Run /\ Kept(k, CancelAdapter(r))
        /\ CancelAdapter(r).forced = k.forced /\ CancelAdapter(r).asked = TRUE
    BY <2>1, <2>2, AskedFacts
  <2>4. Kept(r, CancelAdapter(r))
    BY <2>2, <2>3 DEF Kept
  <2> QED BY <2>2, <2>3, <2>4
<1>3. CASE ~(Extinct(r) \/ (r.asked /\ ~(r.result # "none" /\ r.timer # "none"))) /\ r.result = "none"
  <2> DEFINE k == Kill(r, "TERM")
  <2>1. CancelAdapter(r) = [k EXCEPT !.asked = TRUE, !.timer = "armed"]
    BY <1>3 DEF CancelAdapter
  <2>2. k \in Run /\ Kept(r, k) /\ k.forced = r.forced
    BY KillFacts
  <2> HIDE DEF k
  <2>3. /\ CancelAdapter(r) \in Run /\ Kept(k, CancelAdapter(r))
        /\ CancelAdapter(r).forced = k.forced /\ CancelAdapter(r).asked = TRUE
    BY <2>1, <2>2, AskedFacts
  <2>4. Kept(r, CancelAdapter(r))
    BY <2>2, <2>3 DEF Kept
  <2> QED BY <2>2, <2>3, <2>4
<1> QED BY <1>1, <1>2, <1>3

LEMMA RequestCancelFacts ==
    ASSUME NEW r \in Run, NEW reason \in Reasons \ {"none"}
    PROVE  /\ RequestCancel(r, reason) \in Run /\ Kept(r, RequestCancel(r, reason))
           /\ RequestCancel(r, reason).forced =
                  IF r.forced = "none" /\ r.result = "none" THEN reason ELSE r.forced
           /\ Extinct(r) \/ RequestCancel(r, reason).asked
           /\ r.asked => RequestCancel(r, reason).asked
<1> DEFINE f == Forced(r, reason)
<1>1. /\ f \in Run /\ Kept(r, f) /\ f.asked = r.asked
      /\ f.forced = IF r.forced = "none" /\ r.result = "none" THEN reason ELSE r.forced
  BY ForcedFacts
<1>2. RequestCancel(r, reason) = CancelAdapter(f)
  BY DEF RequestCancel
<1> HIDE DEF f
<1>3. Extinct(f) <=> Extinct(r)
  BY <1>1, KeptExtinct
<1>4. /\ CancelAdapter(f) \in Run /\ Kept(f, CancelAdapter(f))
      /\ CancelAdapter(f).forced = f.forced
      /\ Extinct(f) \/ CancelAdapter(f).asked
      /\ f.asked => CancelAdapter(f).asked
  BY <1>1, CancelAdapterFacts
<1>5. Kept(r, CancelAdapter(f))
  BY <1>1, <1>4 DEF Kept
<1> QED BY <1>1, <1>2, <1>3, <1>4, <1>5

\* cancel() of one run: it is marked and, if it has a process, signalled.
LEMMA CancelledFacts ==
    ASSUME NEW r, RunOK(r), r.order # 0, NEW reason \in Reasons \ {"none"}
    PROVE  /\ RunOK(Cancelled(r, reason)) /\ Kept(r, Cancelled(r, reason))
           /\ Cancelled(r, reason).forced =
                  IF r.forced = "none" /\ r.result = "none" THEN reason ELSE r.forced
           /\ r.stage = "live" => Extinct(r) \/ Cancelled(r, reason).asked
           /\ r.asked => Cancelled(r, reason).asked
<1>0. r \in Run
  BY DEF RunOK
<1> DEFINE q == Cancelled(r, reason)
<1>1. CASE r.stage = "live"
  <2>1. /\ q \in Run /\ Kept(r, q)
        /\ q.forced = IF r.forced = "none" /\ r.result = "none" THEN reason ELSE r.forced
        /\ Extinct(r) \/ q.asked
        /\ r.asked => q.asked
    BY <1>0, <1>1, RequestCancelFacts DEF Cancelled
  <2>2. Extinct(q) <=> Extinct(r)
    BY <2>1, KeptExtinct
  <2> HIDE DEF q
  <2>3. RunOK(q)
    BY <1>1, <2>1, <2>2 DEF RunOK, Unlaunched, GivenUp, GroupOK, Signalled, Placed, Kept
  <2> QED BY <2>1, <2>3 DEF q
<1>2. CASE r.stage # "live"
  <2>1. /\ q \in Run /\ Kept(r, q) /\ q.asked = r.asked /\ q.timer = r.timer
        /\ q.forced = IF r.forced = "none" /\ r.result = "none" THEN reason ELSE r.forced
    BY <1>0, <1>2, ForcedFacts DEF Cancelled
  <2> HIDE DEF q
  <2>3. RunOK(q)
    BY <1>2, <2>1 DEF RunOK, Unlaunched, GivenUp, GroupOK, Signalled, Placed, Kept
  <2> QED BY <1>2, <2>1, <2>3 DEF q
<1> QED BY <1>1, <1>2

-----------------------------------------------------------------------------
(* A step of the runs that reserves nothing.                               *)

\* What may become of a run.
Moves(r, q) ==
    /\ q.id = r.id /\ q.scope = r.scope /\ q.replace = r.replace /\ q.order = r.order
    /\ \/ q.stage = r.stage
       \/ r.stage = "fenced" /\ q.stage \in {"creating", "stillborn"}
       \/ r.stage = "creating" /\ q.stage \in {"live", "warning"}
       \/ r.stage \in {"stillborn", "warning"} /\ q.stage = "over"
    /\ q.stage = "fenced" => q.behind = r.behind
    /\ r.stage # "creating" => q.adapter = r.adapter
    /\ r.stage = "live" /\ Extinct(r) => Extinct(q)
    /\ r.asked => q.asked

\* A fence is passed when nobody is left behind it, and a replacement that passes
\* has the active runs of its scope signalled.
Step(rs, ts) ==
    /\ \A c \in Calls : Moves(rs[c], ts[c])
    /\ \A c \in Calls : rs[c].stage = "fenced" /\ ts[c].stage # "fenced" =>
           rs[c].behind \cap startingRuns(rs) = {}
    /\ \A c \in Calls : rs[c].stage = "fenced" /\ ts[c].stage = "creating" /\ rs[c].replace =>
           \A d \in active(rs) : rs[d].scope = rs[c].scope => ts[d].asked

LEMMA StepMaps ==
    ASSUME NEW rs, NEW ts, RunsOK(rs), RunsOK(ts), Step(rs, ts)
    PROVE  /\ startingRuns(ts) \subseteq startingRuns(rs)
           /\ Owned(ts) \subseteq Owned(rs)
           /\ \A c \in Calls : rs[c].stage = "fenced" => c \in startingRuns(ts)
           /\ \A c \in active(ts) : c \in active(rs) \/ rs[c].stage = "creating"
           /\ Used(ts) = Used(rs)
<1>1. startingRuns(ts) \subseteq startingRuns(rs)
  BY DEF Step, Moves, startingRuns
<1>2. \A c \in Calls : rs[c].stage = "fenced" => c \in startingRuns(ts)
  BY DEF Step, Moves, startingRuns
<1>3. \A c \in active(ts) : c \in active(rs) \/ rs[c].stage = "creating"
  BY DEF Step, Moves, active
<1>4. Owned(ts) \subseteq Owned(rs)
  <2>1. active(ts) \subseteq Calls
    BY DEF active
  <2>2. active(ts) \subseteq startingRuns(rs) \cup active(rs)
    BY <1>3, <2>1 DEF startingRuns
  <2> QED BY <1>1, <2>2 DEF Owned
<1>5. Used(ts) = Used(rs)
  BY DEF Step, Moves, Used
<1> QED BY <1>1, <1>2, <1>3, <1>4, <1>5

LEMMA StepOrders ==
    ASSUME NEW rs, NEW ts, RunsOK(rs), RunsOK(ts), Orders(rs), Step(rs, ts)
    PROVE  Orders(ts)
<1>1. /\ startingRuns(ts) \subseteq startingRuns(rs)
      /\ Owned(ts) \subseteq Owned(rs)
      /\ \A c \in Calls : rs[c].stage = "fenced" => c \in startingRuns(ts)
      /\ \A c \in active(ts) : c \in active(rs) \/ rs[c].stage = "creating"
      /\ Used(ts) = Used(rs)
  BY StepMaps
<1>2. \A c \in Calls : /\ ts[c].id = rs[c].id /\ ts[c].scope = rs[c].scope
                       /\ ts[c].replace = rs[c].replace /\ ts[c].order = rs[c].order
  BY DEF Step, Moves
<1>3. \A c, d \in Calls : Before(ts, d, c) <=> Before(rs, d, c)
  BY <1>2 DEF Before
<1>4. /\ startingRuns(rs) \subseteq Calls /\ active(rs) \subseteq Calls /\ Owned(rs) \subseteq Calls
      /\ \A c \in Calls : rs[c].order \in Nat
  <2>1. \A c \in Calls : rs[c] \in Run
    BY DEF RunsOK, RunOK
  <2>2. \A c \in Calls : rs[c].order \in Nat
    BY <2>1 DEF Run
  <2> QED BY <2>2 DEF startingRuns, active, Owned
<1>5. Ranked(ts)
  BY <1>1, <1>2 DEF Orders, Ranked
<1>6. Fenced(ts)
  <2>1. SUFFICES ASSUME NEW r \in Calls, NEW c \in startingRuns(ts), ts[r].replace, Before(ts, c, r)
                 PROVE  /\ ts[r].stage = "fenced" => c \in ts[r].behind
                        /\ ts[r].stage \notin {"creating", "live"}
    BY DEF Fenced
  <2>2. c \in startingRuns(rs) /\ rs[r].replace /\ Before(rs, c, r)
    BY <1>1, <1>2, <1>3, <1>4, <2>1
  <2>3. /\ rs[r].stage = "fenced" => c \in rs[r].behind
        /\ rs[r].stage \notin {"creating", "live"}
    BY <2>2 DEF Orders, Fenced
  <2>4. rs[r].stage = "fenced" => ts[r].stage = "fenced"
    BY <2>2, <2>3 DEF Step
  <2> QED BY <2>3, <2>4 DEF Step, Moves
<1>7. Held(ts)
  <2>1. SUFFICES ASSUME NEW r \in startingRuns(ts), NEW c \in Calls, ts[r].replace, Before(ts, r, c)
                 PROVE  /\ ts[c].stage = "fenced"
                        /\ \E d \in ts[c].behind \cap startingRuns(ts) :
                               ts[d].replace /\ ts[d].scope = ts[c].scope /\ ts[r].order <= ts[d].order
    BY DEF Held
  <2>2. r \in startingRuns(rs) /\ r \in Calls /\ rs[r].replace /\ Before(rs, r, c)
    BY <1>1, <1>2, <1>3, <1>4, <2>1
  <2>3. rs[c].stage = "fenced"
    BY <2>2 DEF Orders, Held
  <2>4. PICK d \in rs[c].behind \cap startingRuns(rs) :
            rs[d].replace /\ rs[d].scope = rs[c].scope /\ rs[r].order <= rs[d].order
    BY <2>2 DEF Orders, Held
  <2>5. ts[c].stage = "fenced" /\ ts[c].behind = rs[c].behind
    BY <2>3, <2>4 DEF Step, Moves
  <2>6. d \in startingRuns(ts)
    <3>1. CASE d = r
      BY <3>1, <2>1
    <3>2. CASE d # r
      <4>1. d \in Calls /\ rs[r].order # 0 /\ rs[r].order # rs[d].order
        BY <1>4, <2>2, <2>4, <3>2 DEF Before, Orders, Ranked
      <4>2. Before(rs, r, d)
        BY <1>4, <2>2, <2>4, <4>1 DEF Before
      <4>3. rs[d].stage = "fenced"
        BY <2>2, <4>1, <4>2 DEF Orders, Held
      <4> QED BY <1>1, <4>1, <4>3
    <3> QED BY <3>1, <3>2
  <2> QED BY <1>2, <1>4, <2>2, <2>4, <2>5, <2>6
<1>8. LastExists(ts)
  <2>1. SUFFICES ASSUME NEW r \in startingRuns(ts), ts[r].replace
                 PROVE  \E m \in startingRuns(ts) :
                            /\ ts[m].replace /\ ts[m].scope = ts[r].scope
                            /\ \A d \in startingRuns(ts) :
                                   ts[d].replace /\ ts[d].scope = ts[r].scope => ts[d].order <= ts[m].order
    BY DEF LastExists
  <2>2. r \in startingRuns(rs) /\ r \in Calls /\ rs[r].replace
    BY <1>1, <1>2, <1>4, <2>1
  <2>3. PICK m \in startingRuns(rs) :
            /\ rs[m].replace /\ rs[m].scope = rs[r].scope
            /\ \A d \in startingRuns(rs) :
                   rs[d].replace /\ rs[d].scope = rs[r].scope => rs[d].order <= rs[m].order
    BY <2>2 DEF Orders, LastExists
  <2>4. m \in startingRuns(ts)
    <3>1. CASE m = r
      BY <3>1, <2>1
    <3>2. CASE m # r
      <4>1. m \in Calls /\ rs[r].order # 0
        BY <1>4, <2>2 DEF RunsOK, RunOK, Placed, startingRuns
      <4>2. rs[r].order <= rs[m].order /\ rs[r].order # rs[m].order
        BY <2>2, <2>3, <3>2, <4>1 DEF Orders, Ranked
      <4>3. Before(rs, r, m)
        BY <1>4, <2>2, <2>3, <4>1, <4>2 DEF Before
      <4>4. rs[m].stage = "fenced"
        BY <2>2, <4>1, <4>3 DEF Orders, Held
      <4> QED BY <1>1, <4>1, <4>4
    <3> QED BY <3>1, <3>2
  <2> QED BY <1>1, <1>2, <1>4, <2>2, <2>3, <2>4
<1>9. Reused(ts)
  BY <1>1, <1>2 DEF Orders, Reused
<1>10. Superseded(ts)
  <2>1. SUFFICES ASSUME NEW r \in Calls, ts[r].replace, ts[r].stage \in {"creating", "live"},
                        NEW c \in active(ts), ts[c].scope = ts[r].scope, ts[c].order < ts[r].order
                 PROVE  ts[c].asked
    BY DEF Superseded
  <2>2. c \in Calls /\ rs[c].order # 0 /\ ts[c].order = rs[c].order
    BY <1>2, <2>1 DEF active, RunsOK, RunOK, Placed
  <2>3. rs[r].replace /\ Before(rs, c, r)
    BY <1>2, <2>1, <2>2 DEF Before
  <2>4. CASE rs[r].stage \in {"creating", "live"}
    <3>1. c \notin startingRuns(rs)
      BY <2>3, <2>4 DEF Orders, Fenced
    <3>2. c \in active(rs)
      BY <1>1, <2>2, <3>1 DEF startingRuns
    <3>3. rs[c].asked
      BY <2>3, <2>4, <3>2 DEF Orders, Superseded, Before
    <3> QED BY <2>2, <3>3 DEF Step, Moves
  <2>5. CASE rs[r].stage \notin {"creating", "live"}
    <3>1. rs[r].stage = "fenced" /\ ts[r].stage = "creating"
      BY <2>1, <2>5 DEF Step, Moves
    <3>2. rs[r].behind \cap startingRuns(rs) = {}
      BY <3>1 DEF Step
    <3>3. c \notin startingRuns(rs)
      BY <2>3, <3>1, <3>2 DEF Orders, Fenced
    <3>4. c \in active(rs)
      BY <1>1, <2>2, <3>3 DEF startingRuns
    <3> QED BY <2>3, <3>1, <3>4 DEF Step, Before
  <2> QED BY <2>4, <2>5
<1> QED BY <1>5, <1>6, <1>7, <1>8, <1>9, <1>10 DEF Orders

\* One run moves, and not past its fence.
LEMMA SingleStep ==
    ASSUME NEW rs, RunsOK(rs), NEW c \in Calls, NEW q, RunOK(q), Moves(rs[c], q),
           rs[c].stage = "fenced" => q.stage = "fenced"
    PROVE  RunsOK([rs EXCEPT ![c] = q]) /\ Step(rs, [rs EXCEPT ![c] = q])
<1> DEFINE ts == [rs EXCEPT ![c] = q]
<1>1. \A d \in Calls : ts[d] = IF d = c THEN q ELSE rs[d]
  BY DEF RunsOK
<1>2. ts \in [Calls -> Run] /\ \A d \in Calls : RunOK(ts[d])
  BY <1>1 DEF RunsOK, RunOK
<1> HIDE DEF ts
<1>3. \A d \in Calls : Moves(rs[d], ts[d])
  BY <1>1 DEF Moves
<1>4. \A d \in Calls : rs[d].stage = "fenced" => ts[d].stage = "fenced"
  BY <1>1
<1>5. RunsOK(ts)
  BY <1>2 DEF RunsOK
<1>6. Step(rs, ts)
  BY <1>3, <1>4 DEF Step
<1> QED BY <1>5, <1>6 DEF ts

LEMMA KeptMoves ==
    ASSUME NEW r, NEW q, Kept(r, q), r.asked => q.asked
    PROVE  Moves(r, q)
  BY KeptExtinct DEF Kept, Moves

\* The runs of a cancelled set move, and stay where they are.
LEMMA CancelRunsFacts ==
    ASSUME NEW rs, RunsOK(rs), NEW cs \in SUBSET Calls, \A c \in cs : rs[c].order # 0,
           NEW reason \in Reasons \ {"none"}
    PROVE  /\ RunsOK(CancelRuns(rs, cs, reason)) /\ Step(rs, CancelRuns(rs, cs, reason))
           /\ \A c \in Calls : Kept(rs[c], CancelRuns(rs, cs, reason)[c])
           /\ \A c \in cs : rs[c].stage = "live" =>
                  Extinct(rs[c]) \/ CancelRuns(rs, cs, reason)[c].asked
<1> DEFINE ts == CancelRuns(rs, cs, reason)
<1>1. \A c \in Calls : ts[c] = IF c \in cs THEN Cancelled(rs[c], reason) ELSE rs[c]
  BY DEF CancelRuns
<1>2. ts = [c \in Calls |-> ts[c]]
  BY DEF CancelRuns
<1> HIDE DEF ts
<1>3. ASSUME NEW c \in Calls
      PROVE  /\ RunOK(ts[c]) /\ Kept(rs[c], ts[c]) /\ (rs[c].asked => ts[c].asked)
             /\ c \in cs /\ rs[c].stage = "live" => Extinct(rs[c]) \/ ts[c].asked
  <2>1. CASE c \in cs
    BY <1>1, <2>1, CancelledFacts DEF RunsOK
  <2>2. CASE c \notin cs
    BY <1>1, <2>2 DEF RunsOK, Kept
  <2> QED BY <2>1, <2>2
<1>4. RunsOK(ts)
  <2>1. \A c \in Calls : ts[c] \in Run
    BY <1>3 DEF RunOK
  <2>2. ts \in [Calls -> Run]
    BY <1>2, <2>1
  <2> QED BY <1>3, <2>2 DEF RunsOK
<1>5. \A c \in Calls : Moves(rs[c], ts[c])
  BY <1>3, KeptMoves
<1>6. \A c \in Calls : ts[c].stage = rs[c].stage
  BY <1>3 DEF Kept
<1>7. Step(rs, ts)
  BY <1>5, <1>6 DEF Step
<1>8. \A c \in cs : rs[c].stage = "live" => Extinct(rs[c]) \/ ts[c].asked
  BY <1>3
<1> QED BY <1>3, <1>4, <1>7, <1>8 DEF ts

-----------------------------------------------------------------------------
(* startRun.                                                               *)

\* The runs that a start cancels.
Ousted(rs, c) ==
    {d \in active(rs) : rs[c].forced = "none" /\ rs[c].replace /\ rs[d].scope = rs[c].scope}

\* A start at its new stage, with or without the fence it has passed.
Launched(r, q) ==
    /\ q \in Run /\ q.stage = IF r.forced = "none" THEN "creating" ELSE "stillborn"
    /\ q.id = r.id /\ q.scope = r.scope /\ q.replace = r.replace /\ q.order = r.order
    /\ q.forced = r.forced /\ q.asked = r.asked /\ q.timer = r.timer
    /\ q.adapter = r.adapter /\ q.root = r.root /\ q.group = r.group /\ q.result = r.result

LEMMA StartedRuns ==
    ASSUME NEW rs, RunsOK(rs), NEW c \in Calls, rs[c].stage = "fenced",
           NEW ts, ts \in {Started(rs, c), [Started(rs, c) EXCEPT ![c].behind = {}]}
    PROVE  /\ ts = [d \in Calls |-> ts[d]] /\ Launched(rs[c], ts[c])
           /\ \A d \in Calls : d # c => ts[d] = CancelRuns(rs, Ousted(rs, c), "manual-cancel")[d]
<1> DEFINE us == CancelRuns(rs, Ousted(rs, c), "manual-cancel")
           stage == IF rs[c].forced = "none" THEN "creating" ELSE "stillborn"
<1>1. us = [d \in Calls |-> us[d]] /\ us[c] = rs[c]
  BY DEF CancelRuns, Ousted, active
<1>2. rs[c] \in Run /\ rs = [d \in Calls |-> rs[d]]
  BY DEF RunsOK, RunOK
<1>3. rs[c].forced # "none" => \A d \in Calls : us[d] = rs[d]
  BY DEF CancelRuns, Ousted
<1>4. /\ Started(rs, c) = [d \in Calls |-> IF d = c THEN [rs[c] EXCEPT !.stage = stage] ELSE us[d]]
  <2>1. CASE rs[c].forced = "none"
    <3>1. Started(rs, c) = [us EXCEPT ![c].stage = "creating"]
      <4>1. Ousted(rs, c) = {d \in active(rs) : rs[c].replace /\ rs[d].scope = rs[c].scope}
        BY <2>1 DEF Ousted
      <4> QED BY <2>1, <4>1 DEF Started
    <3> HIDE DEF us
    <3> QED BY <1>1, <2>1, <3>1
  <2>2. CASE rs[c].forced # "none"
    <3>1. Started(rs, c) = [rs EXCEPT ![c].stage = "stillborn"]
      BY <2>2 DEF Started
    <3> HIDE DEF us
    <3> QED BY <1>2, <1>3, <2>2, <3>1
  <2> QED BY <2>1, <2>2
<1> HIDE DEF us
<1>5. stage \in {"creating", "stillborn"}
  OBVIOUS
<1>6. CASE ts = Started(rs, c)
  <2>1. ts[c] = [rs[c] EXCEPT !.stage = stage]
    BY <1>4, <1>6
  <2>2. Launched(rs[c], ts[c])
    BY <1>2, <1>5, <2>1 DEF Launched, Run
  <2> QED BY <1>4, <1>6, <2>2 DEF us
<1>7. CASE ts = [Started(rs, c) EXCEPT ![c].behind = {}]
  <2>1. ts[c] = [rs[c] EXCEPT !.stage = stage, !.behind = {}]
    BY <1>4, <1>7
  <2>2. Launched(rs[c], ts[c])
    BY <1>2, <1>5, <2>1 DEF Launched, Run
  <2> QED BY <1>4, <1>7, <2>2 DEF us
<1> QED BY <1>6, <1>7

\* startRun behind a passed fence is a step of the runs.
LEMMA StartedStep ==
    ASSUME NEW rs, RunsOK(rs), NEW c \in Calls, rs[c].stage = "fenced",
           rs[c].behind \cap startingRuns(rs) = {},
           NEW ts, ts \in {Started(rs, c), [Started(rs, c) EXCEPT ![c].behind = {}]}
    PROVE  RunsOK(ts) /\ Step(rs, ts)
<1> DEFINE us == CancelRuns(rs, Ousted(rs, c), "manual-cancel")
<1>1. /\ ts = [d \in Calls |-> ts[d]] /\ Launched(rs[c], ts[c])
      /\ \A d \in Calls : d # c => ts[d] = us[d]
  BY StartedRuns
<1>2. /\ Ousted(rs, c) \in SUBSET Calls /\ \A d \in Ousted(rs, c) : rs[d].order # 0
      /\ \A d \in Ousted(rs, c) : rs[d].stage = "live" /\ ~Extinct(rs[d])
  BY DEF Ousted, active, RunsOK, RunOK, Placed
<1>3. "manual-cancel" \in Reasons \ {"none"}
  BY DEF Reasons
<1>4. /\ RunsOK(us) /\ Step(rs, us)
      /\ \A d \in Calls : Kept(rs[d], us[d])
      /\ \A d \in Ousted(rs, c) : rs[d].stage = "live" => Extinct(rs[d]) \/ us[d].asked
  BY <1>2, <1>3, CancelRunsFacts
<1> HIDE DEF us
<1>5. RunOK(ts[c])
  BY <1>1 DEF Launched, RunsOK, RunOK, Unlaunched, GivenUp, GroupOK, Signalled, Placed
<1>6. RunsOK(ts)
  <2>1. \A d \in Calls : RunOK(ts[d])
    BY <1>1, <1>4, <1>5 DEF RunsOK
  <2>2. \A d \in Calls : ts[d] \in Run
    BY <2>1 DEF RunOK
  <2>3. ts \in [Calls -> Run]
    BY <1>1, <2>2
  <2> QED BY <2>1, <2>3 DEF RunsOK
<1>7. Moves(rs[c], ts[c])
  BY <1>1 DEF Launched, Moves
<1>8. \A d \in Calls : Moves(rs[d], ts[d])
  BY <1>1, <1>4, <1>7 DEF Step
<1>9. \A d \in Calls : d # c => ts[d].stage = rs[d].stage
  BY <1>1, <1>4 DEF Kept
<1>10. rs[c].replace /\ ts[c].stage = "creating" =>
          \A d \in active(rs) : rs[d].scope = rs[c].scope => ts[d].asked
  <2>1. SUFFICES ASSUME rs[c].replace, ts[c].stage = "creating",
                        NEW d \in active(rs), rs[d].scope = rs[c].scope
                 PROVE  ts[d].asked
    OBVIOUS
  <2>2. d \in Calls /\ d # c /\ d \in Ousted(rs, c)
    BY <1>1, <2>1 DEF Ousted, active, Launched
  <2> QED BY <1>1, <1>2, <1>4, <2>2
<1> QED BY <1>6, <1>8, <1>9, <1>10 DEF Step

-----------------------------------------------------------------------------
(* spawn().                                                                *)

LEMMA OneMore ==
    ASSUME NEW U, NEW V, NEW c, IsFiniteSet(U), V = U \cup {c}, c \notin U
    PROVE  IsFiniteSet(V) /\ Cardinality(U) \in Nat /\ Cardinality(V) = Cardinality(U) + 1
<1>1. IsFiniteSet(U \cup {c}) /\ Cardinality(U \cup {c}) = IF c \in U THEN Cardinality(U) ELSE Cardinality(U) + 1
  BY FS_AddElement
<1>2. Cardinality(U) \in Nat
  BY FS_CardinalityType
<1> QED BY <1>1, <1>2

\* A refused call takes no place.
LEMMA Refused ==
    ASSUME NEW rs, RunsOK(rs), Orders(rs), NEW c \in Calls, rs[c].stage = "unused",
           NEW ts, ts = [rs EXCEPT ![c].stage = "over"]
    PROVE  RunsOK(ts) /\ Orders(ts) /\ startingRuns(ts) = startingRuns(rs) /\ active(ts) = active(rs)
<1> DEFINE q == [rs[c] EXCEPT !.stage = "over"]
<1>1. rs[c] \in Run /\ rs \in [Calls -> Run]
  BY DEF RunsOK, RunOK
<1>2. /\ q \in Run /\ q.stage = "over"
      /\ q.id = rs[c].id /\ q.scope = rs[c].scope /\ q.replace = rs[c].replace /\ q.order = rs[c].order
      /\ q.forced = rs[c].forced /\ q.asked = rs[c].asked /\ q.timer = rs[c].timer
      /\ q.adapter = rs[c].adapter /\ q.root = rs[c].root /\ q.group = rs[c].group
      /\ q.result = rs[c].result
  BY <1>1 DEF Run
<1>3. ts = [d \in Calls |-> IF d = c THEN q ELSE rs[d]]
  BY <1>1
<1> HIDE DEF q
<1>4. RunOK(q) /\ rs[c].order = 0
  BY <1>2 DEF RunsOK, RunOK, Unlaunched, GivenUp, GroupOK, Signalled, Placed
<1>5. RunsOK(ts)
  BY <1>3, <1>4, <1>1 DEF RunsOK, RunOK
<1>6. startingRuns(ts) = startingRuns(rs) /\ active(ts) = active(rs) /\ c \notin startingRuns(rs)
  BY <1>2, <1>3 DEF startingRuns, active
<1>7. \A d \in Calls : /\ ts[d].id = rs[d].id /\ ts[d].scope = rs[d].scope
                       /\ ts[d].replace = rs[d].replace /\ ts[d].order = rs[d].order
                       /\ d # c => ts[d] = rs[d]
  BY <1>2, <1>3
<1>8. ts[c].stage = "over" /\ rs[c].order = 0
  BY <1>2, <1>3, <1>4
<1>9. startingRuns(rs) \subseteq Calls /\ active(rs) \subseteq Calls /\ c \notin active(rs)
  BY DEF startingRuns, active
<1>10. Ranked(ts)
  <2>1. Used(ts) = Used(rs) \cup {c} /\ c \notin Used(rs)
    BY <1>7, <1>8 DEF Used
  <2>2. IsFiniteSet(Used(rs))
    BY DEF Orders, Ranked
  <2>3. /\ IsFiniteSet(Used(ts)) /\ Cardinality(Used(rs)) \in Nat
        /\ Cardinality(Used(ts)) = Cardinality(Used(rs)) + 1
    BY <2>1, <2>2, OneMore
  <2>4. \A d \in Calls : rs[d].order \in Nat /\ rs[d].order <= Cardinality(Used(rs))
    BY <1>1 DEF Run, Orders, Ranked
  <2>5. \A d \in Calls : ts[d].order <= Cardinality(Used(ts))
    BY <1>7, <2>3, <2>4
  <2>6. \A x, y \in Calls : ts[x].order # 0 /\ ts[x].order = ts[y].order => x = y
    BY <1>7 DEF Orders, Ranked
  <2> QED BY <2>3, <2>5, <2>6 DEF Ranked
<1>11. Fenced(ts) /\ Held(ts)
  <2>1. \A r, d \in Calls : Before(ts, d, r) <=> Before(rs, d, r)
    BY <1>7 DEF Before
  <2>2. \A r, d \in Calls : Before(rs, d, r) => r # c
    <3>1. \A d \in Calls : rs[d].order \in Nat
      BY <1>1 DEF Run
    <3> QED BY <1>8, <3>1 DEF Before
  <2>3. Fenced(ts)
    BY <1>6, <1>7, <1>9, <2>1, <2>2 DEF Orders, Fenced
  <2>4. Held(ts)
    <3>1. SUFFICES ASSUME NEW r \in startingRuns(ts), NEW x \in Calls, ts[r].replace, Before(ts, r, x)
                   PROVE  /\ ts[x].stage = "fenced"
                          /\ \E d \in ts[x].behind \cap startingRuns(ts) :
                                 ts[d].replace /\ ts[d].scope = ts[x].scope /\ ts[r].order <= ts[d].order
      BY DEF Held
    <3>2. r \in startingRuns(rs) /\ r \in Calls /\ rs[r].replace /\ Before(rs, r, x) /\ ts[x] = rs[x]
      BY <1>6, <1>7, <1>9, <2>1, <2>2, <3>1
    <3>3. /\ rs[x].stage = "fenced"
          /\ \E d \in rs[x].behind \cap startingRuns(rs) :
                 rs[d].replace /\ rs[d].scope = rs[x].scope /\ rs[r].order <= rs[d].order
      BY <3>2 DEF Orders, Held
    <3> QED BY <1>6, <1>7, <1>9, <3>2, <3>3
  <2> QED BY <2>3, <2>4
<1>12. LastExists(ts)
  <2>1. \A d \in startingRuns(rs) : ts[d] = rs[d]
    BY <1>6, <1>7, <1>9
  <2>2. SUFFICES ASSUME NEW r \in startingRuns(ts), ts[r].replace
                 PROVE  \E m \in startingRuns(ts) :
                            /\ ts[m].replace /\ ts[m].scope = ts[r].scope
                            /\ \A d \in startingRuns(ts) :
                                   ts[d].replace /\ ts[d].scope = ts[r].scope => ts[d].order <= ts[m].order
    BY DEF LastExists
  <2>3. PICK m \in startingRuns(rs) :
            /\ rs[m].replace /\ rs[m].scope = rs[r].scope
            /\ \A d \in startingRuns(rs) :
                   rs[d].replace /\ rs[d].scope = rs[r].scope => rs[d].order <= rs[m].order
    BY <1>6, <2>1, <2>2 DEF Orders, LastExists
  <2> QED BY <1>6, <2>1, <2>2, <2>3
<1>13. Reused(ts)
  BY <1>6, <1>7 DEF Orders, Reused, Owned
<1>14. Superseded(ts)
  BY <1>6, <1>7, <1>8, <1>9 DEF Orders, Superseded
<1> QED BY <1>5, <1>6, <1>10, <1>11, <1>12, <1>13, <1>14 DEF Orders

\* The reservation that spawn() makes.
Reservation(rs, i, scope, replace) ==
    [Unused EXCEPT !.stage = "fenced", !.id = i, !.scope = scope, !.replace = replace,
                   !.order = 1 + Cardinality({d \in Calls : rs[d].stage # "unused"}),
                   !.behind = Previous(rs, scope, replace)]

LEMMA ReservationFacts ==
    ASSUME NEW rs, RunsOK(rs), Orders(rs), NEW i \in Ids, NEW scope \in Scopes, NEW replace \in BOOLEAN,
           NEW q, q = Reservation(rs, i, scope, replace)
    PROVE  /\ RunOK(q) /\ q.stage = "fenced" /\ q.id = i /\ q.scope = scope /\ q.replace = replace
           /\ q.behind = Previous(rs, scope, replace) /\ q.forced = "none"
           /\ \A d \in Calls : rs[d].order < q.order
           /\ q.order = Cardinality(Used(rs)) + 1
<1> DEFINE n == 1 + Cardinality({d \in Calls : rs[d].stage # "unused"})
           b == Previous(rs, scope, replace)
<1>1. n \in Nat /\ n = Cardinality(Used(rs)) + 1 /\ n # 0
  <2>1. Cardinality(Used(rs)) \in Nat
    BY FS_CardinalityType DEF Orders, Ranked
  <2> QED BY <2>1 DEF Used
<1>2. b \in SUBSET Calls
  BY DEF Previous, startingRuns
<1>3. \A d \in Calls : rs[d].order < n
  <2>1. \A d \in Calls : rs[d].order \in Nat
    BY DEF RunsOK, Run
  <2>2. Cardinality(Used(rs)) \in Nat
    BY FS_CardinalityType DEF Orders, Ranked
  <2> QED BY <1>1, <2>1, <2>2 DEF Orders, Ranked
<1>4. q = [Unused EXCEPT !.stage = "fenced", !.id = i, !.scope = scope, !.replace = replace,
                         !.order = n, !.behind = b]
  BY DEF Reservation
<1> HIDE DEF n, b
<1>5. /\ q.stage = "fenced" /\ q.id = i /\ q.scope = scope /\ q.replace = replace
      /\ q.behind = b /\ q.forced = "none" /\ q.order = n
      /\ q.adapter = "none" /\ q.root = "none" /\ q.group = "none" /\ q.result = "none"
      /\ q.asked = FALSE /\ q.timer = "none"
  BY <1>4 DEF Unused
<1>6. q \in Run
  BY <1>1, <1>2, <1>4 DEF Unused, Run, Reasons
<1>7. RunOK(q)
  BY <1>1, <1>5, <1>6 DEF RunOK, Unlaunched, GivenUp, GroupOK, Signalled, Placed
<1> QED BY <1>1, <1>3, <1>5, <1>7 DEF b

\* It keeps the order, whatever it has to wait for.
LEMMA Reserved ==
    ASSUME NEW rs, RunsOK(rs), Orders(rs), NEW c \in Calls, rs[c].stage = "unused",
           NEW i \in Ids, NEW scope \in Scopes, NEW replace \in BOOLEAN, ~Taken(rs, i),
           NEW ts, ts = [rs EXCEPT ![c] = Reservation(rs, i, scope, replace)]
    PROVE  RunsOK(ts) /\ Orders(ts)
<1> DEFINE q == Reservation(rs, i, scope, replace)
<1>1. /\ RunOK(q) /\ q.stage = "fenced" /\ q.id = i /\ q.scope = scope /\ q.replace = replace
      /\ q.behind = Previous(rs, scope, replace) /\ q.forced = "none"
      /\ \A d \in Calls : rs[d].order < q.order
      /\ q.order = Cardinality(Used(rs)) + 1
  BY ReservationFacts
<1>2. \A d \in Calls : ts[d] = IF d = c THEN q ELSE rs[d]
  BY DEF RunsOK
<1>3. ts \in [Calls -> Run]
  BY <1>1 DEF RunsOK, RunOK
<1> HIDE DEF q
<1>4. RunsOK(ts)
  BY <1>1, <1>2, <1>3 DEF RunsOK
<1>5. /\ startingRuns(ts) = startingRuns(rs) \cup {c} /\ active(ts) = active(rs)
      /\ c \notin startingRuns(rs) /\ c \notin active(rs)
      /\ startingRuns(rs) \subseteq Calls /\ active(rs) \subseteq Calls
  BY <1>1, <1>2 DEF startingRuns, active
<1>6. /\ ts[c] = q /\ \A d \in Calls : d # c => ts[d] = rs[d]
      /\ \A d \in Calls : rs[d].order \in Nat /\ ts[d].order \in Nat
      /\ \A d \in Calls : d # c => ts[d].order < ts[c].order
  <2>1. ts[c] = q /\ \A d \in Calls : d # c => ts[d] = rs[d]
    BY <1>2
  <2>2. \A d \in Calls : rs[d].order \in Nat /\ ts[d].order \in Nat
    BY <1>3 DEF RunsOK, Run
  <2> QED BY <1>1, <2>1, <2>2
<1>7. Ranked(ts)
  <2>1. Used(ts) = Used(rs) \cup {c} /\ c \notin Used(rs)
    BY <1>1, <1>2 DEF Used
  <2>2. /\ IsFiniteSet(Used(ts)) /\ Cardinality(Used(rs)) \in Nat
        /\ Cardinality(Used(ts)) = Cardinality(Used(rs)) + 1
    BY <2>1, OneMore DEF Orders, Ranked
  <2>3. \A d \in Calls : ts[d].order <= Cardinality(Used(ts))
    BY <1>1, <1>6, <2>2 DEF Orders, Ranked
  <2>4. ASSUME NEW x \in Calls, NEW y \in Calls, ts[x].order # 0, ts[x].order = ts[y].order PROVE x = y
    <3>1. CASE x = c \/ y = c
      BY <1>6, <2>4, <3>1
    <3>2. CASE x # c /\ y # c
      BY <1>6, <2>4, <3>2 DEF Orders, Ranked
    <3> QED BY <3>1, <3>2
  <2> QED BY <2>2, <2>3, <2>4 DEF Ranked
<1>8. Fenced(ts)
  <2>1. SUFFICES ASSUME NEW r \in Calls, NEW x \in startingRuns(ts), ts[r].replace, Before(ts, x, r)
                 PROVE  /\ ts[r].stage = "fenced" => x \in ts[r].behind
                        /\ ts[r].stage \notin {"creating", "live"}
    BY DEF Fenced
  <2>2. x # c /\ x \in startingRuns(rs) /\ x \in Calls
    <3>1. ts[x].order < ts[r].order /\ x \in Calls
      BY <1>5, <2>1 DEF Before
    <3>2. ~(ts[c].order < ts[r].order)
      BY <1>6
    <3> QED BY <1>5, <3>1, <3>2
  <2>3. CASE r = c
    BY <1>1, <1>6, <2>1, <2>2, <2>3 DEF Before, Previous
  <2>4. CASE r # c
    BY <1>6, <2>1, <2>2, <2>4 DEF Before, Orders, Fenced
  <2> QED BY <2>3, <2>4
<1>9. Held(ts)
  <2>1. SUFFICES ASSUME NEW r \in startingRuns(ts), NEW x \in Calls, ts[r].replace, Before(ts, r, x)
                 PROVE  /\ ts[x].stage = "fenced"
                        /\ \E d \in ts[x].behind \cap startingRuns(ts) :
                               ts[d].replace /\ ts[d].scope = ts[x].scope /\ ts[r].order <= ts[d].order
    BY DEF Held
  <2>2. r # c /\ r \in startingRuns(rs) /\ r \in Calls /\ rs[r].replace
    <3>1. ts[r].order < ts[x].order /\ r \in Calls
      BY <1>5, <2>1 DEF Before
    <3>2. ~(ts[c].order < ts[x].order)
      BY <1>6
    <3> QED BY <1>5, <1>6, <2>1, <3>1, <3>2
  <2>3. CASE x # c
    <3>1. /\ rs[x].stage = "fenced"
          /\ \E d \in rs[x].behind \cap startingRuns(rs) :
                 rs[d].replace /\ rs[d].scope = rs[x].scope /\ rs[r].order <= rs[d].order
      BY <1>6, <2>1, <2>2, <2>3 DEF Before, Orders, Held
    <3> QED BY <1>5, <1>6, <2>2, <2>3, <3>1
  <2>4. CASE x = c
    <3>1. r \in {d \in startingRuns(rs) : rs[d].scope = scope}
      BY <1>1, <1>6, <2>1, <2>2, <2>4 DEF Before
    <3>2. PICK m \in startingRuns(rs) :
              /\ rs[m].replace /\ rs[m].scope = rs[r].scope
              /\ \A d \in startingRuns(rs) :
                     rs[d].replace /\ rs[d].scope = rs[r].scope => rs[d].order <= rs[m].order
      BY <2>2 DEF Orders, LastExists
    <3>3. m \in Previous(rs, scope, replace) /\ rs[r].order <= rs[m].order
      BY <2>2, <3>1, <3>2 DEF Previous
    <3>4. m \in Calls /\ m # c /\ ts[m] = rs[m] /\ ts[r] = rs[r]
      BY <1>5, <1>6, <2>2, <3>2
    <3>5. ts[x].stage = "fenced" /\ ts[x].scope = scope /\ m \in ts[x].behind
      BY <1>1, <1>6, <2>4, <3>3
    <3>6. m \in startingRuns(ts) /\ ts[m].replace /\ ts[m].scope = ts[x].scope /\ ts[r].order <= ts[m].order
      BY <1>5, <3>1, <3>2, <3>3, <3>4, <3>5
    <3> QED BY <3>5, <3>6
  <2> QED BY <2>3, <2>4
<1>10. LastExists(ts)
  <2>1. SUFFICES ASSUME NEW r \in startingRuns(ts), ts[r].replace
                 PROVE  \E m \in startingRuns(ts) :
                            /\ ts[m].replace /\ ts[m].scope = ts[r].scope
                            /\ \A d \in startingRuns(ts) :
                                   ts[d].replace /\ ts[d].scope = ts[r].scope => ts[d].order <= ts[m].order
    BY DEF LastExists
  <2>2. CASE ts[c].replace /\ ts[c].scope = ts[r].scope
    <3>1. ASSUME NEW d \in startingRuns(ts) PROVE ts[d].order <= ts[c].order
      <4>1. d \in Calls /\ ts[d].order \in Nat /\ ts[c].order \in Nat
        BY <1>5, <1>6
      <4>2. d = c \/ ts[d].order < ts[c].order
        BY <1>6, <4>1
      <4> QED BY <4>1, <4>2
    <3> QED BY <1>5, <2>2, <3>1
  <2>3. CASE ~(ts[c].replace /\ ts[c].scope = ts[r].scope)
    <3>1. r # c /\ r \in startingRuns(rs) /\ r \in Calls /\ rs[r] = ts[r]
      BY <1>5, <1>6, <2>1, <2>3
    <3>2. PICK m \in startingRuns(rs) :
              /\ rs[m].replace /\ rs[m].scope = rs[r].scope
              /\ \A d \in startingRuns(rs) :
                     rs[d].replace /\ rs[d].scope = rs[r].scope => rs[d].order <= rs[m].order
      BY <2>1, <3>1 DEF Orders, LastExists
    <3>3. m \in startingRuns(ts) /\ m # c /\ ts[m] = rs[m]
      BY <1>5, <1>6, <3>2
    <3>4. ASSUME NEW d \in startingRuns(ts), ts[d].replace, ts[d].scope = ts[r].scope
          PROVE  ts[d].order <= ts[m].order
      <4>1. d # c /\ d \in startingRuns(rs) /\ ts[d] = rs[d]
        BY <1>5, <1>6, <2>3, <3>4
      <4> QED BY <3>1, <3>2, <3>3, <3>4, <4>1
    <3> QED BY <3>1, <3>2, <3>3, <3>4
  <2> QED BY <2>2, <2>3
<1>11. Reused(ts)
  <2>1. SUFFICES ASSUME NEW x \in Calls, NEW d \in Calls,
                        ts[d].order # 0, ts[d].order < ts[x].order, ts[d].id = ts[x].id
                 PROVE  d \notin Owned(ts)
    BY DEF Reused
  <2>2. d # c
    BY <1>6, <2>1
  <2>3. d \notin Owned(rs)
    <3>1. CASE x = c
      BY <1>1, <1>6, <2>1, <2>2, <3>1 DEF Taken
    <3>2. CASE x # c
      BY <1>6, <2>1, <2>2, <3>2 DEF Orders, Reused
    <3> QED BY <3>1, <3>2
  <2> QED BY <1>5, <2>2, <2>3 DEF Owned
<1>12. Superseded(ts)
  BY <1>1, <1>5, <1>6 DEF Orders, Superseded
<1> QED BY <1>4, <1>7, <1>8, <1>9, <1>10, <1>11, <1>12 DEF Orders

-----------------------------------------------------------------------------
(* The steps of one run.                                                   *)

\* createAdapter settles with an adapter: a cancellation that came first is applied.
LEMMA AdoptedFacts ==
    ASSUME NEW r, RunOK(r), r.stage = "creating", NEW kind \in Adapters
    PROVE  /\ RunOK(Adopted(r, kind)) /\ Moves(r, Adopted(r, kind))
           /\ Adopted(r, kind).stage = "live" /\ Adopted(r, kind).forced = r.forced
           /\ Adopted(r, kind).result = "none"
<1> DEFINE g == IF kind = "relay" THEN "held" ELSE "none"
           live == [r EXCEPT !.stage = "live", !.adapter = kind, !.root = "running", !.group = g]
           q == Adopted(r, kind)
<1>1. g \in {"held", "none"} /\ (kind = "relay" <=> g # "none") /\ kind # "none"
  BY AdapterAssumption
<1>2. q = IF r.forced = "none" THEN live ELSE RequestCancel(live, r.forced)
  BY DEF Adopted
<1> HIDE DEF g
<1>3. r \in Run /\ r.result = "none" /\ r.asked = FALSE
  BY DEF RunOK, Unlaunched
<1>4. /\ live \in Run /\ live.stage = "live" /\ live.id = r.id /\ live.scope = r.scope
      /\ live.replace = r.replace /\ live.order = r.order /\ live.behind = r.behind
      /\ live.forced = r.forced /\ live.asked = r.asked /\ live.adapter = kind
      /\ live.root = "running" /\ live.group = g /\ live.result = r.result
  BY <1>1, <1>3 DEF Run
<1>5. ~Extinct(live)
  BY <1>1, <1>3, <1>4 DEF Extinct
<1> HIDE DEF live, q
<1>6. q \in Run /\ Kept(live, q) /\ q.forced = r.forced /\ (r.forced # "none" => q.asked)
  <2>1. CASE r.forced = "none"
    BY <1>2, <1>4, <2>1 DEF Kept
  <2>2. CASE r.forced # "none"
    <3>1. r.forced \in Reasons \ {"none"}
      BY <1>3, <2>2 DEF Run
    <3>2. /\ RequestCancel(live, r.forced) \in Run /\ Kept(live, RequestCancel(live, r.forced))
          /\ RequestCancel(live, r.forced).forced =
                 IF live.forced = "none" /\ live.result = "none" THEN r.forced ELSE live.forced
          /\ Extinct(live) \/ RequestCancel(live, r.forced).asked
      BY <1>4, <3>1, RequestCancelFacts
    <3> QED BY <1>2, <1>4, <1>5, <2>2, <3>2
  <2> QED BY <2>1, <2>2
<1>7. ~Extinct(q)
  BY <1>5, <1>6, KeptExtinct
<1>8. RunOK(q)
  BY <1>1, <1>3, <1>4, <1>6, <1>7 DEF RunOK, Unlaunched, GivenUp, GroupOK, Signalled, Placed, Kept
<1>9. Moves(r, q)
  BY <1>3, <1>4, <1>6 DEF Moves, Kept
<1> QED BY <1>3, <1>4, <1>6, <1>8, <1>9 DEF Kept, q

\* A start that got no process moves on.
LEMMA RestagedFacts ==
    ASSUME NEW r, RunOK(r), NEW s \in {"warning", "over"},
           IF s = "warning" THEN r.stage = "creating" ELSE r.stage \in {"stillborn", "warning"}
    PROVE  /\ RunOK([r EXCEPT !.stage = s]) /\ Moves(r, [r EXCEPT !.stage = s])
           /\ [r EXCEPT !.stage = s].stage = s /\ [r EXCEPT !.stage = s].forced = r.forced
<1> DEFINE q == [r EXCEPT !.stage = s]
<1>1. r \in Run
  BY DEF RunOK
<1>2. /\ q \in Run /\ q.stage = s
      /\ q.id = r.id /\ q.scope = r.scope /\ q.replace = r.replace /\ q.order = r.order
      /\ q.forced = r.forced /\ q.asked = r.asked /\ q.timer = r.timer
      /\ q.adapter = r.adapter /\ q.root = r.root /\ q.group = r.group /\ q.result = r.result
  BY <1>1 DEF Run
<1> HIDE DEF q
<1>3. RunOK(q)
  BY <1>2 DEF RunOK, Unlaunched, GivenUp, GroupOK, Signalled, Placed
<1>4. Moves(r, q)
  BY <1>2 DEF Moves
<1> QED BY <1>2, <1>3, <1>4 DEF q

\* What a step of a live run has to respect.
LEMMA LiveMoves ==
    ASSUME NEW r, RunOK(r), r.stage = "live", NEW q \in Run, q.stage = "live",
           q.id = r.id, q.scope = r.scope, q.replace = r.replace, q.order = r.order,
           q.adapter = r.adapter, Extinct(r) => Extinct(q), r.asked => q.asked,
           GivenUp(q), GroupOK(q), Signalled(q)
    PROVE  RunOK(q) /\ Moves(r, q)
<1>1. RunOK(q)
  BY DEF RunOK, Unlaunched, Placed
<1>2. Moves(r, q)
  BY DEF Moves
<1> QED BY <1>1, <1>2

\* One that only cancels or signals respects it.
LEMMA LiveKept ==
    ASSUME NEW r, RunOK(r), r.stage = "live", NEW q \in Run, Kept(r, q), r.asked => q.asked,
           q.forced = r.forced \/ Extinct(r) \/ q.asked
    PROVE  RunOK(q) /\ Moves(r, q)
<1>1. Extinct(q) <=> Extinct(r)
  BY KeptExtinct
<1>2. GivenUp(q) /\ GroupOK(q) /\ Signalled(q)
  BY <1>1 DEF RunOK, GivenUp, GroupOK, Signalled, Kept
<1>3. /\ q.stage = "live" /\ q.id = r.id /\ q.scope = r.scope /\ q.replace = r.replace
      /\ q.order = r.order /\ q.adapter = r.adapter
  BY DEF Kept
<1> QED BY <1>1, <1>2, <1>3, LiveMoves

LEMMA FailedFacts ==
    ASSUME NEW r \in Run
    PROVE  /\ [r EXCEPT !.failed = TRUE] \in Run /\ Kept(r, [r EXCEPT !.failed = TRUE])
           /\ [r EXCEPT !.failed = TRUE].forced = r.forced
           /\ [r EXCEPT !.failed = TRUE].asked = r.asked
  BY DEF Run, Kept

\* The command ends.
LEMMA RootEndsFacts ==
    ASSUME NEW r, RunOK(r), r.root = "running"
    PROVE  /\ RunOK([r EXCEPT !.root = "ended"]) /\ Moves(r, [r EXCEPT !.root = "ended"])
           /\ [r EXCEPT !.root = "ended"].stage = r.stage
           /\ [r EXCEPT !.root = "ended"].forced = r.forced
           /\ [r EXCEPT !.root = "ended"].result = r.result
<1> DEFINE q == [r EXCEPT !.root = "ended"]
<1>1. r \in Run /\ r.stage = "live"
  BY DEF RunOK, Unlaunched
<1>2. /\ q \in Run /\ q.stage = r.stage /\ q.root = "ended"
      /\ q.id = r.id /\ q.scope = r.scope /\ q.replace = r.replace /\ q.order = r.order
      /\ q.forced = r.forced /\ q.asked = r.asked
      /\ q.adapter = r.adapter /\ q.group = r.group /\ q.result = r.result
  BY <1>1 DEF Run
<1> HIDE DEF q
<1>3. Extinct(q) <=> Extinct(r)
  BY <1>2 DEF Extinct
<1>4. GivenUp(q) /\ GroupOK(q) /\ Signalled(q)
  BY <1>2, <1>3 DEF RunOK, GivenUp, GroupOK, Signalled
<1>5. RunOK(q) /\ Moves(r, q)
  BY <1>1, <1>2, <1>3, <1>4, LiveMoves
<1> QED BY <1>2, <1>5 DEF q

\* failInput kills the command.
LEMMA InputFailsFacts ==
    ASSUME NEW r, RunOK(r), r.stage = "live", NEW q, q = Kill([r EXCEPT !.failed = TRUE], "KILL")
    PROVE  RunOK(q) /\ Moves(r, q) /\ q.stage = r.stage /\ q.forced = r.forced /\ q.result = r.result
<1> DEFINE f == [r EXCEPT !.failed = TRUE]
<1>1. r \in Run
  BY DEF RunOK
<1>2. f \in Run /\ Kept(r, f) /\ f.forced = r.forced /\ f.asked = r.asked
  BY <1>1, FailedFacts
<1> HIDE DEF f
<1>3. q \in Run /\ Kept(f, q) /\ q.forced = f.forced /\ q.asked = f.asked
  BY <1>2, KillFacts DEF f
<1>4. Kept(r, q)
  BY <1>2, <1>3 DEF Kept
<1>5. RunOK(q) /\ Moves(r, q)
  BY <1>2, <1>3, <1>4, LiveKept
<1> QED BY <1>2, <1>3, <1>4, <1>5 DEF Kept

\* A throwing listener cancels its run.
LEMMA ListenerThrowsFacts ==
    ASSUME NEW r, RunOK(r), r.stage = "live", r.result = "none",
           NEW q, q = RequestCancel([r EXCEPT !.failed = TRUE], "spawn-error")
    PROVE  /\ RunOK(q) /\ Moves(r, q) /\ q.stage = r.stage /\ q.result = r.result
           /\ q.forced = IF r.forced = "none" THEN "spawn-error" ELSE r.forced
<1> DEFINE f == [r EXCEPT !.failed = TRUE]
<1>1. r \in Run /\ "spawn-error" \in Reasons \ {"none"}
  BY DEF RunOK, Reasons
<1>2. f \in Run /\ Kept(r, f) /\ f.forced = r.forced /\ f.asked = r.asked
  BY <1>1, FailedFacts
<1>3. q = RequestCancel(f, "spawn-error")
  OBVIOUS
<1> HIDE DEF f
<1>4. /\ q \in Run /\ Kept(f, q) /\ (Extinct(f) \/ q.asked) /\ (f.asked => q.asked)
      /\ q.forced = IF f.forced = "none" /\ f.result = "none" THEN "spawn-error" ELSE f.forced
  BY <1>1, <1>2, <1>3, RequestCancelFacts
<1>5. Extinct(f) <=> Extinct(r)
  BY <1>2, KeptExtinct
<1>6. Kept(r, q)
  BY <1>2, <1>4 DEF Kept
<1>7. RunOK(q) /\ Moves(r, q)
  BY <1>2, <1>4, <1>5, <1>6, LiveKept
<1> QED BY <1>2, <1>4, <1>6, <1>7 DEF Kept

\* The kill timer fires.
LEMMA ForceKillFacts ==
    ASSUME NEW r, RunOK(r), r.timer = "armed", NEW q, q = [Kill(r, "KILL") EXCEPT !.timer = "fired"]
    PROVE  RunOK(q) /\ Moves(r, q) /\ q.stage = r.stage /\ q.forced = r.forced /\ q.result = r.result
<1> DEFINE k == Kill(r, "KILL")
<1>1. r \in Run /\ r.stage = "live"
  BY DEF RunOK, Unlaunched
<1>2. k \in Run /\ Kept(r, k) /\ k.forced = r.forced /\ k.asked = r.asked
  BY <1>1, KillFacts
<1> HIDE DEF k
<1>3. q \in Run /\ Kept(k, q) /\ q.forced = k.forced /\ q.asked = k.asked
  BY <1>2 DEF k, Run, Kept
<1>4. Kept(r, q)
  BY <1>2, <1>3 DEF Kept
<1>5. RunOK(q) /\ Moves(r, q)
  BY <1>1, <1>2, <1>3, <1>4, LiveKept
<1> QED BY <1>2, <1>3, <1>4, <1>5 DEF Kept

LEMMA ReleasedFacts ==
    ASSUME NEW f \in Run
    PROVE  /\ Released(f) \in Run /\ Kept(f, Released(f))
           /\ Released(f).forced = f.forced /\ Released(f).asked = f.asked
<1> DEFINE k == [f EXCEPT !.timer = "none"]
<1>1. k \in Run /\ Kept(f, k) /\ k.forced = f.forced /\ k.asked = f.asked
  BY DEF Run, Kept
<1>2. Released(f) = f \/ Released(f) = k
  BY DEF Released
<1> HIDE DEF k
<1> QED BY <1>1, <1>2 DEF Kept

\* The result and the end of the group of a live run.
LEMMA EndFacts ==
    ASSUME NEW r, RunOK(r), r.stage = "live",
           NEW result \in {"none", "resolved", "rejected"}, r.result = "none" \/ result = r.result,
           NEW group \in {"none", "held", "extinct", "lost"},
           group = r.group \/ (r.group = "held" /\ group \in {"extinct", "lost"}),
           r.root = "ended" \/ group = "lost",
           NEW f \in Run, f.result = result, f.group = group, f.stage = "live",
           f.id = r.id, f.scope = r.scope, f.replace = r.replace, f.order = r.order,
           f.forced = r.forced, f.asked = r.asked, f.adapter = r.adapter, f.root = r.root,
           NEW q, q = Released(f)
    PROVE  RunOK(q) /\ Moves(r, q) /\ q.stage = "live" /\ q.forced = r.forced /\ q.result = result
<1>1. r \in Run
  BY DEF RunOK
<1>2. q \in Run /\ Kept(f, q) /\ q.forced = f.forced /\ q.asked = f.asked
  BY ReleasedFacts
<1>3. /\ q \in Run /\ q.stage = "live" /\ q.result = result /\ q.group = group
      /\ q.id = r.id /\ q.scope = r.scope /\ q.replace = r.replace /\ q.order = r.order
      /\ q.forced = r.forced /\ q.asked = r.asked /\ q.adapter = r.adapter /\ q.root = r.root
  BY <1>2 DEF Kept
<1>4. Extinct(r) => Extinct(q)
  BY <1>3 DEF Extinct
<1>5. GivenUp(q) /\ GroupOK(q) /\ Signalled(q)
  BY <1>1, <1>3, <1>4 DEF RunOK, GivenUp, GroupOK, Signalled
<1>6. RunOK(q) /\ Moves(r, q)
  BY <1>3, <1>4, <1>5, LiveMoves
<1> QED BY <1>3, <1>6

-----------------------------------------------------------------------------
(* The registry's operations.                                              *)

States == {"none", "starting", "running", "exiting", "exited"}

\* A record is kept, or was exited and is dropped.
Erased(p, q) == q = p \/ (p.state = "exited" /\ q = NoRecord)

LEMMA AddFacts ==
    ASSUME NEW g, IsReg(g), NEW i \in Ids, NEW state \in States, NEW reason \in Reasons
    PROVE  /\ IsReg(Add(g, i, state, reason))
           /\ \A j \in Ids : Add(g, i, state, reason).rec[j] =
                  IF j = i THEN [state |-> state, reason |-> reason] ELSE g.rec[j]
  BY DEF Add, IsReg, Record, States

\* The registry with one record and its counter replaced.
LEMMA RegExcept ==
    ASSUME NEW g, IsReg(g), NEW i, NEW new, NEW e
    PROVE  [g EXCEPT !.rec[i] = new, !.exited = e] =
               [rec |-> [g.rec EXCEPT ![i] = new], older |-> g.older, exited |-> e]
<1> DEFINE h == [g EXCEPT !.rec[i] = new, !.exited = e]
<1>1. g = [rec |-> g.rec, older |-> g.older, exited |-> g.exited]
  BY DEF IsReg
<1>2. h = [g EXCEPT !.rec[i] = new, !.exited = e]
  OBVIOUS
<1> HIDE DEF h
<1>3. h = [rec |-> [g.rec EXCEPT ![i] = new], older |-> g.older, exited |-> e]
  BY <1>1, <1>2
<1> QED BY <1>2, <1>3

LEMMA UpdateFacts ==
    ASSUME NEW g, IsReg(g), NEW i \in Ids, NEW state \in States, NEW reason \in Reasons
    PROVE  /\ IsReg(Update(g, i, state, reason))
           /\ \A j \in Ids : j # i => Update(g, i, state, reason).rec[j] = g.rec[j]
           /\ Update(g, i, state, reason).rec[i] =
                  IF g.rec[i].state = "none" THEN g.rec[i]
                  ELSE [state |-> state, reason |-> IF reason = "none" THEN g.rec[i].reason ELSE reason]
<1> DEFINE new == [state |-> state, reason |-> IF reason = "none" THEN g.rec[i].reason ELSE reason]
           h == Update(g, i, state, reason)
           e == Exits(g, g.rec[i].state, state)
<1>1. CASE g.rec[i].state = "none"
  BY <1>1 DEF Update
<1>2. CASE g.rec[i].state # "none"
  <2>1. g.rec[i] \in Record
    BY DEF IsReg
  <2>2. new \in Record
    BY <2>1 DEF Record, States
  <2>3. h = [rec |-> [g.rec EXCEPT ![i] = new], older |-> g.older, exited |-> e]
    <3>1. h = [g EXCEPT !.rec[i] = new, !.exited = e]
      BY <1>2 DEF Update
    <3> HIDE DEF new, h, e
    <3> QED BY <3>1, RegExcept
  <2> HIDE DEF new, h, e
  <2>4. h.rec = [g.rec EXCEPT ![i] = new] /\ IsReg(h)
    BY <2>2, <2>3 DEF IsReg
  <2> QED BY <1>2, <2>4 DEF new, h, IsReg
<1> QED BY <1>1, <1>2

\* Pruning drops exited records only (registry.ts lines 47-62).
LEMMA PruneFacts ==
    ASSUME NEW g, IsReg(g)
    PROVE  IsReg(Prune(g)) /\ \A j \in Ids : Erased(g.rec[j], Prune(g).rec[j])
<1> DEFINE old == {i \in Ids : g.rec[i].state = "exited"}
           over == IF g.exited > MaxExited THEN g.exited - MaxExited ELSE 0
           gone == {i \in old : Cardinality({j \in old : <<j, i>> \in g.older}) < over}
           older == {p \in g.older : p[1] \notin gone /\ p[2] \notin gone}
           exited == g.exited - Cardinality(gone)
           rec == [i \in Ids |-> IF i \in gone THEN NoRecord ELSE g.rec[i]]
<1>1. Prune(g) = [rec |-> rec, older |-> older, exited |-> exited]
  BY DEF Prune
<1>2. \A i \in gone : g.rec[i].state = "exited"
  OBVIOUS
<1> HIDE DEF gone, older, exited
<1>3. NoRecord \in Record
  BY DEF NoRecord, Record, Reasons
<1>4. rec \in [Ids -> Record]
  BY <1>3 DEF IsReg
<1>5. \A j \in Ids : Erased(g.rec[j], rec[j])
  BY <1>2 DEF Erased
<1> HIDE DEF rec
<1>6. Prune(g).rec = rec
  BY <1>1
<1>7. IsReg(Prune(g))
  BY <1>1, <1>4 DEF IsReg
<1> QED BY <1>5, <1>6, <1>7

LEMMA FinalizeFacts ==
    ASSUME NEW g, IsReg(g), NEW i \in Ids, NEW reason \in Reasons
    PROVE  /\ IsReg(Finalize(g, i, reason))
           /\ \A j \in Ids : j # i => Erased(g.rec[j], Finalize(g, i, reason).rec[j])
           /\ \/ /\ g.rec[i].state \in {"none", "exited"}
                 /\ Finalize(g, i, reason).rec[i] = g.rec[i]
              \/ /\ g.rec[i].state \notin {"none", "exited"}
                 /\ Erased([state |-> "exited",
                            reason |-> IF g.rec[i].reason = "none" THEN reason ELSE g.rec[i].reason],
                           Finalize(g, i, reason).rec[i])
<1> DEFINE new == [state |-> "exited",
                   reason |-> IF g.rec[i].reason = "none" THEN reason ELSE g.rec[i].reason]
           e == g.exited + 1
           h == [rec |-> [g.rec EXCEPT ![i] = new], older |-> g.older, exited |-> e]
<1>1. CASE g.rec[i].state \in {"none", "exited"}
  BY <1>1 DEF Finalize, Erased
<1>2. CASE g.rec[i].state \notin {"none", "exited"}
  <2>1. g.rec[i] \in Record
    BY DEF IsReg
  <2>2. new \in Record
    BY <2>1 DEF Record
  <2>3. Finalize(g, i, reason) = Prune(h)
    <3>1. Finalize(g, i, reason) = Prune([g EXCEPT !.rec[i] = new, !.exited = e])
      BY <1>2 DEF Finalize
    <3> HIDE DEF new, e
    <3>2. [g EXCEPT !.rec[i] = new, !.exited = e] = h
      BY RegExcept
    <3> QED BY <3>1, <3>2
  <2> HIDE DEF new, e
  <2>4. h.rec = [g.rec EXCEPT ![i] = new] /\ IsReg(h)
    BY <2>2 DEF IsReg
  <2> HIDE DEF h
  <2>5. IsReg(Prune(h)) /\ \A j \in Ids : Erased(h.rec[j], Prune(h).rec[j])
    BY <2>4, PruneFacts
  <2>6. h.rec[i] = new /\ \A j \in Ids : j # i => h.rec[j] = g.rec[j]
    BY <2>4 DEF IsReg
  <2> QED BY <1>2, <2>3, <2>5, <2>6 DEF new
<1> QED BY <1>1, <1>2

\* cancel() in the registry touches the record of the run, if it has one.
LEMMA NotedFacts ==
    ASSUME NEW g, IsReg(g), NEW rs, RunsOK(rs), NEW c \in Calls, rs[c].order # 0,
           NEW reason \in Reasons \ {"none"}
    PROVE  /\ IsReg(Noted(g, rs, c, reason))
           /\ \A j \in Ids : j # rs[c].id => Noted(g, rs, c, reason).rec[j] = g.rec[j]
           /\ \/ Noted(g, rs, c, reason).rec[rs[c].id] = g.rec[rs[c].id]
              \/ Noted(g, rs, c, reason).rec[rs[c].id].state = "exiting"
           /\ rs[c].stage = "live" /\ rs[c].result # "none" => Noted(g, rs, c, reason) = g
           /\ RecordOK(rs[c], g.rec[rs[c].id]) =>
                  \A q \in Run :
                      /\ q.stage = rs[c].stage /\ q.result = rs[c].result
                      /\ q.forced = (IF rs[c].forced = "none" /\ rs[c].result = "none"
                                     THEN reason ELSE rs[c].forced)
                      => RecordOK(q, Noted(g, rs, c, reason).rec[rs[c].id])
<1> DEFINE i == rs[c].id
           why == IF rs[c].forced = "none" THEN reason ELSE rs[c].forced
           h == Noted(g, rs, c, reason)
<1>1. i \in Ids /\ rs[c] \in Run /\ (rs[c].stage # "live" => rs[c].result = "none")
  BY DEF RunsOK, RunOK, Placed, Unlaunched
<1>2. why \in Reasons /\ why # "none" /\ rs[c].forced \in Reasons
  BY <1>1 DEF Run
<1>3. "exiting" \in States
  BY DEF States
<1>4. CASE rs[c].stage = "live" /\ ~(rs[c].forced = "none" /\ rs[c].result = "none")
  <2>1. h = g
    BY <1>4 DEF Noted
  <2> QED BY <1>4, <2>1 DEF RecordOK
<1>5. CASE ~(rs[c].stage = "live" /\ ~(rs[c].forced = "none" /\ rs[c].result = "none"))
  <2>1. h = Update(g, i, "exiting", why)
    BY <1>5 DEF Noted
  <2> HIDE DEF i, why, h
  <2>2. /\ IsReg(h)
        /\ \A j \in Ids : j # i => h.rec[j] = g.rec[j]
        /\ h.rec[i] = IF g.rec[i].state = "none" THEN g.rec[i]
                      ELSE [state |-> "exiting", reason |-> IF why = "none" THEN g.rec[i].reason ELSE why]
    BY <1>1, <1>2, <1>3, <2>1, UpdateFacts
  <2>3. h.rec[i] = g.rec[i] \/ h.rec[i].state = "exiting"
    BY <2>2
  <2>4. ASSUME RecordOK(rs[c], g.rec[i]), NEW q \in Run,
               q.stage = rs[c].stage, q.result = rs[c].result,
               q.forced = IF rs[c].forced = "none" /\ rs[c].result = "none" THEN reason ELSE rs[c].forced
        PROVE  RecordOK(q, h.rec[i])
    <3>1. q.forced = why
      BY <1>1, <1>5, <2>4 DEF why
    <3> QED BY <1>2, <2>2, <2>4, <3>1 DEF RecordOK
  <2>5. ~(rs[c].stage = "live" /\ rs[c].result # "none")
    BY <1>5
  <2> QED BY <2>2, <2>3, <2>4, <2>5 DEF i, h
<1> QED BY <1>4, <1>5

-----------------------------------------------------------------------------
(* The records of the last runs.                                           *)

LEMMA ErasedOK ==
    ASSUME NEW r, NEW p, NEW q, RecordOK(r, p), Erased(p, q)
    PROVE  RecordOK(r, q)
  BY DEF RecordOK, Erased, NoRecord

\* The first terminal reason wins in the record.
LEMMA FinalizedOK ==
    ASSUME NEW g, IsReg(g), NEW i \in Ids, NEW reason \in Reasons,
           NEW r, RecordOK(r, g.rec[i]), r.stage # "fenced",
           NEW q, q.forced = r.forced, q.stage \notin {"creating", "live"} \/ q.result # "none"
    PROVE  RecordOK(q, Finalize(g, i, reason).rec[i])
<1> DEFINE h == Finalize(g, i, reason)
<1>1. \/ /\ g.rec[i].state \in {"none", "exited"}
         /\ h.rec[i] = g.rec[i]
      \/ /\ g.rec[i].state \notin {"none", "exited"}
         /\ Erased([state |-> "exited",
                    reason |-> IF g.rec[i].reason = "none" THEN reason ELSE g.rec[i].reason],
                   h.rec[i])
  BY FinalizeFacts
<1> HIDE DEF h
<1>2. CASE h.rec[i] = g.rec[i]
  BY <1>2 DEF RecordOK, h
<1>3. CASE /\ g.rec[i].state \notin {"none", "exited"}
           /\ Erased([state |-> "exited",
                      reason |-> IF g.rec[i].reason = "none" THEN reason ELSE g.rec[i].reason],
                     h.rec[i])
  <2>1. h.rec[i].state = "none" \/
            h.rec[i].reason = IF g.rec[i].reason = "none" THEN reason ELSE g.rec[i].reason
    BY <1>3 DEF Erased, NoRecord
  <2> QED BY <1>3, <2>1 DEF RecordOK, h
<1> QED BY <1>1, <1>2, <1>3

\* No other run of its identity has anything to say besides the last one.
LEMMA HeadAlone ==
    ASSUME NEW rs, RunsOK(rs), Orders(rs), NEW c \in Calls, Heads(rs, c), rs[c].order # 0,
           NEW a \in Calls, a # c, rs[a].id = rs[c].id, rs[a].order # 0
    PROVE  a \notin Owned(rs) /\ (rs[a].stage = "live" => rs[a].result # "none")
<1>1. rs[a].order \in Nat /\ rs[c].order \in Nat
  BY DEF RunsOK, Run
<1>2. rs[a].order <= rs[c].order /\ rs[a].order # rs[c].order
  BY DEF Heads, Orders, Ranked
<1>3. rs[a].order < rs[c].order
  BY <1>1, <1>2
<1>4. rs[a].adapter # "relay"
  BY <1>3 DEF Heads
<1>5. a \notin Owned(rs)
  BY <1>3 DEF Orders, Reused
<1>6. rs[a].stage = "live" => Extinct(rs[a])
  BY <1>5 DEF Owned, active
<1> QED BY <1>4, <1>5, <1>6 DEF Extinct

LEMMA OwnedDistinct ==
    ASSUME NEW rs, RunsOK(rs), Orders(rs), NEW x \in Owned(rs), NEW y \in Owned(rs), rs[x].id = rs[y].id
    PROVE  x = y
<1>1. x \in Calls /\ y \in Calls /\ rs[x].order # 0 /\ rs[y].order # 0
  BY DEF Owned, startingRuns, active, RunsOK, RunOK, Placed
<1>2. rs[x].order \in Nat /\ rs[y].order \in Nat
  BY <1>1 DEF RunsOK, Run
<1>3. ~(rs[x].order < rs[y].order) /\ ~(rs[y].order < rs[x].order)
  BY <1>1 DEF Orders, Reused
<1>4. rs[x].order = rs[y].order
  BY <1>2, <1>3
<1> QED BY <1>1, <1>4 DEF Orders, Ranked

LEMMA StepHeads ==
    ASSUME NEW rs, NEW ts, RunsOK(rs), Step(rs, ts), NEW c \in Calls, Heads(ts, c)
    PROVE  Heads(rs, c)
<1>1. \A d \in Calls : ts[d].id = rs[d].id /\ ts[d].order = rs[d].order
  BY DEF Step, Moves
<1>2. \A d \in Calls : rs[d].adapter = "relay" => ts[d].adapter = "relay"
  BY DEF Step, Moves, RunsOK, RunOK, Unlaunched
<1> QED BY <1>1, <1>2 DEF Heads

\* One run moves and writes its own record, if it is entitled to.
LEMMA SingleRecord ==
    ASSUME NEW rs, RunsOK(rs), Orders(rs), NEW g, RecordsOK(rs, g),
           NEW a \in Calls, rs[a].order # 0, NEW q, NEW ts, ts = [rs EXCEPT ![a] = q], Step(rs, ts),
           NEW h,
           h = g \/ a \in Owned(rs) \/ (rs[a].stage = "live" /\ rs[a].result = "none"),
           \A j \in Ids : j # rs[a].id => Erased(g.rec[j], h.rec[j]),
           RecordOK(rs[a], g.rec[rs[a].id]) => RecordOK(q, h.rec[rs[a].id])
    PROVE  RecordsOK(ts, h)
<1>1. SUFFICES ASSUME NEW c \in Calls, Heads(ts, c), ts[c].order # 0
               PROVE  RecordOK(ts[c], h.rec[ts[c].id])
  BY DEF RecordsOK
<1>2. Heads(rs, c)
  BY <1>1, StepHeads
<1>3. rs[c].order # 0 /\ ts[c].id = rs[c].id
  BY <1>1 DEF Step, Moves
<1>4. RecordOK(rs[c], g.rec[rs[c].id]) /\ rs[c].id \in Ids
  BY <1>2, <1>3 DEF RecordsOK, RunsOK, RunOK, Placed
<1>5. ts[c] = IF c = a THEN q ELSE rs[c]
  BY DEF RunsOK
<1>6. CASE c = a
  BY <1>3, <1>4, <1>5, <1>6
<1>7. CASE c # a /\ rs[c].id # rs[a].id
  BY <1>3, <1>4, <1>5, <1>7, ErasedOK
<1>8. CASE c # a /\ rs[c].id = rs[a].id
  <2>1. h = g
    BY <1>2, <1>3, <1>8, HeadAlone
  <2> QED BY <1>3, <1>4, <1>5, <1>8, <2>1
<1> QED BY <1>6, <1>7, <1>8

-----------------------------------------------------------------------------
(* Cancelling a set of runs.                                               *)

\* The runs that one call may cancel.
Cancellable(rs, cs) ==
    /\ cs \in SUBSET Calls
    /\ \A x \in cs : rs[x].stage \notin {"unused", "over"}
    /\ \A x, y \in cs : rs[x].id = rs[y].id => x = y

LEMMA OwnedCancellable ==
    ASSUME NEW rs, RunsOK(rs), Orders(rs), NEW cs, cs \subseteq Owned(rs)
    PROVE  Cancellable(rs, cs)
<1>1. \A x, y \in cs : rs[x].id = rs[y].id => x = y
  BY OwnedDistinct
<1>2. cs \in SUBSET Calls /\ \A x \in cs : rs[x].stage \notin {"unused", "over"}
  BY DEF Owned, startingRuns, active
<1> QED BY <1>1, <1>2 DEF Cancellable

LEMMA CancelRecordsFacts ==
    ASSUME NEW g, IsReg(g), NEW rs, RunsOK(rs), NEW cs, Cancellable(rs, cs),
           NEW reason \in Reasons \ {"none"}, NEW h, h = CancelRecords(g, rs, cs, reason)
    PROVE  /\ IsReg(h)
           /\ \A j \in Ids :
                  \/ h.rec[j] = g.rec[j] /\ \A x \in cs : rs[x].id # j
                  \/ \E x \in cs : rs[x].id = j /\ h.rec[j] = Noted(g, rs, x, reason).rec[j]
<1> DEFINE of(i) == {c \in cs : rs[c].id = i}
           now(i) == IF of(i) = {} THEN g ELSE Noted(g, rs, CHOOSE c \in of(i) : TRUE, reason)
           back == {i \in Ids : g.rec[i].state = "exited" /\ now(i).rec[i].state # "exited"}
           e == g.exited - Cardinality(back)
           rec == [i \in Ids |-> now(i).rec[i]]
<1>1. h = [g EXCEPT !.rec = rec, !.exited = e]
  BY DEF CancelRecords
<1>2. ASSUME NEW j \in Ids
      PROVE  \/ now(j) = g /\ \A x \in cs : rs[x].id # j
             \/ \E x \in cs : rs[x].id = j /\ now(j) = Noted(g, rs, x, reason)
  <2>1. CASE of(j) = {}
    BY <2>1
  <2>2. CASE of(j) # {}
    <3>1. (CHOOSE c \in of(j) : TRUE) \in of(j)
      BY <2>2
    <3> QED BY <2>2, <3>1
  <2> QED BY <2>1, <2>2
<1> HIDE DEF now, e
<1>3. ASSUME NEW j \in Ids PROVE now(j).rec[j] \in Record
  <2>1. CASE now(j) = g
    BY <2>1 DEF IsReg
  <2>2. CASE \E x \in cs : rs[x].id = j /\ now(j) = Noted(g, rs, x, reason)
    <3>1. PICK x \in cs : rs[x].id = j /\ now(j) = Noted(g, rs, x, reason)
      BY <2>2
    <3>2. x \in Calls /\ rs[x].order # 0
      BY DEF Cancellable, RunsOK, RunOK, Placed
    <3>3. IsReg(now(j))
      BY <3>1, <3>2, NotedFacts
    <3> QED BY <3>3 DEF IsReg
  <2> QED BY <1>2, <2>1, <2>2
<1>4. rec \in [Ids -> Record] /\ \A j \in Ids : rec[j] = now(j).rec[j]
  BY <1>3
<1> HIDE DEF rec
<1>5. h = [rec |-> rec, older |-> g.older, exited |-> e]
  <2>1. g = [rec |-> g.rec, older |-> g.older, exited |-> g.exited]
    BY DEF IsReg
  <2> QED BY <1>1, <2>1
<1>6. h.rec = rec /\ IsReg(h)
  BY <1>4, <1>5 DEF IsReg
<1> QED BY <1>2, <1>4, <1>6

\* A cancelled run and its record agree, and so do the runs left alone.
LEMMA CancelledRecord ==
    ASSUME NEW g, IsReg(g), NEW rs, RunsOK(rs), Orders(rs), NEW cs, Cancellable(rs, cs),
           NEW reason \in Reasons \ {"none"},
           NEW c \in Calls, Heads(rs, c), rs[c].order # 0, RecordOK(rs[c], g.rec[rs[c].id])
    PROVE  RecordOK(CancelRuns(rs, cs, reason)[c], CancelRecords(g, rs, cs, reason).rec[rs[c].id])
<1> DEFINE h == CancelRecords(g, rs, cs, reason)
           q == CancelRuns(rs, cs, reason)[c]
           j == rs[c].id
<1>1. q = IF c \in cs THEN Cancelled(rs[c], reason) ELSE rs[c]
  BY DEF CancelRuns
<1>2. j \in Ids /\ RunOK(rs[c])
  BY DEF RunsOK, RunOK, Placed
<1>3. \/ h.rec[j] = g.rec[j] /\ \A x \in cs : rs[x].id # j
      \/ \E x \in cs : rs[x].id = j /\ h.rec[j] = Noted(g, rs, x, reason).rec[j]
  BY <1>2, CancelRecordsFacts
<1> HIDE DEF h, q
<1>4. CASE h.rec[j] = g.rec[j] /\ \A x \in cs : rs[x].id # j
  BY <1>1, <1>4 DEF h, q
<1>5. CASE \E x \in cs : rs[x].id = j /\ h.rec[j] = Noted(g, rs, x, reason).rec[j]
  <2>1. PICK x \in cs : rs[x].id = j /\ h.rec[j] = Noted(g, rs, x, reason).rec[j]
    BY <1>5
  <2>2. x \in Calls /\ rs[x].stage \notin {"unused", "over"} /\ rs[x].order # 0
    BY DEF Cancellable, RunsOK, RunOK, Placed
  <2>3. CASE x = c
    <3>1. q = Cancelled(rs[c], reason)
      BY <1>1, <2>3
    <3>2. /\ RunOK(q) /\ Kept(rs[c], q)
          /\ q.forced = IF rs[c].forced = "none" /\ rs[c].result = "none" THEN reason ELSE rs[c].forced
      BY <1>2, <3>1, CancelledFacts
    <3>3. q \in Run /\ q.stage = rs[c].stage /\ q.result = rs[c].result
      BY <3>2 DEF RunOK, Kept
    <3>4. RecordOK(q, Noted(g, rs, c, reason).rec[j])
      BY <3>2, <3>3, NotedFacts
    <3> QED BY <2>1, <2>3, <3>4 DEF h, q
  <2>4. CASE x # c
    <3>1. x \notin Owned(rs) /\ (rs[x].stage = "live" => rs[x].result # "none")
      BY <2>1, <2>2, <2>4, HeadAlone
    <3>2. rs[x].stage = "live"
      <4>1. rs[x] \in Run
        BY <2>2 DEF RunsOK
      <4> QED BY <2>2, <3>1, <4>1 DEF Owned, startingRuns, Run
    <3>3. Noted(g, rs, x, reason) = g
      BY <2>2, <3>1, <3>2, NotedFacts
    <3>4. c \notin cs
      BY <2>1, <2>4 DEF Cancellable
    <3> QED BY <1>1, <2>1, <3>3, <3>4 DEF h, q
  <2> QED BY <2>3, <2>4
<1> QED BY <1>3, <1>4, <1>5

\* A cancellation keeps everything.
LEMMA CancelSetKeeps ==
    ASSUME NEW rs, RunsOK(rs), Orders(rs), NEW g, IsReg(g), RecordsOK(rs, g),
           NEW cs, Cancellable(rs, cs), NEW reason \in Reasons \ {"none"},
           NEW ts, ts = CancelRuns(rs, cs, reason), NEW h, h = CancelRecords(g, rs, cs, reason)
    PROVE  RunsOK(ts) /\ Orders(ts) /\ IsReg(h) /\ RecordsOK(ts, h) /\ Step(rs, ts)
<1>1. cs \in SUBSET Calls /\ \A c \in cs : rs[c].order # 0
  BY DEF Cancellable, RunsOK, RunOK, Placed
<1>2. RunsOK(ts) /\ Step(rs, ts)
  BY <1>1, CancelRunsFacts
<1>3. Orders(ts)
  BY <1>2, StepOrders
<1>4. IsReg(h)
  BY CancelRecordsFacts
<1>5. RecordsOK(ts, h)
  <2>1. SUFFICES ASSUME NEW c \in Calls, Heads(ts, c), ts[c].order # 0
                 PROVE  RecordOK(ts[c], h.rec[ts[c].id])
    BY DEF RecordsOK
  <2>2. Heads(rs, c) /\ rs[c].order # 0 /\ ts[c].id = rs[c].id
    BY <1>2, <2>1, StepHeads DEF Step, Moves
  <2>3. RecordOK(rs[c], g.rec[rs[c].id])
    BY <2>2 DEF RecordsOK
  <2> QED BY <2>2, <2>3, CancelledRecord
<1> QED BY <1>2, <1>3, <1>4, <1>5

-----------------------------------------------------------------------------
(* startRun and spawn() in the registry.                                   *)

\* No other last run has the identity of a start.
LEMMA StarterAlone ==
    ASSUME NEW rs, RunsOK(rs), Orders(rs), NEW c \in Calls, rs[c].stage = "fenced",
           NEW x \in Calls, x # c, Heads(rs, x), rs[x].order # 0
    PROVE  rs[x].id # rs[c].id
<1>1. c \in Owned(rs) /\ rs[c].order # 0
  BY DEF Owned, startingRuns, RunsOK, RunOK, Placed
<1> QED BY <1>1, HeadAlone

\* The record of a start that was cancelled behind its fence.
LEMMA StillbornRecord ==
    ASSUME NEW g, IsReg(g), NEW i \in Ids, NEW forced \in Reasons \ {"none"},
           NEW h, h = Finalize(Add(g, i, "exiting", forced), i, forced)
    PROVE  /\ IsReg(h) /\ \A j \in Ids : j # i => Erased(g.rec[j], h.rec[j])
           /\ h.rec[i].state # "none" => h.rec[i].reason = forced
<1> DEFINE k == Add(g, i, "exiting", forced)
<1>1. /\ IsReg(k)
      /\ \A j \in Ids : k.rec[j] = IF j = i THEN [state |-> "exiting", reason |-> forced] ELSE g.rec[j]
  BY AddFacts DEF States
<1>2. h = Finalize(k, i, forced)
  OBVIOUS
<1> HIDE DEF k
<1>3. /\ IsReg(h)
      /\ \A j \in Ids : j # i => Erased(k.rec[j], h.rec[j])
      /\ \/ /\ k.rec[i].state \in {"none", "exited"}
            /\ h.rec[i] = k.rec[i]
         \/ /\ k.rec[i].state \notin {"none", "exited"}
            /\ Erased([state |-> "exited",
                       reason |-> IF k.rec[i].reason = "none" THEN forced ELSE k.rec[i].reason],
                      h.rec[i])
  BY <1>1, <1>2, FinalizeFacts
<1>4. k.rec[i].state = "exiting" /\ k.rec[i].reason = forced
  BY <1>1
<1>5. Erased([state |-> "exited", reason |-> forced], h.rec[i])
  BY <1>3, <1>4
<1>6. h.rec[i].state # "none" => h.rec[i].reason = forced
  BY <1>5 DEF Erased, NoRecord
<1> QED BY <1>1, <1>3, <1>6

\* startRun behind a passed fence keeps the records of the last runs.
LEMMA StartedRecords ==
    ASSUME NEW rs, RunsOK(rs), Orders(rs), NEW g, IsReg(g), RecordsOK(rs, g),
           NEW c \in Calls, rs[c].stage = "fenced", rs[c].behind \cap startingRuns(rs) = {},
           NEW ts, ts \in {Started(rs, c), [Started(rs, c) EXCEPT ![c].behind = {}]},
           NEW h, h = Recorded(g, rs, c)
    PROVE  IsReg(h) /\ RecordsOK(ts, h)
<1> DEFINE us == CancelRuns(rs, Ousted(rs, c), "manual-cancel")
           i == rs[c].id
<1>1. Launched(rs[c], ts[c]) /\ \A d \in Calls : d # c => ts[d] = us[d]
  BY StartedRuns
<1>2. Step(rs, ts)
  BY StartedStep
<1>3. rs[c] \in Run /\ rs[c].order # 0 /\ i \in Ids /\ c \in Owned(rs)
  BY DEF RunsOK, RunOK, Placed, Owned, startingRuns
<1>4. ASSUME NEW x \in Calls, Heads(ts, x), ts[x].order # 0
      PROVE  /\ Heads(rs, x) /\ rs[x].order # 0 /\ ts[x].id = rs[x].id /\ rs[x].id \in Ids
             /\ RecordOK(rs[x], g.rec[rs[x].id])
             /\ x # c => rs[x].id # i
  <2>1. Heads(rs, x)
    BY <1>2, <1>4, StepHeads
  <2>2. rs[x].order # 0 /\ ts[x].id = rs[x].id
    BY <1>2, <1>4 DEF Step, Moves
  <2>3. x # c => rs[x].id # i
    BY <2>1, <2>2, StarterAlone
  <2> QED BY <2>1, <2>2, <2>3 DEF RecordsOK, RunsOK, RunOK, Placed
<1>5. "manual-cancel" \in Reasons \ {"none"}
  BY DEF Reasons
<1>6. CASE rs[c].forced # "none"
  <2>1. rs[c].forced \in Reasons \ {"none"}
    BY <1>3, <1>6 DEF Run
  <2>2. h = Finalize(Add(g, i, "exiting", rs[c].forced), i, rs[c].forced)
    BY <1>6 DEF Recorded
  <2>3. /\ IsReg(h) /\ \A j \in Ids : j # i => Erased(g.rec[j], h.rec[j])
        /\ h.rec[i].state # "none" => h.rec[i].reason = rs[c].forced
    BY <1>3, <2>1, <2>2, StillbornRecord
  <2>4. \A d \in Calls : d # c => ts[d] = rs[d]
    BY <1>1, <1>6 DEF CancelRuns, Ousted
  <2>5. ASSUME NEW x \in Calls, Heads(ts, x), ts[x].order # 0
        PROVE  RecordOK(ts[x], h.rec[ts[x].id])
    <3>1. CASE x = c
      BY <1>1, <1>6, <2>3, <3>1 DEF Launched, RecordOK
    <3>2. CASE x # c
      <4>1. /\ rs[x].id \in Ids /\ rs[x].id # i /\ ts[x] = rs[x]
            /\ RecordOK(rs[x], g.rec[rs[x].id])
        BY <1>4, <2>4, <2>5, <3>2
      <4> QED BY <2>3, <4>1, ErasedOK
    <3> QED BY <3>1, <3>2
  <2> QED BY <2>3, <2>5 DEF RecordsOK
<1>7. CASE rs[c].forced = "none"
  <2> DEFINE k == Add(g, i, "starting", "none")
  <2>0. "starting" \in States /\ "none" \in Reasons
    BY DEF States, Reasons
  <2>1. /\ IsReg(k)
        /\ \A j \in Ids : k.rec[j] = IF j = i THEN [state |-> "starting", reason |-> "none"] ELSE g.rec[j]
    <3> HIDE DEF i
    <3> QED BY <1>3, <2>0, AddFacts
  <2>2. h = CancelRecords(k, rs, Ousted(rs, c), "manual-cancel")
    <3>1. Ousted(rs, c) = {d \in active(rs) : rs[c].replace /\ rs[d].scope = rs[c].scope}
      BY <1>7 DEF Ousted
    <3> QED BY <1>7, <3>1 DEF Recorded
  <2> HIDE DEF k
  <2>3. Ousted(rs, c) \subseteq Owned(rs) /\ c \notin Ousted(rs, c)
    BY DEF Ousted, Owned, active
  <2>4. Cancellable(rs, Ousted(rs, c))
    BY <2>3, OwnedCancellable
  <2>5. IsReg(h)
    BY <1>5, <2>1, <2>2, <2>4, CancelRecordsFacts
  <2>6. \A x \in Ousted(rs, c) : rs[x].id # i
    BY <1>3, <2>3, OwnedDistinct
  <2>7. h.rec[i] = k.rec[i]
    <3>1. \/ h.rec[i] = k.rec[i] /\ \A x \in Ousted(rs, c) : rs[x].id # i
          \/ \E x \in Ousted(rs, c) :
                rs[x].id = i /\ h.rec[i] = Noted(k, rs, x, "manual-cancel").rec[i]
      BY <1>3, <1>5, <2>1, <2>2, <2>4, CancelRecordsFacts
    <3> QED BY <2>6, <3>1
  <2>8. ASSUME NEW x \in Calls, Heads(ts, x), ts[x].order # 0
        PROVE  RecordOK(ts[x], h.rec[ts[x].id])
    <3>1. CASE x = c
      <4>1. h.rec[i].state = "starting"
        BY <1>3, <2>1, <2>7
      <4> QED BY <1>1, <1>7, <3>1, <4>1 DEF Launched, RecordOK
    <3>2. CASE x # c
      <4>1. /\ Heads(rs, x) /\ rs[x].order # 0 /\ ts[x].id = rs[x].id
            /\ rs[x].id \in Ids /\ rs[x].id # i
            /\ RecordOK(rs[x], g.rec[rs[x].id])
        BY <1>4, <2>8, <3>2
      <4>2. RecordOK(rs[x], k.rec[rs[x].id])
        BY <2>1, <4>1
      <4>3. RecordOK(us[x], h.rec[rs[x].id])
        BY <1>5, <2>1, <2>2, <2>4, <4>1, <4>2, CancelledRecord
      <4> QED BY <1>1, <3>2, <4>1, <4>3
    <3> QED BY <3>1, <3>2
  <2> QED BY <2>5, <2>8 DEF RecordsOK
<1> QED BY <1>6, <1>7

\* A refused spawn() and a reservation leave the records alone.
LEMMA RefusedRecords ==
    ASSUME NEW rs, RunsOK(rs), NEW g, RecordsOK(rs, g), NEW c \in Calls, rs[c].stage = "unused",
           NEW ts, ts = [rs EXCEPT ![c].stage = "over"]
    PROVE  RecordsOK(ts, g)
<1>1. rs[c] \in Run /\ rs[c].order = 0 /\ rs[c].adapter = "none"
  BY DEF RunsOK, RunOK, Placed, Unlaunched
<1>2. /\ \A d \in Calls : d # c => ts[d] = rs[d]
      /\ ts[c].order = 0 /\ ts[c].id = rs[c].id /\ ts[c].adapter = "none"
  BY <1>1 DEF RunsOK, Run
<1>3. ASSUME NEW x \in Calls, Heads(ts, x), ts[x].order # 0
      PROVE  RecordOK(ts[x], g.rec[ts[x].id])
  <2>1. x # c
    BY <1>2, <1>3
  <2>2. ts[x] = rs[x]
    BY <1>2, <2>1
  <2>3. Heads(rs, x)
    BY <1>1, <1>2, <1>3, <2>2 DEF Heads
  <2> QED BY <1>3, <2>2, <2>3 DEF RecordsOK
<1> QED BY <1>3 DEF RecordsOK

LEMMA ReservedRecords ==
    ASSUME NEW rs, RunsOK(rs), NEW g, RecordsOK(rs, g), NEW c \in Calls, rs[c].stage = "unused",
           NEW q, RunOK(q), q.stage = "fenced", q.forced = "none",
           NEW ts, ts = [rs EXCEPT ![c] = q]
    PROVE  RecordsOK(ts, g)
<1>1. rs[c].order = 0 /\ rs[c].adapter = "none" /\ q.result = "none"
  BY DEF RunsOK, RunOK, Placed, Unlaunched
<1>2. ts[c] = q /\ \A d \in Calls : d # c => ts[d] = rs[d]
  BY DEF RunsOK
<1>3. \A d \in Calls : rs[d].order \in Nat
  BY DEF RunsOK, Run
<1>4. ASSUME NEW x \in Calls, Heads(ts, x), ts[x].order # 0
      PROVE  RecordOK(ts[x], g.rec[ts[x].id])
  <2>1. CASE x = c
    BY <1>2, <2>1 DEF RecordOK
  <2>2. CASE x # c
    <3>1. ts[x] = rs[x]
      BY <1>2, <2>2
    <3>2. Heads(rs, x)
      <4>1. SUFFICES ASSUME NEW d \in Calls, rs[d].id = rs[x].id
                     PROVE  /\ rs[d].order <= rs[x].order
                            /\ ~(rs[d].order < rs[x].order /\ rs[d].adapter = "relay")
        BY DEF Heads
      <4>2. CASE d = c
        BY <1>1, <1>3, <4>2
      <4>3. CASE d # c
        BY <1>2, <1>4, <3>1, <4>1, <4>3 DEF Heads
      <4> QED BY <4>2, <4>3
    <3> QED BY <1>4, <3>1, <3>2 DEF RecordsOK
  <2> QED BY <2>1, <2>2
<1> QED BY <1>4 DEF RecordsOK

-----------------------------------------------------------------------------
(* The steps.                                                              *)

LEMMA InvNext ==
    ASSUME RunsOK(run'), Orders(run'), IsReg(reg'), RecordsOK(run', reg'),
           shut' \in {"open", "requested", "waiting", "resolved", "rejected"},
           shut' \in {"resolved", "rejected"} => Owned(run') = {}
    PROVE  Inv'
  BY DEF Inv, Closed

\* A step that reserves nothing keeps what shutdown() found.
LEMMA StepKeeps ==
    ASSUME Inv, RunsOK(run'), Step(run, run'), IsReg(reg'), RecordsOK(run', reg'), shut' = shut
    PROVE  Inv'
<1>1. RunsOK(run) /\ Orders(run) /\ shut \in {"open", "requested", "waiting", "resolved", "rejected"}
  BY DEF Inv
<1>2. Orders(run')
  BY <1>1, StepOrders
<1>3. Owned(run') \subseteq Owned(run)
  BY <1>1, StepMaps
<1>4. shut' \in {"resolved", "rejected"} => Owned(run') = {}
  BY <1>3 DEF Inv, Closed
<1> QED BY <1>1, <1>2, <1>4, InvNext

\* One run moves, and writes its record.
LEMMA RunKeeps ==
    ASSUME Inv, NEW a \in Calls, run[a].stage \notin {"unused", "over"},
           NEW q, RunOK(q), Moves(run[a], q), run[a].stage = "fenced" => q.stage = "fenced",
           run' = [run EXCEPT ![a] = q], shut' = shut, IsReg(reg'),
           reg' = reg \/ a \in Owned(run) \/ (run[a].stage = "live" /\ run[a].result = "none"),
           \A j \in Ids : j # run[a].id => Erased(reg.rec[j], reg'.rec[j]),
           RecordOK(run[a], reg.rec[run[a].id]) => RecordOK(q, reg'.rec[run[a].id])
    PROVE  Inv'
<1>1. RunsOK(run) /\ Orders(run) /\ RecordsOK(run, reg)
  BY DEF Inv
<1>2. run[a].order # 0
  BY <1>1 DEF RunsOK, RunOK, Placed
<1>3. RunsOK(run') /\ Step(run, run')
  BY <1>1, SingleStep
<1>4. RecordsOK(run', reg')
  BY <1>1, <1>2, <1>3, SingleRecord
<1> QED BY <1>3, <1>4, StepKeeps

\* One run moves, and the registry stays.
LEMMA RunKeepsRecord ==
    ASSUME Inv, NEW a \in Calls, run[a].stage \notin {"unused", "over"},
           NEW q, RunOK(q), Moves(run[a], q), run[a].stage = "fenced" => q.stage = "fenced",
           q.forced = run[a].forced,
           q.stage = "over" \/ (q.stage = run[a].stage /\ q.result = run[a].result),
           run' = [run EXCEPT ![a] = q], shut' = shut, reg' = reg
    PROVE  Inv'
<1>1. \A j \in Ids : j # run[a].id => Erased(reg.rec[j], reg'.rec[j])
  BY DEF Erased
<1>2. RecordOK(run[a], reg.rec[run[a].id]) => RecordOK(q, reg'.rec[run[a].id])
  BY DEF RecordOK
<1>3. IsReg(reg')
  BY DEF Inv
<1> QED BY <1>1, <1>2, <1>3, RunKeeps

LEMMA RunEntry ==
    ASSUME Inv, NEW a \in Calls
    PROVE  /\ RunOK(run[a]) /\ run[a] \in Run
           /\ run[a].stage \notin {"unused", "over"} => run[a].order # 0 /\ run[a].id \in Ids
           /\ run[a].root = "running" => run[a].stage = "live"
           /\ run[a].timer = "armed" => run[a].stage = "live"
<1>1. RunOK(run[a])
  BY DEF Inv, RunsOK
<1> QED BY <1>1 DEF RunOK, Placed, Unlaunched

LEMMA CancelKeeps ==
    ASSUME Inv, NEW c \in Calls, Cancel(c)
    PROVE  Inv'
<1>1. RunsOK(run) /\ Orders(run) /\ IsReg(reg) /\ RecordsOK(run, reg)
  BY DEF Inv
<1>2. Cancellable(run, {c})
  BY DEF Cancellable, Cancel
<1>3. /\ run' = CancelRuns(run, {c}, "manual-cancel")
      /\ reg' = CancelRecords(reg, run, {c}, "manual-cancel") /\ shut' = shut
  BY DEF Cancel, CancelSet
<1>4. "manual-cancel" \in Reasons \ {"none"}
  BY DEF Reasons
<1>5. RunsOK(run') /\ IsReg(reg') /\ RecordsOK(run', reg') /\ Step(run, run')
  BY <1>1, <1>2, <1>3, <1>4, CancelSetKeeps
<1> QED BY <1>3, <1>5, StepKeeps

\* cancelScope() and shutdown() cancel runs that are owned.
LEMMA CancelOwnedKeeps ==
    ASSUME Inv, NEW cs, cs \subseteq Owned(run), CancelSet(cs, "manual-cancel")
    PROVE  /\ RunsOK(run') /\ Orders(run') /\ IsReg(reg') /\ RecordsOK(run', reg')
           /\ Step(run, run')
<1>1. RunsOK(run) /\ Orders(run) /\ IsReg(reg) /\ RecordsOK(run, reg)
  BY DEF Inv
<1>2. Cancellable(run, cs)
  BY <1>1, OwnedCancellable
<1>3. /\ run' = CancelRuns(run, cs, "manual-cancel")
      /\ reg' = CancelRecords(reg, run, cs, "manual-cancel")
  BY DEF CancelSet
<1>4. "manual-cancel" \in Reasons \ {"none"}
  BY DEF Reasons
<1> QED BY <1>1, <1>2, <1>3, <1>4, CancelSetKeeps

LEMMA CancelScopeKeeps ==
    ASSUME Inv, NEW s, CancelScope(s)
    PROVE  Inv'
<1>1. /\ CancelSet({c \in Owned(run) : run[c].scope = s}, "manual-cancel")
      /\ shut' = shut
  BY DEF CancelScope
<1>2. RunsOK(run') /\ Step(run, run') /\ IsReg(reg') /\ RecordsOK(run', reg')
  BY <1>1, CancelOwnedKeeps
<1> QED BY <1>1, <1>2, StepKeeps

LEMMA PassFenceKeeps ==
    ASSUME Inv, NEW c \in Calls, PassFence(c)
    PROVE  Inv'
<1>1. RunsOK(run) /\ Orders(run) /\ IsReg(reg) /\ RecordsOK(run, reg)
  BY DEF Inv
<1>2. /\ run[c].stage = "fenced" /\ run[c].behind \cap startingRuns(run) = {}
      /\ run' \in {Started(run, c), [Started(run, c) EXCEPT ![c].behind = {}]}
      /\ reg' = Recorded(reg, run, c) /\ shut' = shut
  BY DEF PassFence, Cleared
<1>3. RunsOK(run') /\ Step(run, run')
  BY <1>1, <1>2, StartedStep
<1>4. IsReg(reg') /\ RecordsOK(run', reg')
  BY <1>1, <1>2, StartedRecords
<1> QED BY <1>2, <1>3, <1>4, StepKeeps

LEMMA SpawnKeeps ==
    ASSUME Inv, NEW c \in Calls, Spawn(c)
    PROVE  Inv'
<1>1. /\ RunsOK(run) /\ Orders(run) /\ IsReg(reg) /\ RecordsOK(run, reg)
      /\ shut \in {"open", "requested", "waiting", "resolved", "rejected"}
  BY DEF Inv
<1>2. run[c].stage = "unused" /\ shut' = shut
  BY DEF Spawn
<1>3. PICK i \in IdsOf[c], scope \in Scopes, replace \in BOOLEAN :
        LET refused == shut # "open" \/ Taken(run, i)
            previous == Previous(run, scope, replace)
            order == 1 + Cardinality({d \in Calls : run[d].stage # "unused"})
            reserved == [run EXCEPT ![c] = [Unused EXCEPT !.stage = "fenced", !.id = i,
                !.scope = scope, !.replace = replace,
                !.order = order, !.behind = previous]]
        IN  \/ refused /\ run' = [run EXCEPT ![c].stage = "over"] /\ UNCHANGED reg
            \/ ~refused /\ previous # {} /\ run' = reserved /\ UNCHANGED reg
            \/ /\ ~refused /\ previous = {}
               /\ run' = Started(reserved, c)
               /\ reg' = Recorded(reg, reserved, c)
  BY DEF Spawn
<1> DEFINE q == Reservation(run, i, scope, replace)
           rs == [run EXCEPT ![c] = q]
<1>4. \/ run' = [run EXCEPT ![c].stage = "over"] /\ reg' = reg
      \/ /\ shut = "open" /\ ~Taken(run, i)
         /\ \/ run' = rs /\ reg' = reg
            \/ /\ Previous(run, scope, replace) = {}
               /\ run' = Started(rs, c) /\ reg' = Recorded(reg, rs, c)
  BY <1>3 DEF Reservation
<1>5. i \in Ids
  BY IdAssumption
<1>6. CASE run' = [run EXCEPT ![c].stage = "over"] /\ reg' = reg
  <2>1. RunsOK(run') /\ Orders(run') /\ startingRuns(run') = startingRuns(run) /\ active(run') = active(run)
    BY <1>1, <1>2, <1>6, Refused
  <2>2. RecordsOK(run', reg')
    BY <1>1, <1>2, <1>6, RefusedRecords
  <2>3. shut' \in {"resolved", "rejected"} => Owned(run') = {}
    BY <1>2, <2>1 DEF Inv, Closed, Owned
  <2> QED BY <1>1, <1>2, <1>6, <2>1, <2>2, <2>3, InvNext
<1>7. CASE /\ shut = "open" /\ ~Taken(run, i)
           /\ \/ run' = rs /\ reg' = reg
              \/ /\ Previous(run, scope, replace) = {}
                 /\ run' = Started(rs, c) /\ reg' = Recorded(reg, rs, c)
  <2>1. RunOK(q) /\ q.stage = "fenced" /\ q.forced = "none" /\ q.behind = Previous(run, scope, replace)
    BY <1>1, <1>5, ReservationFacts
  <2>2. RunsOK(rs) /\ Orders(rs)
    BY <1>1, <1>2, <1>5, <1>7, Reserved
  <2>3. rs[c] = q
    BY <1>1 DEF RunsOK
  <2> HIDE DEF q
  <2>4. RecordsOK(rs, reg)
    BY <1>1, <1>2, <2>1, ReservedRecords
  <2> HIDE DEF rs
  <2>5. CASE run' = rs /\ reg' = reg
    BY <1>1, <1>2, <1>7, <2>2, <2>4, <2>5, InvNext
  <2>6. CASE /\ Previous(run, scope, replace) = {}
             /\ run' = Started(rs, c) /\ reg' = Recorded(reg, rs, c)
    <3>1. /\ rs[c].stage = "fenced" /\ rs[c].behind \cap startingRuns(rs) = {}
          /\ run' \in {Started(rs, c), [Started(rs, c) EXCEPT ![c].behind = {}]}
      BY <2>1, <2>3, <2>6
    <3>2. RunsOK(run') /\ Step(rs, run')
      BY <2>2, <3>1, StartedStep
    <3>3. Orders(run')
      BY <2>2, <3>2, StepOrders
    <3>4. IsReg(reg') /\ RecordsOK(run', reg')
      BY <1>1, <2>2, <2>4, <2>6, <3>1, StartedRecords
    <3> QED BY <1>1, <1>2, <1>7, <3>2, <3>3, <3>4, InvNext
  <2> QED BY <1>7, <2>5, <2>6
<1> QED BY <1>4, <1>6, <1>7

LEMMA AdapterCreatedKeeps ==
    ASSUME Inv, NEW c \in Calls, AdapterCreated(c)
    PROVE  Inv'
<1> DEFINE r == run[c]
           i == run[c].id
           state == IF run[c].forced = "none" THEN "running" ELSE "exiting"
<1>1. r.stage = "creating" /\ shut' = shut /\ IsReg(reg)
  BY DEF AdapterCreated, Inv
<1>2. RunOK(r) /\ r \in Run /\ i \in Ids
  BY <1>1, RunEntry
<1>3. c \in Owned(run) /\ r.forced \in Reasons /\ state \in States /\ "spawn-error" \in Reasons
  BY <1>1, <1>2 DEF Owned, startingRuns, Run, States, Reasons
<1>4. CASE /\ \E kind \in Adapters : run' = [run EXCEPT ![c] = Adopted(@, kind)]
           /\ reg' = Update(reg, run[c].id, state, run[c].forced)
  <2>1. PICK kind \in Adapters : run' = [run EXCEPT ![c] = Adopted(r, kind)]
    BY <1>4
  <2> DEFINE q == Adopted(r, kind)
  <2>2. RunOK(q) /\ Moves(r, q) /\ q.stage = "live" /\ q.forced = r.forced /\ q.result = "none"
    BY <1>1, <1>2, AdoptedFacts
  <2>3. /\ IsReg(reg')
        /\ \A j \in Ids : j # i => reg'.rec[j] = reg.rec[j]
        /\ reg'.rec[i] = IF reg.rec[i].state = "none" THEN reg.rec[i]
                         ELSE [state |-> state, reason |-> IF r.forced = "none" THEN reg.rec[i].reason ELSE r.forced]
    <3> HIDE DEF state, i
    <3> QED BY <1>1, <1>2, <1>3, <1>4, UpdateFacts DEF i
  <2>4. \A j \in Ids : j # i => Erased(reg.rec[j], reg'.rec[j])
    BY <2>3 DEF Erased
  <2> HIDE DEF q
  <2>5. ASSUME RecordOK(r, reg.rec[i]) PROVE RecordOK(q, reg'.rec[i])
    <3>1. reg.rec[i].state # "none"
      BY <1>1, <1>2, <2>5 DEF RecordOK, RunOK, Unlaunched
    <3>2. reg'.rec[i].state \in {"running", "exiting"} /\ (r.forced # "none" => reg'.rec[i].reason = r.forced)
      BY <2>3, <3>1
    <3> QED BY <2>2, <3>2 DEF RecordOK
  <2>6. run' = [run EXCEPT ![c] = q]
    BY <2>1 DEF q
  <2> QED BY <1>1, <1>3, <2>2, <2>3, <2>4, <2>5, <2>6, RunKeeps
<1>5. CASE /\ run' = [run EXCEPT ![c].stage = "warning"]
           /\ reg' = Finalize(reg, run[c].id, "spawn-error")
  <2> DEFINE q == [r EXCEPT !.stage = "warning"]
  <2>1. RunOK(q) /\ Moves(r, q) /\ q.stage = "warning" /\ q.forced = r.forced
    BY <1>1, <1>2, RestagedFacts
  <2>2. run' = [run EXCEPT ![c] = q]
    BY <1>5
  <2> HIDE DEF q
  <2>3. IsReg(reg') /\ \A j \in Ids : j # i => Erased(reg.rec[j], reg'.rec[j])
    BY <1>1, <1>2, <1>3, <1>5, FinalizeFacts
  <2>4. RecordOK(r, reg.rec[i]) => RecordOK(q, reg'.rec[i])
    BY <1>1, <1>2, <1>3, <1>5, <2>1, FinalizedOK
  <2> QED BY <1>1, <1>3, <2>1, <2>2, <2>3, <2>4, RunKeeps
<1> QED BY <1>4, <1>5 DEF AdapterCreated

LEMMA ClearPendingStartKeeps ==
    ASSUME Inv, NEW c \in Calls, ClearPendingStart(c)
    PROVE  Inv'
<1> DEFINE q == [run[c] EXCEPT !.stage = "over"]
<1>1. /\ run[c].stage \in {"stillborn", "warning"} /\ run' = [run EXCEPT ![c] = q]
      /\ shut' = shut /\ reg' = reg
  BY DEF ClearPendingStart
<1>2. RunOK(run[c])
  BY RunEntry
<1>3. RunOK(q) /\ Moves(run[c], q) /\ q.stage = "over" /\ q.forced = run[c].forced
  BY <1>1, <1>2, RestagedFacts
<1> HIDE DEF q
<1> QED BY <1>1, <1>3, RunKeepsRecord

LEMMA RootEndsKeeps ==
    ASSUME Inv, NEW c \in Calls, RootEnds(c)
    PROVE  Inv'
<1> DEFINE q == [run[c] EXCEPT !.root = "ended"]
<1>1. run[c].root = "running" /\ run' = [run EXCEPT ![c] = q] /\ shut' = shut /\ reg' = reg
  BY DEF RootEnds
<1>2. RunOK(run[c]) /\ run[c].stage = "live"
  BY <1>1, RunEntry
<1>3. /\ RunOK(q) /\ Moves(run[c], q) /\ q.stage = run[c].stage
      /\ q.forced = run[c].forced /\ q.result = run[c].result
  BY <1>1, <1>2, RootEndsFacts
<1> HIDE DEF q
<1> QED BY <1>1, <1>2, <1>3, RunKeepsRecord

LEMMA HolderExitsKeeps ==
    ASSUME Inv, NEW c \in Calls, HolderExits(c)
    PROVE  Inv'
BY DEF HolderExits, Inv, Closed

LEMMA InputFailsKeeps ==
    ASSUME Inv, NEW c \in Calls, InputFails(c)
    PROVE  Inv'
<1> DEFINE q == Kill([run[c] EXCEPT !.failed = TRUE], "KILL")
<1>1. run[c].stage = "live" /\ run' = [run EXCEPT ![c] = q] /\ shut' = shut /\ reg' = reg
  BY DEF InputFails
<1>2. RunOK(run[c])
  BY RunEntry
<1>3. /\ RunOK(q) /\ Moves(run[c], q) /\ q.stage = run[c].stage
      /\ q.forced = run[c].forced /\ q.result = run[c].result
  BY <1>1, <1>2, InputFailsFacts
<1> HIDE DEF q
<1> QED BY <1>1, <1>3, RunKeepsRecord

LEMMA ListenerThrowsKeeps ==
    ASSUME Inv, NEW c \in Calls, ListenerThrows(c)
    PROVE  Inv'
<1> DEFINE q == RequestCancel([run[c] EXCEPT !.failed = TRUE], "spawn-error")
           i == run[c].id
<1>1. /\ run[c].stage = "live" /\ run[c].result = "none" /\ run' = [run EXCEPT ![c] = q]
      /\ reg' = Noted(reg, run, c, "spawn-error") /\ shut' = shut
  BY DEF ListenerThrows
<1>2. RunOK(run[c]) /\ run[c].order # 0 /\ RunsOK(run) /\ IsReg(reg)
  BY <1>1, RunEntry DEF Inv
<1>3. /\ RunOK(q) /\ Moves(run[c], q) /\ q.stage = run[c].stage /\ q.result = run[c].result
      /\ q.forced = IF run[c].forced = "none" THEN "spawn-error" ELSE run[c].forced
  BY <1>1, <1>2, ListenerThrowsFacts
<1> HIDE DEF q
<1>4. "spawn-error" \in Reasons \ {"none"} /\ q \in Run
  BY <1>3 DEF Reasons, RunOK
<1>5. IsReg(reg') /\ \A j \in Ids : j # i => reg'.rec[j] = reg.rec[j]
  BY <1>1, <1>2, <1>4, NotedFacts
<1>6. \A j \in Ids : j # i => Erased(reg.rec[j], reg'.rec[j])
  BY <1>5 DEF Erased
<1>7. RecordOK(run[c], reg.rec[i]) => RecordOK(q, reg'.rec[i])
  BY <1>1, <1>2, <1>3, <1>4, NotedFacts
<1> QED BY <1>1, <1>3, <1>5, <1>6, <1>7, RunKeeps

LEMMA ForceKillKeeps ==
    ASSUME Inv, NEW c \in Calls, ForceKill(c)
    PROVE  Inv'
<1> DEFINE q == [Kill(run[c], "KILL") EXCEPT !.timer = "fired"]
<1>1. run[c].timer = "armed" /\ run' = [run EXCEPT ![c] = q] /\ shut' = shut /\ reg' = reg
  BY DEF ForceKill
<1>2. RunOK(run[c]) /\ run[c].stage = "live"
  BY <1>1, RunEntry
<1>3. /\ RunOK(q) /\ Moves(run[c], q) /\ q.stage = run[c].stage
      /\ q.forced = run[c].forced /\ q.result = run[c].result
  BY <1>1, <1>2, ForceKillFacts
<1> HIDE DEF q
<1> QED BY <1>1, <1>2, <1>3, RunKeepsRecord

\* The verdict of a live run and its record.
LEMMA VerdictKeeps ==
    ASSUME Inv, NEW c \in Calls, run[c].stage = "live", run[c].result = "none",
           NEW q, RunOK(q), Moves(run[c], q), q.stage = "live", q.forced = run[c].forced, q.result # "none",
           NEW reason \in Reasons,
           run' = [run EXCEPT ![c] = q], reg' = Finalize(reg, run[c].id, reason), shut' = shut
    PROVE  Inv'
<1>1. RunOK(run[c]) /\ run[c].id \in Ids /\ IsReg(reg)
  BY RunEntry DEF Inv
<1>2. IsReg(reg') /\ \A j \in Ids : j # run[c].id => Erased(reg.rec[j], reg'.rec[j])
  BY <1>1, FinalizeFacts
<1>3. RecordOK(run[c], reg.rec[run[c].id]) => RecordOK(q, reg'.rec[run[c].id])
  BY <1>1, FinalizedOK
<1> QED BY <1>2, <1>3, RunKeeps

LEMMA SettleKeeps ==
    ASSUME Inv, NEW c \in Calls, Settle(c)
    PROVE  Inv'
<1>1. /\ run[c].stage = "live" /\ run[c].result = "none" /\ run[c].root = "ended"
      /\ shut' = shut
  BY DEF Settle
<1>2. PICK result \in {"resolved", "rejected"} :
        /\ run' = [run EXCEPT ![c] = Released([run[c] EXCEPT !.result = result])]
        /\ reg' = Finalize(reg, run[c].id,
                    IF result = "rejected" THEN "spawn-error"
                    ELSE IF run[c].forced = "none" THEN "exit" ELSE run[c].forced)
  BY DEF Settle
<1> DEFINE f == [run[c] EXCEPT !.result = result]
           q == Released(f)
           reason == IF result = "rejected" THEN "spawn-error"
                     ELSE IF run[c].forced = "none" THEN "exit" ELSE run[c].forced
<1>3. RunOK(run[c]) /\ run[c] \in Run
  BY RunEntry
<1>4. reason \in Reasons
  BY <1>3 DEF Reasons, Run
<1>5. /\ f \in Run /\ f.result = result /\ f.group = run[c].group /\ f.stage = "live"
      /\ f.id = run[c].id /\ f.scope = run[c].scope /\ f.replace = run[c].replace
      /\ f.order = run[c].order /\ f.forced = run[c].forced /\ f.asked = run[c].asked
      /\ f.adapter = run[c].adapter /\ f.root = run[c].root
      /\ run[c].group \in {"none", "held", "extinct", "lost"}
  BY <1>1, <1>3 DEF Run
<1> HIDE DEF f
<1>6. RunOK(q) /\ Moves(run[c], q) /\ q.stage = "live" /\ q.forced = run[c].forced /\ q.result = result
  BY <1>1, <1>3, <1>5, EndFacts
<1>7. run' = [run EXCEPT ![c] = q] /\ reg' = Finalize(reg, run[c].id, reason)
  BY <1>2 DEF f
<1> HIDE DEF q, reason
<1> QED BY <1>1, <1>4, <1>6, <1>7, VerdictKeeps

LEMMA GroupEndsKeeps ==
    ASSUME Inv, NEW c \in Calls, GroupEnds(c)
    PROVE  Inv'
<1>1. run[c].stage = "live" /\ run[c].group = "held" /\ shut' = shut
  BY DEF GroupEnds
<1>2. RunOK(run[c]) /\ run[c] \in Run
  BY RunEntry
<1>3. CASE /\ run[c].root = "ended"
           /\ run' = [run EXCEPT ![c] = Released([@ EXCEPT !.group = "extinct"])]
           /\ UNCHANGED reg
  <2> DEFINE f == [run[c] EXCEPT !.group = "extinct"]
             q == Released(f)
  <2>1. /\ f \in Run /\ f.result = run[c].result /\ f.group = "extinct" /\ f.stage = "live"
        /\ f.id = run[c].id /\ f.scope = run[c].scope /\ f.replace = run[c].replace
        /\ f.order = run[c].order /\ f.forced = run[c].forced /\ f.asked = run[c].asked
        /\ f.adapter = run[c].adapter /\ f.root = run[c].root
        /\ run[c].result \in {"none", "resolved", "rejected"}
    BY <1>1, <1>2 DEF Run
  <2> HIDE DEF f
  <2>2. RunOK(q) /\ Moves(run[c], q) /\ q.stage = "live" /\ q.forced = run[c].forced /\ q.result = run[c].result
    BY <1>1, <1>2, <1>3, <2>1, EndFacts
  <2>3. run' = [run EXCEPT ![c] = q]
    BY <1>3 DEF f
  <2> HIDE DEF q
  <2> QED BY <1>1, <1>3, <2>2, <2>3, RunKeepsRecord
<1>4. CASE /\ run' = [run EXCEPT ![c] = Released([@ EXCEPT !.group = "lost",
                         !.result = IF run[c].result = "none" THEN "rejected" ELSE run[c].result])]
           /\ reg' = IF run[c].result = "none" THEN Finalize(reg, run[c].id, "spawn-error") ELSE reg
  <2> DEFINE result == IF run[c].result = "none" THEN "rejected" ELSE run[c].result
             f == [run[c] EXCEPT !.group = "lost", !.result = result]
             q == Released(f)
  <2>1. result \in {"none", "resolved", "rejected"} /\ (run[c].result = "none" \/ result = run[c].result)
    BY <1>2 DEF Run
  <2>2. run' = [run EXCEPT ![c] = q]
    BY <1>4
  <2> HIDE DEF result
  <2>3. /\ f \in Run /\ f.result = result /\ f.group = "lost" /\ f.stage = "live"
        /\ f.id = run[c].id /\ f.scope = run[c].scope /\ f.replace = run[c].replace
        /\ f.order = run[c].order /\ f.forced = run[c].forced /\ f.asked = run[c].asked
        /\ f.adapter = run[c].adapter /\ f.root = run[c].root
    BY <1>1, <1>2, <2>1 DEF Run
  <2> HIDE DEF f
  <2>4. RunOK(q) /\ Moves(run[c], q) /\ q.stage = "live" /\ q.forced = run[c].forced /\ q.result = result
    BY <1>1, <1>2, <2>1, <2>3, EndFacts
  <2> HIDE DEF q
  <2>5. CASE run[c].result = "none"
    <3>1. q.result # "none" /\ "spawn-error" \in Reasons
      BY <2>4, <2>5 DEF result, Reasons
    <3> QED BY <1>1, <1>4, <2>2, <2>4, <2>5, <3>1, VerdictKeeps
  <2>6. CASE run[c].result # "none"
    <3>1. q.result = run[c].result /\ reg' = reg
      BY <1>4, <2>4, <2>6 DEF result
    <3> QED BY <1>1, <2>2, <2>4, <3>1, RunKeepsRecord
  <2> QED BY <2>5, <2>6
<1> QED BY <1>3, <1>4 DEF GroupEnds

LEMMA ShutdownStepsKeep ==
    ASSUME Inv, Shutdown \/ Sweep \/ Recheck
    PROVE  Inv'
<1>1. RunsOK(run) /\ Orders(run) /\ IsReg(reg) /\ RecordsOK(run, reg)
  BY DEF Inv
<1>2. CASE Sweep /\ Owned(run) # {}
  <2>1. CancelSet(Owned(run), "manual-cancel") /\ shut' = "waiting"
    BY <1>2 DEF Sweep, Swept
  <2>2. RunsOK(run') /\ Orders(run') /\ IsReg(reg') /\ RecordsOK(run', reg')
    BY <2>1, CancelOwnedKeeps
  <2> QED BY <2>1, <2>2, InvNext
<1>3. CASE Shutdown \/ (Sweep /\ Owned(run) = {}) \/ Recheck
  <2>1. run' = run /\ reg' = reg
    BY <1>3 DEF Shutdown, Sweep, Recheck
  <2>2. /\ shut' \in {"open", "requested", "waiting", "resolved", "rejected"}
        /\ shut' \in {"resolved", "rejected"} => Owned(run) = {}
    BY <1>3 DEF Shutdown, Sweep, Recheck, Inv
  <2> QED BY <1>1, <2>1, <2>2, InvNext
<1> QED BY <1>2, <1>3

-----------------------------------------------------------------------------
(* The registry's books.                                                   *)

Known(g) == {i \in Ids : g.rec[i].state # "none"}
Exited(g) == {i \in Ids : g.rec[i].state = "exited"}

\* The age of the records is a strict total order.
Aged(g) ==
    /\ g.older \subseteq Known(g) \X Known(g)
    /\ \A i \in Known(g) : <<i, i>> \notin g.older
    /\ \A i, j, k \in Known(g) : <<i, j>> \in g.older /\ <<j, k>> \in g.older => <<i, k>> \in g.older
    /\ \A i, j \in Known(g) : i = j \/ <<i, j>> \in g.older \/ <<j, i>> \in g.older

Counts(g) == IsFiniteSet(Exited(g)) /\ g.exited = Cardinality(Exited(g))

Books(g) == Aged(g) /\ Counts(g) /\ g.exited <= MaxExited

\* A finite set of records has an oldest: otherwise the numbers of older ones,
\* which differ, would be too many for their range.
LEMMA OldestExists ==
    ASSUME NEW g, Aged(g), NEW S, S \subseteq Known(g), IsFiniteSet(S), S # {}
    PROVE  \E i \in S : {j \in S : <<j, i>> \in g.older} = {}
<1> DEFINE below(i) == {j \in S : <<j, i>> \in g.older}
           n == Cardinality(S)
           ranks == 1 .. (n - 1)
           rank == [i \in S |-> Cardinality(below(i))]
<1>1. SUFFICES ASSUME \A i \in S : below(i) # {} PROVE FALSE
  OBVIOUS
<1>2. n \in Nat /\ n # 0
  BY FS_CardinalityType, FS_EmptySet
<1>3. ASSUME NEW i \in S PROVE IsFiniteSet(below(i)) /\ Cardinality(below(i)) \in 1 .. (n - 1)
  <2>1. IsFiniteSet(below(i)) /\ Cardinality(below(i)) <= n /\ (n = Cardinality(below(i)) => S = below(i))
    BY FS_Subset
  <2>2. i \notin below(i)
    BY DEF Aged
  <2>3. Cardinality(below(i)) \in Nat /\ Cardinality(below(i)) # 0
    BY <1>1, <2>1, FS_CardinalityType, FS_EmptySet
  <2> HIDE DEF below, n
  <2> QED BY <1>2, <2>1, <2>2, <2>3
<1>4. ASSUME NEW i \in S, NEW k \in S, <<i, k>> \in g.older
      PROVE  Cardinality(below(i)) # Cardinality(below(k))
  <2>1. below(i) \subseteq below(k)
    BY <1>4 DEF Aged
  <2>2. i \in below(k) /\ i \notin below(i)
    BY <1>4 DEF Aged
  <2>3. IsFiniteSet(below(k))
    BY <1>3
  <2> HIDE DEF below
  <2> QED BY <2>1, <2>2, <2>3, FS_Subset
<1>5. rank \in [S -> ranks] /\ \A i \in S : rank[i] = Cardinality(below(i))
  BY <1>3
<1>6. IsFiniteSet(ranks) /\ Cardinality(ranks) < Cardinality(S)
  <2>1. 1 \in Int /\ n - 1 \in Int
    BY <1>2
  <2>2. IsFiniteSet(1 .. (n - 1)) /\ Cardinality(1 .. (n - 1)) = IF 1 > n - 1 THEN 0 ELSE (n - 1) - 1 + 1
    BY <2>1, FS_Interval
  <2>3. IsFiniteSet(ranks) /\ Cardinality(ranks) < n
    <3> HIDE DEF n
    <3> QED BY <1>2, <2>2
  <2> QED BY <2>3
<1> HIDE DEF below, rank, ranks, n
<1>7. PICK x \in S, y \in S : x # y /\ rank[x] = rank[y]
  BY <1>5, <1>6, FS_PigeonHole
<1>8. <<x, y>> \in g.older \/ <<y, x>> \in g.older
  BY <1>7 DEF Aged
<1> QED BY <1>4, <1>5, <1>7, <1>8

\* Records leave the exited ones, and the counter goes down by as many.
LEMMA LeavesBooks ==
    ASSUME NEW g, Books(g), NEW h, h.older = g.older, Known(h) = Known(g), Exited(h) \subseteq Exited(g),
           h.exited = g.exited - Cardinality(Exited(g) \ Exited(h))
    PROVE  Books(h)
<1> DEFINE D == Exited(g) \ Exited(h)
<1>1. IsFiniteSet(Exited(g)) /\ g.exited = Cardinality(Exited(g)) /\ g.exited <= MaxExited
  BY DEF Books, Counts
<1>2. Exited(h) = Exited(g) \ D /\ Exited(g) \cap D = D /\ D \subseteq Exited(g)
  OBVIOUS
<1> HIDE DEF D
<1>3. IsFiniteSet(Exited(h)) /\ Cardinality(Exited(h)) = Cardinality(Exited(g)) - Cardinality(D)
  <2>1. /\ IsFiniteSet(Exited(g) \ D)
        /\ Cardinality(Exited(g) \ D) = Cardinality(Exited(g)) - Cardinality(Exited(g) \cap D)
    BY <1>1, FS_Difference
  <2> QED BY <1>2, <2>1, Zenon
<1>4. /\ Cardinality(D) \in Nat /\ Cardinality(Exited(g)) \in Nat /\ MaxExited \in Nat
  BY <1>1, <1>2, FS_Subset, FS_CardinalityType, LimitAssumption
<1>5. Counts(h) /\ h.exited <= MaxExited
  BY <1>1, <1>3, <1>4 DEF Counts, D
<1>6. Aged(h)
  BY DEF Books, Aged
<1> QED BY <1>5, <1>6 DEF Books

\* One record stops being exited, or was not.
LEMMA OneLeavesBooks ==
    ASSUME NEW g, IsReg(g), Books(g), NEW i \in Ids, NEW h, h.older = g.older, Known(h) = Known(g),
           Exited(h) = Exited(g) \ {i},
           h.exited = IF g.rec[i].state = "exited" THEN g.exited - 1 ELSE g.exited
    PROVE  Books(h)
<1>1. Cardinality({i}) = 1 /\ Cardinality({}) = 0
  BY FS_Singleton, FS_EmptySet
<1>2. g.exited \in Nat
  BY FS_CardinalityType DEF Books, Counts
<1>3. CASE g.rec[i].state = "exited"
  <2>1. Exited(g) \ Exited(h) = {i}
    BY <1>3 DEF Exited
  <2> QED BY <1>1, <1>3, <2>1, LeavesBooks
<1>4. CASE g.rec[i].state # "exited"
  <2>1. Exited(g) \ Exited(h) = {}
    BY <1>4 DEF Exited
  <2>2. g.exited = g.exited - Cardinality(Exited(g) \ Exited(h))
    BY <1>1, <1>2, <2>1
  <2> QED BY <1>4, <2>2, LeavesBooks
<1> QED BY <1>3, <1>4

LEMMA AddBooks ==
    ASSUME NEW g, IsReg(g), Books(g), NEW i \in Ids, NEW state \in States \ {"none", "exited"},
           NEW reason \in Reasons, NEW h, h = Add(g, i, state, reason)
    PROVE  Books(h)
<1>1. \A j \in Ids : h.rec[j] = IF j = i THEN [state |-> state, reason |-> reason] ELSE g.rec[j]
  BY AddFacts
<1>2. h.rec[i].state = state
  BY <1>1
<1>3. Known(h) = Known(g) \cup {i} /\ Exited(h) = Exited(g) \ {i}
  BY <1>1, <1>2 DEF Known, Exited
<1>4. /\ h.older = IF g.rec[i].state # "none" THEN g.older ELSE g.older \cup {<<j, i>> : j \in Known(g)}
      /\ h.exited = IF g.rec[i].state = "exited" THEN g.exited - 1 ELSE g.exited
  BY DEF Add, Exits, Known
<1>5. CASE g.rec[i].state # "none"
  <2>1. Known(h) = Known(g) /\ h.older = g.older
    BY <1>3, <1>4, <1>5 DEF Known
  <2> QED BY <1>3, <1>4, <2>1, OneLeavesBooks
<1>6. CASE g.rec[i].state = "none"
  <2>1. h.older = g.older \cup {<<j, i>> : j \in Known(g)} /\ h.exited = g.exited
    BY <1>4, <1>6
  <2>2. Exited(h) = Exited(g) /\ i \notin Known(g)
    BY <1>3, <1>6 DEF Exited, Known
  <2>3. \A a, b : <<a, b>> \in h.older <=> <<a, b>> \in g.older \/ (b = i /\ a \in Known(g))
    BY <2>1
  <2>4. \A a, b : <<a, b>> \in g.older => a \in Known(g) /\ b \in Known(g)
    BY DEF Books, Aged
  <2>5. h.older \subseteq Known(h) \X Known(h)
    <3>1. g.older \subseteq Known(g) \X Known(g)
      BY DEF Books, Aged
    <3> QED BY <1>3, <2>1, <3>1
  <2>6. \A a \in Known(h) : <<a, a>> \notin h.older
    BY <1>3, <2>2, <2>3, <2>4 DEF Books, Aged
  <2>7. \A a, b, d \in Known(h) : <<a, b>> \in h.older /\ <<b, d>> \in h.older => <<a, d>> \in h.older
    BY <1>3, <2>2, <2>3, <2>4 DEF Books, Aged
  <2>8. \A a, b \in Known(h) : a = b \/ <<a, b>> \in h.older \/ <<b, a>> \in h.older
    BY <1>3, <2>3 DEF Books, Aged
  <2>9. Aged(h)
    BY <2>5, <2>6, <2>7, <2>8 DEF Aged
  <2> QED BY <2>1, <2>2, <2>9 DEF Books, Counts
<1> QED BY <1>5, <1>6

LEMMA UpdateBooks ==
    ASSUME NEW g, IsReg(g), Books(g), NEW i \in Ids, NEW state \in States \ {"none", "exited"},
           NEW reason \in Reasons, NEW h, h = Update(g, i, state, reason)
    PROVE  Books(h)
<1>1. CASE g.rec[i].state = "none"
  BY <1>1 DEF Update
<1>2. CASE g.rec[i].state # "none"
  <2> DEFINE new == [state |-> state, reason |-> IF reason = "none" THEN g.rec[i].reason ELSE reason]
             e == Exits(g, g.rec[i].state, state)
  <2>1. h = [g EXCEPT !.rec[i] = new, !.exited = e]
    BY <1>2 DEF Update
  <2>2. new.state = state /\ e = IF g.rec[i].state = "exited" THEN g.exited - 1 ELSE g.exited
    BY DEF Exits
  <2> HIDE DEF new, e
  <2>3. h = [rec |-> [g.rec EXCEPT ![i] = new], older |-> g.older, exited |-> e]
    BY <2>1, RegExcept
  <2>4. h.rec = [g.rec EXCEPT ![i] = new] /\ h.older = g.older /\ h.exited = e
    BY <2>3
  <2>5. h.rec[i] = new /\ \A j \in Ids : j # i => h.rec[j] = g.rec[j]
    BY <2>4 DEF IsReg
  <2>6. Known(h) = Known(g) /\ Exited(h) = Exited(g) \ {i}
    BY <1>2, <2>2, <2>5 DEF Known, Exited
  <2> QED BY <2>2, <2>4, <2>6, OneLeavesBooks
<1> QED BY <1>1, <1>2

\* One record too many: the oldest exited one leaves, and only that.
LEMMA PruneBooks ==
    ASSUME NEW g, IsReg(g), Aged(g), Counts(g), g.exited <= MaxExited + 1
    PROVE  Books(Prune(g))
<1> DEFINE old == {i \in Ids : g.rec[i].state = "exited"}
           over == IF g.exited > MaxExited THEN g.exited - MaxExited ELSE 0
           below(i) == {j \in old : <<j, i>> \in g.older}
           gone == {i \in old : Cardinality(below(i)) < over}
           h == Prune(g)
<1>1. /\ h.rec = [i \in Ids |-> IF i \in gone THEN NoRecord ELSE g.rec[i]]
      /\ h.older = {p \in g.older : p[1] \notin gone /\ p[2] \notin gone}
      /\ h.exited = g.exited - Cardinality(gone)
  BY DEF Prune
<1>2. /\ old = Exited(g) /\ IsFiniteSet(old) /\ old \subseteq Known(g) /\ g.exited = Cardinality(old)
      /\ g.exited \in Nat /\ MaxExited \in Nat /\ over \in Nat
  <2>1. old = Exited(g) /\ IsFiniteSet(old) /\ g.exited = Cardinality(old)
    BY DEF Counts, Exited
  <2>2. g.exited \in Nat
    BY <2>1, FS_CardinalityType
  <2>3. old \subseteq Known(g)
    BY DEF Known
  <2> HIDE DEF old
  <2> QED BY <2>1, <2>2, <2>3, LimitAssumption
<1>3. gone \subseteq old
  OBVIOUS
<1>4. ASSUME NEW i \in old
      PROVE  Cardinality(below(i)) \in Nat /\ (Cardinality(below(i)) = 0 <=> below(i) = {})
  <2>1. IsFiniteSet(below(i))
    BY <1>2, FS_Subset
  <2> QED BY <2>1, FS_CardinalityType, FS_EmptySet
<1>5. /\ Known(h) = Known(g) \ gone /\ Exited(h) = Exited(g) \ gone
  <2>1. \A i \in Ids : h.rec[i].state = IF i \in gone THEN "none" ELSE g.rec[i].state
    BY <1>1 DEF NoRecord
  <2> HIDE DEF gone, h
  <2> QED BY <2>1 DEF Known, Exited
<1>6. Aged(h)
  <2>1. \A a, b : <<a, b>> \in h.older <=> <<a, b>> \in g.older /\ a \notin gone /\ b \notin gone
    <3> HIDE DEF gone, h
    <3> QED BY <1>1
  <2>2. g.older \subseteq Known(g) \X Known(g)
    BY DEF Aged
  <2> HIDE DEF gone, h
  <2>3. h.older \subseteq Known(h) \X Known(h)
    BY <1>1, <1>5, <2>2
  <2>4. \A a \in Known(h) : <<a, a>> \notin h.older
    BY <1>5, <2>1 DEF Aged
  <2>5. \A a, b, d \in Known(h) : <<a, b>> \in h.older /\ <<b, d>> \in h.older => <<a, d>> \in h.older
    BY <1>5, <2>1 DEF Aged
  <2>6. \A a, b \in Known(h) : a = b \/ <<a, b>> \in h.older \/ <<b, a>> \in h.older
    BY <1>5, <2>1 DEF Aged
  <2> QED BY <2>3, <2>4, <2>5, <2>6 DEF Aged
<1>7. Counts(h) /\ h.exited <= MaxExited
  <2>1. CASE g.exited <= MaxExited
    <3>1. over = 0
      BY <1>2, <2>1
    <3>2. gone = {}
      <4> HIDE DEF over, below
      <4> QED BY <1>4, <3>1
    <3>3. h.exited = g.exited
      <4>1. Cardinality(gone) = 0
        BY <3>2, FS_EmptySet
      <4> HIDE DEF gone, h, old, over
      <4> QED BY <1>1, <1>2, <4>1
    <3>4. Exited(h) = Exited(g)
      BY <1>5, <3>2
    <3> QED BY <2>1, <3>3, <3>4 DEF Counts
  <2>2. CASE g.exited > MaxExited
    <3>1. over = 1 /\ g.exited = MaxExited + 1
      BY <1>2, <2>2
    <3>2. old # {}
      BY <1>2, <3>1, FS_EmptySet
    <3>3. PICK o \in old : below(o) = {}
      <4> HIDE DEF old
      <4> QED BY <1>2, <3>2, OldestExists
    <3>4. \A i \in old : i \in gone <=> below(i) = {}
      <4> HIDE DEF over, below
      <4> QED BY <1>4, <3>1
    <3>5. ASSUME NEW i \in old, below(i) = {} PROVE i = o
      <4>1. <<o, i>> \notin g.older /\ <<i, o>> \notin g.older
        BY <3>3, <3>5
      <4> QED BY <1>2, <4>1 DEF Aged
    <3>6. gone = {o}
      <4> HIDE DEF gone, below
      <4> QED BY <1>3, <3>3, <3>4, <3>5
    <3>7. Cardinality({o}) = 1
      BY FS_Singleton
    <3>8. h.exited = MaxExited
      <4>1. Cardinality(gone) = 1
        BY <3>6, <3>7
      <4> HIDE DEF gone, h, old, over
      <4> QED BY <1>1, <1>2, <3>1, <4>1
    <3>9. IsFiniteSet(Exited(h)) /\ Cardinality(Exited(h)) = g.exited - 1
      <4>1. Exited(h) = old \ {o}
        BY <1>2, <1>5, <3>6
      <4> HIDE DEF old
      <4>2. IsFiniteSet(old \ {o}) /\ Cardinality(old \ {o}) = Cardinality(old) - 1
        BY <1>2, FS_RemoveElement
      <4> QED BY <1>2, <4>1, <4>2
    <3> QED BY <1>2, <3>1, <3>8, <3>9 DEF Counts
  <2> QED BY <1>2, <2>1, <2>2
<1> QED BY <1>6, <1>7 DEF Books

LEMMA FinalizeBooks ==
    ASSUME NEW g, IsReg(g), Books(g), NEW i \in Ids, NEW reason \in Reasons
    PROVE  Books(Finalize(g, i, reason))
<1> DEFINE new == [state |-> "exited",
                   reason |-> IF g.rec[i].reason = "none" THEN reason ELSE g.rec[i].reason]
           e == g.exited + 1
           h == [rec |-> [g.rec EXCEPT ![i] = new], older |-> g.older, exited |-> e]
<1>1. CASE g.rec[i].state \in {"none", "exited"}
  BY <1>1 DEF Finalize
<1>2. CASE g.rec[i].state \notin {"none", "exited"}
  <2>1. g.rec[i] \in Record
    BY DEF IsReg
  <2>2. new \in Record /\ new.state = "exited"
    BY <2>1 DEF Record
  <2>3. Finalize(g, i, reason) = Prune(h)
    <3>1. Finalize(g, i, reason) = Prune([g EXCEPT !.rec[i] = new, !.exited = e])
      BY <1>2 DEF Finalize
    <3> HIDE DEF new, e
    <3>2. [g EXCEPT !.rec[i] = new, !.exited = e] = h
      BY RegExcept
    <3> QED BY <3>1, <3>2
  <2>4. h.exited = g.exited + 1
    OBVIOUS
  <2> HIDE DEF new, e
  <2>5. h.rec = [g.rec EXCEPT ![i] = new] /\ h.older = g.older /\ IsReg(h)
    BY <2>2 DEF IsReg
  <2> HIDE DEF h
  <2>6. h.rec[i] = new /\ \A j \in Ids : j # i => h.rec[j] = g.rec[j]
    BY <2>5 DEF IsReg
  <2>7. Known(h) = Known(g) /\ Exited(h) = Exited(g) \cup {i} /\ i \notin Exited(g)
    BY <1>2, <2>2, <2>6 DEF Known, Exited
  <2>8. Aged(h)
    BY <2>5, <2>7 DEF Books, Aged
  <2>9. IsFiniteSet(Exited(g)) /\ g.exited = Cardinality(Exited(g)) /\ g.exited <= MaxExited
    BY DEF Books, Counts
  <2>10. IsFiniteSet(Exited(h)) /\ Cardinality(Exited(g)) \in Nat /\ Cardinality(Exited(h)) = Cardinality(Exited(g)) + 1
    BY <2>7, <2>9, OneMore
  <2>11. Counts(h) /\ h.exited <= MaxExited + 1
    BY <2>4, <2>9, <2>10, LimitAssumption DEF Counts
  <2> QED BY <2>3, <2>5, <2>8, <2>11, PruneBooks
<1> QED BY <1>1, <1>2

LEMMA NotedBooks ==
    ASSUME NEW g, IsReg(g), Books(g), NEW rs, RunsOK(rs), NEW c \in Calls, rs[c].order # 0,
           NEW reason \in Reasons \ {"none"}
    PROVE  /\ Books(Noted(g, rs, c, reason))
           /\ g.rec[rs[c].id].state = "none" => Noted(g, rs, c, reason) = g
<1> DEFINE why == IF rs[c].forced = "none" THEN reason ELSE rs[c].forced
<1>1. rs[c].id \in Ids /\ rs[c] \in Run
  BY DEF RunsOK, RunOK, Placed
<1>2. why \in Reasons /\ "exiting" \in States \ {"none", "exited"}
  BY <1>1 DEF Run, States
<1>3. Noted(g, rs, c, reason) = g \/ Noted(g, rs, c, reason) = Update(g, rs[c].id, "exiting", why)
  BY DEF Noted
<1> HIDE DEF why
<1>4. Books(Update(g, rs[c].id, "exiting", why))
  BY <1>1, <1>2, UpdateBooks
<1>5. g.rec[rs[c].id].state = "none" => Update(g, rs[c].id, "exiting", why) = g
  BY DEF Update
<1> QED BY <1>3, <1>4, <1>5

LEMMA CancelRecordsBooks ==
    ASSUME NEW g, IsReg(g), Books(g), NEW rs, RunsOK(rs), NEW cs, Cancellable(rs, cs),
           NEW reason \in Reasons \ {"none"}, NEW h, h = CancelRecords(g, rs, cs, reason)
    PROVE  Books(h)
<1> DEFINE of(i) == {c \in cs : rs[c].id = i}
           now(i) == IF of(i) = {} THEN g ELSE Noted(g, rs, CHOOSE c \in of(i) : TRUE, reason)
           back == {i \in Ids : g.rec[i].state = "exited" /\ now(i).rec[i].state # "exited"}
           rec == [i \in Ids |-> now(i).rec[i]]
<1>1. h = [g EXCEPT !.rec = rec, !.exited = g.exited - Cardinality(back)]
  BY DEF CancelRecords
<1>2. g = [rec |-> g.rec, older |-> g.older, exited |-> g.exited]
  BY DEF IsReg
<1>3. h.rec = rec /\ h.older = g.older /\ h.exited = g.exited - Cardinality(back)
  <2> HIDE DEF rec, back
  <2> QED BY <1>1, <1>2
<1>4. \A j \in Ids : h.rec[j] = now(j).rec[j]
  BY <1>3
<1>5. back = Exited(g) \ Exited(h)
  <2> HIDE DEF now
  <2> QED BY <1>4 DEF Exited
<1>6. ASSUME NEW j \in Ids
      PROVE  h.rec[j] = g.rec[j] \/ (g.rec[j].state # "none" /\ h.rec[j].state = "exiting")
  <2>1. CASE h.rec[j] = g.rec[j]
    BY <2>1
  <2>2. CASE \E x \in cs : rs[x].id = j /\ h.rec[j] = Noted(g, rs, x, reason).rec[j]
    <3>1. PICK x \in cs : rs[x].id = j /\ h.rec[j] = Noted(g, rs, x, reason).rec[j]
      BY <2>2
    <3>2. x \in Calls /\ rs[x].order # 0
      BY DEF Cancellable, RunsOK, RunOK, Placed
    <3>3. \/ Noted(g, rs, x, reason).rec[rs[x].id] = g.rec[rs[x].id]
          \/ Noted(g, rs, x, reason).rec[rs[x].id].state = "exiting"
      BY <3>2, NotedFacts
    <3>4. g.rec[rs[x].id].state = "none" => Noted(g, rs, x, reason) = g
      BY <3>2, NotedBooks
    <3> QED BY <3>1, <3>3, <3>4
  <2> QED BY <2>1, <2>2, CancelRecordsFacts
<1>7. Known(h) = Known(g) /\ Exited(h) \subseteq Exited(g)
  BY <1>6 DEF Known, Exited
<1> HIDE DEF back
<1> QED BY <1>3, <1>5, <1>7, LeavesBooks

\* startRun keeps the books.
LEMMA RecordedBooks ==
    ASSUME NEW g, IsReg(g), Books(g), NEW rs, RunsOK(rs), Orders(rs),
           NEW c \in Calls, rs[c].stage = "fenced", NEW h, h = Recorded(g, rs, c)
    PROVE  Books(h)
<1> DEFINE i == rs[c].id
<1>1. rs[c] \in Run /\ i \in Ids /\ rs[c].forced \in Reasons
  BY DEF RunsOK, RunOK, Placed, Run
<1>2. /\ "starting" \in States \ {"none", "exited"} /\ "exiting" \in States \ {"none", "exited"}
      /\ "none" \in Reasons /\ "manual-cancel" \in Reasons \ {"none"}
  BY DEF States, Reasons
<1> HIDE DEF i
<1>3. CASE rs[c].forced # "none"
  <2> DEFINE k == Add(g, i, "exiting", rs[c].forced)
  <2>1. h = Finalize(k, i, rs[c].forced)
    BY <1>3 DEF Recorded, i
  <2>2. Books(k)
    BY <1>1, <1>2, AddBooks
  <2>3. IsReg(k)
    BY <1>1, <1>2, AddFacts
  <2> HIDE DEF k
  <2> QED BY <1>1, <2>1, <2>2, <2>3, FinalizeBooks
<1>4. CASE rs[c].forced = "none"
  <2> DEFINE k == Add(g, i, "starting", "none")
             cs == {d \in active(rs) : rs[c].replace /\ rs[d].scope = rs[c].scope}
  <2>1. h = CancelRecords(k, rs, cs, "manual-cancel")
    BY <1>4 DEF Recorded, i
  <2>2. Books(k)
    BY <1>1, <1>2, AddBooks
  <2>3. IsReg(k)
    BY <1>1, <1>2, AddFacts
  <2>4. cs \subseteq Owned(rs)
    BY DEF Owned
  <2> HIDE DEF k, cs
  <2>5. Cancellable(rs, cs)
    BY <2>4, OwnedCancellable
  <2> QED BY <1>2, <2>1, <2>2, <2>3, <2>5, CancelRecordsBooks
<1> QED BY <1>3, <1>4

LEMMA SpawnBooks ==
    ASSUME Inv, Books(reg), NEW c \in Calls, Spawn(c)
    PROVE  Books(reg')
<1>1. RunsOK(run) /\ Orders(run) /\ IsReg(reg)
  BY DEF Inv
<1>2. PICK i \in IdsOf[c], scope \in Scopes, replace \in BOOLEAN :
        LET rs == [run EXCEPT ![c] = Reservation(run, i, scope, replace)]
        IN  reg' = reg \/ (~Taken(run, i) /\ reg' = Recorded(reg, rs, c))
  BY DEF Spawn, Reservation
<1> DEFINE q == Reservation(run, i, scope, replace)
           rs == [run EXCEPT ![c] = q]
<1>3. run[c].stage = "unused" /\ i \in Ids
  BY IdAssumption DEF Spawn
<1>4. CASE ~Taken(run, i) /\ reg' = Recorded(reg, rs, c)
  <2>1. RunsOK(rs) /\ Orders(rs)
    BY <1>1, <1>3, <1>4, Reserved
  <2>2. q.stage = "fenced"
    BY <1>1, <1>3, ReservationFacts
  <2>3. rs[c].stage = "fenced"
    BY <1>1, <2>2 DEF RunsOK
  <2> HIDE DEF rs
  <2> QED BY <1>1, <1>4, <2>1, <2>3, RecordedBooks
<1> QED BY <1>2, <1>4

\* Every step keeps the books.
LEMMA BooksStep ==
    ASSUME Inv, Books(reg), [Next]_vars
    PROVE  Books(reg')
<1>1. RunsOK(run) /\ Orders(run) /\ IsReg(reg)
  BY DEF Inv
<1>2. "manual-cancel" \in Reasons \ {"none"} /\ "spawn-error" \in Reasons \ {"none"}
  BY DEF Reasons
<1>3. ASSUME NEW cs, Cancellable(run, cs), CancelSet(cs, "manual-cancel") PROVE Books(reg')
  BY <1>1, <1>2, <1>3, CancelRecordsBooks DEF CancelSet
<1>4. ASSUME NEW c \in Calls, RunStep(c) PROVE Books(reg')
  <2>1. CASE Cancel(c)
    <3>1. Cancellable(run, {c})
      BY <2>1 DEF Cancellable, Cancel
    <3> QED BY <1>3, <2>1, <3>1 DEF Cancel
  <2>2. CASE Spawn(c)
    BY <2>2, SpawnBooks
  <2>3. CASE PassFence(c)
    BY <1>1, <2>3, RecordedBooks DEF PassFence, Cleared
  <2>4. CASE AdapterCreated(c)
    <3> DEFINE state == IF run[c].forced = "none" THEN "running" ELSE "exiting"
    <3>1. run[c].id \in Ids /\ run[c].forced \in Reasons
      BY <2>4, RunEntry DEF AdapterCreated, Run
    <3>2. state \in States \ {"none", "exited"}
      BY DEF States
    <3>3. \/ reg' = Update(reg, run[c].id, state, run[c].forced)
          \/ reg' = Finalize(reg, run[c].id, "spawn-error")
      BY <2>4 DEF AdapterCreated
    <3> HIDE DEF state
    <3> QED BY <1>1, <1>2, <3>1, <3>2, <3>3, UpdateBooks, FinalizeBooks
  <2>5. CASE ListenerThrows(c)
    <3>1. run[c].order # 0 /\ reg' = Noted(reg, run, c, "spawn-error")
      BY <2>5, RunEntry DEF ListenerThrows
    <3> QED BY <1>1, <1>2, <3>1, NotedBooks
  <2>6. CASE Settle(c) \/ GroupEnds(c)
    <3>1. run[c].id \in Ids /\ run[c].forced \in Reasons
      BY <2>6, RunEntry DEF Settle, GroupEnds, Run
    <3>2. reg' = reg \/ \E reason \in Reasons : reg' = Finalize(reg, run[c].id, reason)
      BY <2>6, <3>1 DEF Settle, GroupEnds, Reasons
    <3> QED BY <1>1, <3>1, <3>2, FinalizeBooks
  <2>7. CASE ClearPendingStart(c) \/ RootEnds(c) \/ HolderExits(c) \/ InputFails(c) \/ ForceKill(c)
    BY <2>7 DEF ClearPendingStart, RootEnds, HolderExits, InputFails, ForceKill
  <2> QED BY <1>4, <2>1, <2>2, <2>3, <2>4, <2>5, <2>6, <2>7 DEF RunStep
<1>5. ASSUME NEW s \in Scopes, CancelScope(s) PROVE Books(reg')
  <2> DEFINE cs == {c \in Owned(run) : run[c].scope = s}
  <2>1. cs \subseteq Owned(run) /\ CancelSet(cs, "manual-cancel")
    BY <1>5 DEF CancelScope
  <2> HIDE DEF cs
  <2> QED BY <1>1, <1>3, <2>1, OwnedCancellable
<1>6. CASE Shutdown \/ Sweep \/ Recheck
  <2>1. reg' = reg \/ CancelSet(Owned(run), "manual-cancel")
    BY <1>6 DEF Shutdown, Sweep, Swept, Recheck
  <2> QED BY <1>1, <1>3, <2>1, OwnedCancellable
<1>7. CASE UNCHANGED vars
  BY <1>7 DEF vars
<1> QED BY <1>4, <1>5, <1>6, <1>7 DEF Next

-----------------------------------------------------------------------------
(* The theorems.                                                           *)

LEMMA InitInv ==
    ASSUME Init
    PROVE  Inv
<1>1. RunOK(Unused) /\ Unused.order = 0 /\ Unused.stage = "unused"
  BY DEF RunOK, Run, Unused, Unlaunched, GivenUp, GroupOK, Signalled, Placed, Reasons
<1>2. \A c \in Calls : run[c] = Unused
  BY DEF Init
<1>3. RunsOK(run)
  BY <1>1, <1>2 DEF Init, RunsOK, RunOK
<1>4. startingRuns(run) = {} /\ active(run) = {} /\ Used(run) = {} /\ Owned(run) = {}
  BY <1>1, <1>2 DEF startingRuns, active, Used, Owned
<1>5. Ranked(run)
  <2>1. IsFiniteSet(Used(run)) /\ Cardinality(Used(run)) = 0
    BY <1>4, FS_EmptySet
  <2> QED BY <1>1, <1>2, <2>1 DEF Ranked
<1>6. Orders(run)
  BY <1>1, <1>2, <1>4, <1>5 DEF Orders, Fenced, Held, LastExists, Reused, Superseded
<1>7. IsReg(reg)
  BY DEF Init, IsReg, Record, NoRecord, Reasons
<1>8. RecordsOK(run, reg)
  BY <1>1, <1>2 DEF RecordsOK
<1>9. shut = "open"
  BY DEF Init
<1> QED BY <1>3, <1>6, <1>7, <1>8, <1>9 DEF Inv, Closed

LEMMA NextInv ==
    ASSUME Inv, [Next]_vars
    PROVE  Inv'
<1>1. CASE UNCHANGED vars
  BY <1>1 DEF vars, Inv, Closed
<1>2. CASE Next
  <2>1. ASSUME NEW c \in Calls, RunStep(c) PROVE Inv'
    BY <2>1, CancelKeeps, SpawnKeeps, PassFenceKeeps, AdapterCreatedKeeps, ClearPendingStartKeeps,
       RootEndsKeeps, HolderExitsKeeps, InputFailsKeeps, ListenerThrowsKeeps, ForceKillKeeps,
       SettleKeeps, GroupEndsKeeps
       DEF RunStep
  <2>2. ASSUME NEW s \in Scopes, CancelScope(s) PROVE Inv'
    BY <2>2, CancelScopeKeeps
  <2> QED BY <1>2, <2>1, <2>2, ShutdownStepsKeep DEF Next
<1> QED BY <1>1, <1>2

\* The three layers hold in every state of the supervisor, whatever its calls do
\* (supervisor-runtime.ts lines 191-590, registry.ts).
THEOREM RuntimeInvariance == Spec => []Inv
<1>1. Init => Inv
  BY InitInv
<1>2. Inv /\ [Next]_vars => Inv'
  BY NextInv
<1> QED BY <1>1, <1>2, PTL DEF Spec

\* "Stopping a run cannot silently leave a late child alive" (supervisor-runtime.ts
\* lines 531-532): a cancelled run that has a process was signalled, also when the
\* cancellation came while createAdapter was awaited.
THEOREM NoLateChild == Spec => []CancelledIsSignalled
<1>1. Inv => CancelledIsSignalled
  BY DEF Inv, CancelledIsSignalled, RunsOK, RunOK, Signalled, active
<1> QED BY <1>1, RuntimeInvariance, PTL

\* A replacement that runs has every earlier run of its scope being stopped
\* (supervisor-runtime.ts lines 221-225).
THEOREM Supersession == Spec => []ReplacementSupersedes
<1>1. Inv => ReplacementSupersedes
  BY DEF Inv, Orders, Superseded, ReplacementSupersedes
<1> QED BY <1>1, RuntimeInvariance, PTL

\* "Delayed cancellation cannot accidentally terminate a newer scoped run"
\* (supervisor-runtime.ts lines 542-543): passing a fence changes no run that was
\* spawned after the one that passes it, since each is still behind a fence.
THEOREM LaterRunsSpared == Spec => ReplacementSparesLater
<1>1. ASSUME Inv, NEW r \in Calls, NEW c \in Calls, PassFence(r), run[r].order < run[c].order
      PROVE  run'[c] = run[c]
  <2>1. RunsOK(run) /\ Held(run)
    BY <1>1 DEF Inv, Orders
  <2>2. /\ run[r].stage = "fenced" /\ run' = [Started(run, r) EXCEPT ![r].behind = {}]
    BY <1>1 DEF PassFence, Cleared
  <2>3. run[r].order # 0 /\ r \in startingRuns(run)
    BY <2>1, <2>2 DEF RunsOK, RunOK, Placed, startingRuns
  <2>4. run[r].order \in Nat
    BY <2>1 DEF RunsOK, Run
  <2>5. c # r
    BY <1>1, <2>4
  <2>6. run'[c] = CancelRuns(run, Ousted(run, r), "manual-cancel")[c]
    BY <2>1, <2>2, <2>5, StartedRuns
  <2>7. c \notin Ousted(run, r)
    <3>1. SUFFICES ASSUME c \in Ousted(run, r) PROVE FALSE
      OBVIOUS
    <3>2. run[r].replace /\ run[c].scope = run[r].scope /\ run[c].stage = "live"
      BY <3>1 DEF Ousted, active
    <3>3. Before(run, r, c)
      BY <1>1, <2>3, <3>2 DEF Before
    <3>4. run[c].stage = "fenced"
      BY <2>1, <2>3, <3>2, <3>3 DEF Held
    <3> QED BY <3>2, <3>4
  <2> QED BY <2>6, <2>7 DEF CancelRuns
<1>2. Inv /\ [Next]_vars =>
        [\A r, c \in Calls : PassFence(r) /\ run[r].order < run[c].order => run'[c] = run[c]]_vars
  BY <1>1
<1> QED BY <1>2, RuntimeInvariance, PTL DEF Spec, ReplacementSparesLater

LEMMA LatestHeads ==
    ASSUME NEW c \in Calls, Latest(c), ~Shadowed(c)
    PROVE  Heads(run, c)
  BY DEF Latest, Shadowed, Heads

\* Pruning never touches a live run (registry.ts lines 37-39): the last run of an
\* identity keeps its record while it is starting or has no result.
THEOREM LiveRecordKept == Spec => []LiveRunRecorded
<1>1. ASSUME Inv, NEW c \in Calls, Latest(c), ~Shadowed(c),
             run[c].stage \in {"creating", "live"}, run[c].result = "none"
      PROVE  reg.rec[run[c].id].state \in {"starting", "running", "exiting"}
  <2>1. run[c].order # 0 /\ RecordsOK(run, reg)
    BY <1>1, RunEntry DEF Inv
  <2>2. RecordOK(run[c], reg.rec[run[c].id])
    BY <1>1, <2>1, LatestHeads DEF RecordsOK
  <2> QED BY <1>1, <2>2 DEF RecordOK
<1>2. Inv => LiveRunRecorded
  BY <1>1 DEF LiveRunRecorded
<1> QED BY <1>2, RuntimeInvariance, PTL

\* The first terminal reason wins (registry.ts lines 123-125): a cancelled run is
\* recorded as cancelled, whatever its adapter or its start did afterwards.
THEOREM FirstReasonKept == Spec => []FirstReasonRecorded
<1>1. ASSUME Inv, NEW c \in Calls, Latest(c), ~Shadowed(c), run[c].stage \in {"live", "over"},
             run[c].forced # "none", reg.rec[run[c].id].state = "exited"
      PROVE  reg.rec[run[c].id].reason = run[c].forced
  <2>1. run[c].order # 0 /\ RecordsOK(run, reg)
    BY <1>1 DEF Inv, RunsOK, RunOK, Placed
  <2>2. RecordOK(run[c], reg.rec[run[c].id])
    BY <1>1, <2>1, LatestHeads DEF RecordsOK
  <2> QED BY <1>1, <2>2 DEF RecordOK
<1>2. Inv => FirstReasonRecorded
  BY <1>1 DEF FirstReasonRecorded
<1> QED BY <1>2, RuntimeInvariance, PTL

\* shutdown() resolves over nothing (supervisor-runtime.ts lines 577-589): nothing is
\* owned, and a command that still runs belongs to a group the relay lost.
THEOREM ShutdownExtinct == Spec => []ShutdownMeansExtinct
<1>1. ASSUME Inv, shut = "resolved"
      PROVE  /\ Owned(run) = {}
             /\ \A c \in Calls : run[c].root = "running" => run[c].group = "lost"
  <2>1. Owned(run) = {}
    BY <1>1 DEF Inv, Closed
  <2>2. ASSUME NEW c \in Calls, run[c].root = "running" PROVE run[c].group = "lost"
    <3>1. RunOK(run[c]) /\ run[c].stage = "live"
      BY <1>1, <2>2, RunEntry
    <3>2. Extinct(run[c])
      BY <2>1, <3>1 DEF Owned, active
    <3> QED BY <2>2, <3>1, <3>2 DEF RunOK, GivenUp
  <2> QED BY <2>1, <2>2
<1>2. Inv => ShutdownMeansExtinct
  BY <1>1 DEF ShutdownMeansExtinct
<1> QED BY <1>2, RuntimeInvariance, PTL

\* The registry's books are kept (registry.ts lines 47-135).
LEMMA BooksInvariance == Spec => []Books(reg)
<1>1. Init => Books(reg)
  <2> SUFFICES ASSUME Init PROVE Books(reg)
    OBVIOUS
  <2>1. reg.older = {} /\ reg.exited = 0 /\ \A i \in Ids : reg.rec[i].state = "none"
    BY DEF Init, NoRecord
  <2>2. Known(reg) = {} /\ Exited(reg) = {}
    BY <2>1 DEF Known, Exited
  <2>3. Counts(reg) /\ reg.exited <= MaxExited
    BY <2>1, <2>2, FS_EmptySet, LimitAssumption DEF Counts
  <2> QED BY <2>1, <2>2, <2>3 DEF Books, Aged
<1>2. Inv /\ Books(reg) /\ [Next]_vars => Books(reg)'
  BY BooksStep
<1> QED BY <1>1, <1>2, RuntimeInvariance, PTL DEF Spec

\* "Keep this exact across every write path" (registry.ts line 44): exitedRecords is
\* the number of exited records, whichever of add, updateState, finalize and cancel
\* wrote last, and it never exceeds the cap that "bounds memory" (line 39).
THEOREM ExitedExact ==
    Spec => [](reg.exited = Cardinality({i \in Ids : reg.rec[i].state = "exited"}) /\ reg.exited <= MaxExited)
<1>1. Books(reg) =>
        reg.exited = Cardinality({i \in Ids : reg.rec[i].state = "exited"}) /\ reg.exited <= MaxExited
  BY DEF Books, Counts, Exited
<1> QED BY <1>1, BooksInvariance, PTL

\* shutdown's snapshot (supervisor-runtime.ts lines 147-170) holds calls, and so
\* does the set of runs whose pipes a descendant holds.
Snapshot ==
    /\ awaited \in [starts : SUBSET Calls, owned : SUBSET Calls] /\ lost \in BOOLEAN
    /\ holders \subseteq Calls

LEMMA SnapshotStep == Snapshot /\ [Next]_vars => Snapshot'
<1> SUFFICES ASSUME Snapshot, [Next]_vars PROVE Snapshot'
    OBVIOUS
<1>1. startingRuns(run) \in SUBSET Calls /\ active(run) \in SUBSET Calls
  BY DEF startingRuns, active
<1>2. CASE UNCHANGED <<awaited, lost>>
  <2>1. holders' \subseteq Calls
    BY <1>2 DEF Snapshot, Next, vars, RunStep, Cancel, CancelScope, Spawn, PassFence, AdapterCreated,
            ClearPendingStart, RootEnds, HolderExits, InputFails, ListenerThrows, ForceKill, Settle,
            GroupEnds, Shutdown, Sweep, Recheck
  <2> QED BY <1>2, <2>1 DEF Snapshot
<1>3. CASE Sweep
  BY <1>1, <1>3 DEF Sweep, Snapshot
<1>4. CASE Recheck
  <2>1. lost' \in BOOLEAN
    BY <1>4 DEF Recheck
  <2>2. awaited' \in [starts : SUBSET Calls, owned : SUBSET Calls]
    BY <1>1, <1>4 DEF Recheck, Snapshot
  <2>3. holders' \subseteq Calls
    BY <1>4 DEF Recheck, Snapshot
  <2> QED BY <2>1, <2>2, <2>3 DEF Snapshot
<1> QED BY <1>2, <1>3, <1>4
        DEF Next, vars, RunStep, Cancel, CancelScope, Spawn, PassFence, AdapterCreated,
            ClearPendingStart, RootEnds, HolderExits, InputFails, ListenerThrows, ForceKill, Settle,
            GroupEnds, Shutdown

\* Every variable keeps its type (supervisor-runtime.ts lines 191-590, registry.ts).
THEOREM RuntimeTyping == Spec => []TypeOK
<1>1. Init => Snapshot
  <2>1. Init => lost \in BOOLEAN
    BY DEF Init
  <2>2. Init => awaited \in [starts : SUBSET Calls, owned : SUBSET Calls]
    BY DEF Init
  <2>3. Init => holders \subseteq Calls
    BY DEF Init
  <2> QED BY <2>1, <2>2, <2>3 DEF Snapshot
<1>2. Inv /\ Books(reg) /\ Snapshot => TypeOK
  <2> SUFFICES ASSUME Inv, Books(reg), Snapshot PROVE TypeOK
    OBVIOUS
  <2>1. reg.older \subseteq Ids \X Ids
    BY DEF Books, Aged, Known
  <2>2. reg.exited \in Nat
    BY FS_CardinalityType DEF Books, Counts
  <2> QED BY <2>1, <2>2 DEF Inv, RunsOK, Run, IsReg, Record, Snapshot, TypeOK
<1> QED BY <1>1, <1>2, SnapshotStep, RuntimeInvariance, BooksInvariance, PTL DEF Spec
=============================================================================
