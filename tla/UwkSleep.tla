------------------------------ MODULE UwkSleep ------------------------------
(***************************************************************************)
(* Timed waits of the exos library (src/lib/libexos/os/uwk.c,             *)
(* wk_waitfor_usecs, wk_mkusleep_pred, wk_mksleep_pred).  A caller turns *)
(* a delay in microseconds into a target tick count, builds the predicate *)
(* "si_system_ticks > target" from the two 32-bit halves of the 64-bit    *)
(* counter, and sleeps until the kernel finds it true; the clock interrupt *)
(* advances si_system_ticks meanwhile.                                     *)
(*                                                                         *)
(* HalfBits scales a 32-bit half and UsecBits the u_int width of usecs.   *)
(* The predicate is kept as its terms; EvalPred reads them the way the     *)
(* header comment of uwk.c describes the kernel: the comparisons of one    *)
(* component hold together and WK_OR separates components (the kernel's   *)
(* evaluator is not in the tree).  The extras, signal and revocation      *)
(* components wk_waitfor_pred adds are the subject of module Uwk.          *)
(***************************************************************************)
EXTENDS Integers, Sequences

CONSTANTS
  HalfBits,    \* bits of each half of si_system_ticks (32)
  UsecBits,    \* bits of u_int usecs (32)
  Rates,       \* the values si_rate (microseconds per tick) may have
  Torn,        \* whether a tick can fall between the two loads of line 467
  Words,       \* the values of the watched int *addr and of value
  KilledInit,  \* the values __sysinfo.si_killed_envs may start from
  MaxKilled,   \* the bound on si_killed_envs
  PageCounts   \* the values si_nfreepages, si_ndpages, si_pinnedpages may have

Half == 2^HalfBits
MaxNow == Half * Half - 1
Usecs == 0..(2^UsecBits - 1)

Lo(x) == x % Half
Hi(x) == x \div Half

VARIABLES
  now,         \* __sysinfo.si_system_ticks
  rate,        \* __sysinfo.si_rate
  pc,          \* "idle", or "asleep" in wk_waitfor_pred
  usecs,       \* the argument of wk_waitfor_usecs
  start,       \* the tick count when wk_waitfor_usecs was called
  target,      \* ticks: the count the predicate waits to pass
  pred,        \* the downloaded predicate, as its terms
  woke,        \* the tick count when the latest wait returned
  word,        \* *addr, the int a value wait watches
  killed,      \* __sysinfo.si_killed_envs
  kind,        \* the wait in progress: "usecs", a value wait, "envdeath",
               \* "true" or "false"
  wval,        \* the value argument of a value wait
  pages,       \* [free, dirty, pinned]: si_nfreepages, si_ndpages, si_pinnedpages
  snap         \* the counts wk_waitfor_freepages read into its predicate

vars == <<now, rate, pc, usecs, start, target, pred, woke, word, killed, kind, wval, pages, snap>>

ValueKinds == {"value", "neq", "lt", "gt"}
Kinds == {"usecs", "envdeath", "true", "false", "freepages"} \cup ValueKinds
PageSets == [free : PageCounts, dirty : PageCounts, pinned : PageCounts]

\* the locals of a call are dead once it returns; a new call clears those
\* of the other kinds of wait
NoWord == CHOOSE w \in Words : TRUE
ClearUsecs == usecs' = 0 /\ start' = 0 /\ woke' = 0
ClearValue == wval' = NoWord
NoSnap == [free |-> 0, dirty |-> 0, pinned |-> 0]
ClearSnap == snap' = NoSnap

Var(v) == [k |-> "var", v |-> v]
Imm(n) == [k |-> "imm", v |-> n]
Op(o) == [k |-> "op", v |-> o]

\* mutant: the high halves not required equal in the first component
MkSleepPredNoEq(ticks) ==
  << Var("lo"), Imm(Lo(ticks)), Op("GT"),
     Op("OR"),
     Var("hi"), Imm(Hi(ticks)), Op("GT") >>

\* wk_mksleep_pred (lines 413-436): [lo > (u32)ticks, hi == ticks[1]] OR
\* [hi > ticks[1]]
MkSleepPred(ticks) ==
  << Var("lo"), Imm(Lo(ticks)), Op("GT"),
     Var("hi"), Imm(Hi(ticks)), Op("EQ"),
     Op("OR"),
     Var("hi"), Imm(Hi(ticks)), Op("GT") >>

\* wk_mkcmp_eq_pred, wk_mkcmp_gt_pred (lines 358-366, 377-385): *addr
\* compared with value
MkCmpEqPred(a) == << Var("w"), Imm(a), Op("EQ") >>
MkCmpGtPred(a) == << Var("w"), Imm(a), Op("GT") >>

\* wk_mkcmp_neq_pred (lines 368-375)
MkCmpNeqPred(a) == << Var("w"), Imm(a), Op("NEQ") >>

\* wk_mkfalse_pred, wk_mktrue_pred (lines 388-409): 0 != 0 and 0 == 0
MkConstPred(b) == << Imm(0), Imm(0), Op(IF b THEN "EQ" ELSE "NEQ") >>

\* wk_mkenvdeath_pred (lines 438-463): the same split as wk_mksleep_pred,
\* of si_killed_envs against the count read at the call
MkEnvdeathPred(count) ==
  << Var("klo"), Imm(Lo(count)), Op("GT"),
     Var("khi"), Imm(Hi(count)), Op("EQ"),
     Op("OR"),
     Var("khi"), Imm(Hi(count)), Op("GT") >>

\* the predicate each wk_waitfor_value* downloads (lines 302-356): the
\* first two through wk_mkcmp_eq_pred and wk_mkcmp_neq_pred, the last two
\* built in place with WK_LT and WK_GT
MkValuePred(k, a) ==
  CASE k = "value" -> MkCmpEqPred(a)
    [] k = "neq"   -> MkCmpNeqPred(a)
    [] k = "lt"    -> << Var("w"), Imm(a), Op("LT") >>
    [] k = "gt"    -> << Var("w"), Imm(a), Op("GT") >>

\* the while condition of each wk_waitfor_value* loop: the caller sleeps
\* again while it holds
LoopCond(k, w, a) ==
  CASE k = "value" -> w # a
    [] k = "neq"   -> w = a
    [] k = "lt"    -> w >= a
    [] k = "gt"    -> w <= a

\* wk_waitfor_freepages (lines 495-508): any of more free pages, fewer
\* dirty pages or fewer pinned pages than the counts read
MkFreepagesPred(c) ==
  << Var("free"), Imm(c.free), Op("GT"),
     Op("OR"),
     Var("dirty"), Imm(c.dirty), Op("LT"),
     Op("OR"),
     Var("pinned"), Imm(c.pinned), Op("LT") >>

Cmp(o, a, b) == CASE o = "GT" -> a > b [] o = "EQ" -> a = b
                  [] o = "LT" -> a < b [] o = "NEQ" -> a # b

\* the kernel's reading of a predicate: values are pushed, a comparison
\* pops two and joins the current component, WK_OR starts a new one
RECURSIVE Ev(_, _, _, _, _)
Ev(t, env, stk, conj, disj) ==
  IF t = <<>> THEN disj \/ conj
  ELSE LET x == Head(t) IN
    CASE x.k = "var" -> Ev(Tail(t), env, Append(stk, env[x.v]), conj, disj)
      [] x.k = "imm" -> Ev(Tail(t), env, Append(stk, x.v), conj, disj)
      [] x.v = "OR"  -> Ev(Tail(t), env, <<>>, TRUE, disj \/ conj)
      [] OTHER ->
           Ev(Tail(t), env, SubSeq(stk, 1, Len(stk) - 2),
              conj /\ Cmp(x.v, stk[Len(stk) - 1], stk[Len(stk)]), disj)

EvalPred(t, env) == Ev(t, env, <<>>, TRUE, FALSE)

\* the words a predicate may name, as the kernel reads them
Env == [lo |-> Lo(now), hi |-> Hi(now), w |-> word,
        klo |-> Lo(killed), khi |-> Hi(killed),
        free |-> pages.free, dirty |-> pages.dirty, pinned |-> pages.pinned]

\* mutant: usecs + si_rate - 1 computed in a signed int
UsleepTicksSigned(u, r, ticks) ==
  (((u + r - 1 + 2^(UsecBits - 1)) % 2^UsecBits) - 2^(UsecBits - 1)) \div r + ticks

\* wk_mkusleep_pred (lines 465-472): usecs + si_rate - 1 is u_int
\* arithmetic, the sum with si_system_ticks unsigned long long
UsleepTicks(u, r, ticks) == ((u + r - 1) % 2^UsecBits) \div r + ticks

\* line 467 loads the 64-bit si_system_ticks as two 32-bit words; with a
\* tick between the loads it gets one half of each count, in either order
TornReads(n) == {Hi(n + 1) * Half + Lo(n), Hi(n) * Half + Lo(n + 1)}

Init ==
  /\ now \in 0..MaxNow
  /\ rate \in Rates
  /\ pc = "idle"
  /\ usecs = 0 /\ start = now /\ target = now
  /\ pred = MkSleepPred(now)
  /\ woke = now
  /\ word \in Words /\ killed \in KilledInit
  /\ kind = "usecs" /\ wval = NoWord
  /\ pages \in PageSets /\ snap = NoSnap

\* wk_waitfor_usecs (lines 474-481): compute the target from the clock
\* read at the call, build the predicate, download it and sleep
Sleep(u, read) ==
  /\ usecs' = u
  /\ target' = UsleepTicks(u, rate, read)
  /\ pred' = MkSleepPred(UsleepTicks(u, rate, read))
  /\ pc' = "asleep"
  /\ kind' = "usecs"

WaitforUsecs(u) ==
  /\ pc = "idle"
  /\ Sleep(u, now)
  /\ start' = now /\ ClearValue /\ ClearSnap
  /\ UNCHANGED <<now, rate, woke, word, killed, pages>>

\* the same call with the clock interrupt between the two loads
WaitforUsecsTorn(u) ==
  /\ Torn /\ pc = "idle" /\ now < MaxNow
  /\ \E read \in TornReads(now) : Sleep(u, read)
  /\ start' = now
  /\ now' = now + 1 /\ ClearValue /\ ClearSnap
  /\ UNCHANGED <<rate, woke, word, killed, pages>>

\* the while test of a value wait: sleep (again) on the predicate while
\* the condition fails, else return having read *addr
LoopTest(k, a) ==
  IF LoopCond(k, word, a)
    THEN pc' = "asleep"
    ELSE pc' = "idle"

\* wk_waitfor_value, _neq, _lt, _gt (lines 302-356): build the predicate,
\* then loop on the condition
WaitforValue(k, a) ==
  /\ pc = "idle"
  /\ kind' = k /\ wval' = a /\ pred' = MkValuePred(k, a)
  /\ LoopTest(k, a)
  /\ ClearUsecs /\ target' = 0 /\ ClearSnap
  /\ UNCHANGED <<now, rate, word, killed, pages>>

\* a caller downloads wk_mkenvdeath_pred (lines 438-463), built from the
\* count of killed environments it reads, and sleeps on it
WaitforEnvdeath ==
  /\ pc = "idle"
  /\ kind' = "envdeath" /\ target' = killed /\ pred' = MkEnvdeathPred(killed)
  /\ pc' = "asleep"
  /\ ClearUsecs /\ ClearValue /\ ClearSnap
  /\ UNCHANGED <<now, rate, word, killed, pages>>

\* a caller sleeps on wk_mktrue_pred or wk_mkfalse_pred (lines 388-409)
WaitforConst(b) ==
  /\ pc = "idle"
  /\ kind' = (IF b THEN "true" ELSE "false")
  /\ pred' = MkConstPred(b)
  /\ pc' = "asleep"
  /\ ClearUsecs /\ ClearValue /\ target' = 0 /\ ClearSnap
  /\ UNCHANGED <<now, rate, word, killed, pages>>

\* wk_waitfor_freepages (lines 488-509): when si_nfreepages is at most
\* si_ndpages + si_pinnedpages, read the three counts again, build the
\* predicate from them and sleep once; otherwise return at once.  The
\* caller may be preempted between the test and the reads
WaitforFreepages ==
  /\ pc = "idle"
  /\ kind' = "freepages"
  /\ pc' = IF pages.free <= pages.dirty + pages.pinned THEN "reading" ELSE "idle"
  /\ ClearUsecs /\ ClearValue /\ ClearSnap /\ target' = 0
  /\ UNCHANGED <<now, rate, pred, word, killed, pages>>

FreepagesSleep ==
  /\ pc = "reading"
  /\ snap' = pages /\ pred' = MkFreepagesPred(pages)
  /\ pc' = "asleep"
  /\ UNCHANGED <<now, rate, usecs, start, target, woke, word, killed, kind, wval, pages>>

\* the kernel frees, cleans, dirties, pins or unpins pages
PagesChange(c) ==
  /\ c # pages
  /\ pages' = c
  /\ UNCHANGED <<now, rate, pc, usecs, start, target, pred, woke, word, killed, kind, wval, snap>>

\* the clock interrupt
Tick ==
  /\ now < MaxNow
  /\ now' = now + 1
  /\ UNCHANGED <<rate, pc, usecs, start, target, pred, woke, word, killed, kind, wval, pages, snap>>

\* another environment stores to *addr
Store(v) ==
  /\ v # word
  /\ word' = v
  /\ UNCHANGED <<now, rate, pc, usecs, start, target, pred, woke, killed, kind, wval, pages, snap>>

\* an environment is killed: the kernel counts it in si_killed_envs
EnvDies ==
  /\ killed < MaxKilled
  /\ killed' = killed + 1
  /\ UNCHANGED <<now, rate, pc, usecs, start, target, pred, woke, word, kind, wval, pages, snap>>

\* the kernel finds the downloaded predicate true and makes the sleeper
\* runnable; it runs again some time later
Wake ==
  /\ pc = "asleep"
  /\ EvalPred(pred, Env)
  /\ pc' = "woken"
  /\ UNCHANGED <<now, rate, usecs, start, target, pred, woke, word, killed, kind, wval, pages, snap>>

\* wk_waitfor_pred returns to its caller: a value wait goes round its
\* loop (lines 310, 323, 337, 351), every other wait returns
Resume ==
  /\ pc = "woken"
  /\ IF kind \in ValueKinds
       THEN LoopTest(kind, wval) /\ UNCHANGED woke
       ELSE pc' = "idle" /\ woke' = (IF kind = "usecs" THEN now ELSE 0)
  /\ UNCHANGED <<now, rate, usecs, start, target, pred, word, killed, kind, wval, pages, snap>>

Next ==
  \/ \E u \in Usecs : WaitforUsecs(u) \/ WaitforUsecsTorn(u)
  \/ \E k \in ValueKinds, a \in Words : WaitforValue(k, a)
  \/ WaitforEnvdeath
  \/ \E b \in BOOLEAN : WaitforConst(b)
  \/ \E v \in Words : Store(v)
  \/ WaitforFreepages \/ FreepagesSleep
  \/ \E c \in PageSets : PagesChange(c)
  \/ Tick \/ EnvDies \/ Wake \/ Resume

Spec == Init /\ [][Next]_vars

(***************************************************************************)
(* Properties                                                              *)
(***************************************************************************)
TypeOK ==
  /\ now \in 0..MaxNow /\ rate \in Rates /\ pc \in {"idle", "reading", "asleep", "woken"}
  /\ usecs \in Usecs /\ start \in 0..MaxNow /\ target \in Nat
  /\ woke \in 0..MaxNow /\ word \in Words /\ killed \in 0..MaxNow
  /\ kind \in Kinds /\ wval \in Words
  /\ pages \in PageSets /\ snap \in PageSets

\* the condition the sleeper waits for
WaitOver ==
  CASE kind = "usecs"       -> now > target
    [] kind = "envdeath"    -> killed > target
    [] kind \in ValueKinds  -> ~LoopCond(kind, word, wval)
    [] kind = "true"        -> TRUE
    [] kind = "false"       -> FALSE
    [] kind = "freepages"   -> \/ pages.free > snap.free
                               \/ pages.dirty < snap.dirty
                               \/ pages.pinned < snap.pinned

\* Every predicate a sleeper has downloaded is true exactly when what it
\* waits for has happened: the split of si_system_ticks and
\* si_killed_envs into 32-bit halves by wk_mksleep_pred and
\* wk_mkenvdeath_pred loses nothing at the carry between the halves, and
\* each wk_waitfor_value* downloads the negation of the condition its loop
\* sleeps on, so the kernel neither leaves a satisfied waiter asleep nor
\* wakes one in vain
WaitPredExact == pc = "asleep" => (EvalPred(pred, Env) <=> WaitOver)

\* A caller of wk_waitfor_freepages never sleeps while more pages are free
\* than dirty and pinned together without the kernel's predicate holding:
\* a sleeper there is woken as soon as pages may be allocated
FreepagesNotStale ==
  pc = "asleep" /\ kind = "freepages" /\ pages.free > pages.dirty + pages.pinned
    => EvalPred(pred, Env)

\* wk_waitfor_usecs(usecs) sleeps at least usecs: from the call to the
\* return at least usecs / si_rate ticks pass, for every u_int usecs
UsleepLongEnough ==
  pc = "idle" /\ kind = "usecs" /\ woke > start => (woke - start) * rate >= usecs

\* wk_waitfor_usecs(usecs) waits no more than usecs / si_rate ticks,
\* rounded up, past the tick the call saw, plus the tick it may miss: the
\* target computed from the clock it read is never further ahead
UsleepNotTooLong ==
  pc = "asleep" /\ kind = "usecs" => target <= start + 1 + (usecs + rate - 1) \div rate
====
