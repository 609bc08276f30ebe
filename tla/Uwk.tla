--------------------------------- MODULE Uwk ---------------------------------
(***************************************************************************)
(* User-level wakeup predicates of the exos library                        *)
(* (src/lib/libexos/os/uwk.c).  A process that waits calls                *)
(* wk_waitfor_pred_directed with its own predicate; the function copies it *)
(* into the global buffer wksuper, appends one component per registered   *)
(* extra (WK_OR, WK_TAG(UWK_TAG_MIN+i), the extra's construct), a signal   *)
(* component and a page-revocation component (both tagged UWK_TAG_MAX),  *)
(* downloads the whole predicate to the kernel and sleeps.  When the      *)
(* kernel wakes it on a tagged component, the extra's callback runs and    *)
(* the predicate is rebuilt (wait_again); otherwise the call returns.     *)
(*                                                                         *)
(* Terms are counted, not written: a downloaded predicate is kept as the   *)
(* sequence of its components, each with its tag and the party that built *)
(* it.  wk_mkop and wk_mktag each add one term ("for OR and TAG", line     *)
(* 155); the kernel's wk.h and its predicate evaluator are not in the     *)
(* tree.  Code running while the process sleeps (the prolog) or inside a   *)
(* callback may register and deregister extras and, inside a callback,    *)
(* wait again; RegisterIn and MaxDepth say which of these happen.          *)
(***************************************************************************)
EXTENDS Integers, Sequences, FiniteSets

CONSTANTS
  MaxExtras,     \* MAX_EXTRAS: slots of wk_extras
  Extras,        \* the (construct, param) pairs callers register
  MaxLen,        \* MaxLen[e]: the maxlen an extra is registered with
  Callers,       \* the libOS callers of wk_waitfor_pred
  Size,          \* Size[c]: the number of terms of caller c's predicate
  SigSize,       \* terms built by wk_mksig_pred (UWK_MKSIG_PRED_SIZE)
  RevSize,       \* terms built by wk_mkrev_pred (UWK_MKREV_PRED_SIZE)
  DefaultLen,    \* DEFAULT_MALLOCED_WKLEN
  RegisterIn,    \* where wk_register_extra is called: "idle", "sleep", "callback"
  MaxDepth,      \* bound on nested waits (a callback that waits again)
  NoExtra        \* an empty slot (construct == NULL)

ASSUME NoExtra \notin Extras

Slots == 0..(MaxExtras - 1)

\* tags relative to UWK_TAG_MIN: slot i tags its component i, the signal and
\* revocation components UWK_TAG_MAX (taken as UWK_TAG_MIN + MAX_EXTRAS,
\* the header is not in the tree); the caller's own terms carry no tag of
\* that range
TagMax == MaxExtras
OrigTag == -1

VARIABLES
  extras,        \* wk_extras[i].construct/param, NoExtra when NULL
  callbacks,     \* wk_extras[i].callback/param: whose, kept after deregistering
  extraMaxlen,   \* wk_extra_maxlen
  superlen,      \* superlen: the capacity of wksuper
  front,         \* whose predicate fills wksuper[0 .. origsz-1]
  stack,         \* the active calls of wk_waitfor_pred_directed, innermost last
  hw,            \* terms written by the latest build (its final sz)
  lastRet        \* the result of the latest register/deregister call

vars == <<extras, callbacks, extraMaxlen, superlen, front, stack, hw, lastRet>>

Comp == [tag : Slots \cup {OrigTag, TagMax}, by : Extras \cup Callers \cup {"sig", "rev"}]
NoComp == [tag |-> -2, by |-> NoExtra]
FrameOK(f) ==
  /\ f.who \in Callers /\ f.origsz \in Nat /\ f.pc \in {"sleep", "callback"}
  /\ \A k \in DOMAIN f.pred : f.pred[k] \in Comp
  /\ f.fired \in Comp \cup {NoComp} /\ f.cb \in Extras \cup {NoExtra}

Top == stack[Len(stack)]

\* where the process is: no wait in progress, asleep in yield, or in a callback
Context == IF stack = <<>> THEN "idle" ELSE Top.pc

SlotLen(i) == IF extras[i] = NoExtra THEN 0 ELSE MaxLen[extras[i]]

\* what each registered construct returns this time: at most its maxlen
\* (a larger value is the assert at lines 192-198)
Rets == {r \in [Slots -> 0..2] : \A i \in Slots : r[i] <= SlotLen(i)}

\* the loop at lines 186-203: slot i adds OR, TAG and its terms, and moves
\* sz past them only when construct returned terms
RECURSIVE BuildExtras(_, _, _, _)
BuildExtras(i, sz, comps, r) ==
  IF i > MaxExtras - 1 THEN [sz |-> sz, comps |-> comps]
  ELSE IF extras[i] # NoExtra /\ r[i] > 0
       THEN BuildExtras(i + 1, sz + 2 + r[i],
                        Append(comps, [tag |-> i, by |-> extras[i]]), r)
       ELSE BuildExtras(i + 1, sz, comps, r)

\* lines 184-224: the predicate downloaded for a caller of origsz terms
\* whose buffer front holds owner's terms; its sz is the last term written
Download(origsz, owner, r) ==
  LET b == BuildExtras(0, origsz, <<[tag |-> OrigTag, by |-> owner]>>, r)
  IN  [sz |-> b.sz + 2 + SigSize + 2 + RevSize,
       comps |-> b.comps \o <<[tag |-> TagMax, by |-> "sig"],
                              [tag |-> TagMax, by |-> "rev"]>>]

\* mutant: the buffer sized for the signal and revocation components only
NeedSzBase(sz) == sz + SigSize + 2 + RevSize + 2

\* lines 166-180: the buffer is grown to sz + wk_extra_maxlen
NeedSz(sz) == sz + extraMaxlen

Sleeping(f, d) == [f EXCEPT !.pc = "sleep", !.pred = d.comps,
                            !.fired = NoComp, !.cb = NoExtra]

\* wait_again (lines 184-230) for the innermost call: rebuild from origsz
\* with the buffer as it is, download, sleep
WaitAgain ==
  \E r \in Rets :
    LET d == Download(Top.origsz, front, r)
    IN  /\ hw' = d.sz
        /\ stack' = [stack EXCEPT ![Len(stack)] = Sleeping(Top, d)]

(***************************************************************************)
(* Operations                                                              *)
(***************************************************************************)
Init ==
  /\ extras = [i \in Slots |-> NoExtra]
  /\ callbacks = [i \in Slots |-> NoExtra]
  /\ extraMaxlen = SigSize + 2 + RevSize + 2
  /\ superlen = DefaultLen
  /\ front = CHOOSE c \in Callers : TRUE
  /\ stack = <<>>
  /\ hw = 0
  /\ lastRet = 0

\* wk_waitfor_pred_directed entered: by a caller, or by a callback
WaitforPred(c) ==
  /\ Len(stack) < MaxDepth
  /\ Context \in {"idle", "callback"}
  /\ superlen' = IF NeedSz(Size[c]) > superlen THEN NeedSz(Size[c]) ELSE superlen
  /\ front' = c
  /\ \E r \in Rets :
       LET d == Download(Size[c], c, r)
       IN  /\ hw' = d.sz
           /\ stack' = Append(stack, Sleeping([who |-> c, origsz |-> Size[c],
                                  pc |-> "sleep", pred |-> <<>>,
                                  fired |-> NoComp, cb |-> NoExtra], d))
  /\ UNCHANGED <<callbacks, extras, extraMaxlen, lastRet>>

\* the kernel wakes the process on component k; components are evaluated in
\* order, so any of them can be the first true one
Fired(k) == Top.pred[k]

\* lines 233, 246-255: woken by the caller's own predicate: sys_wkpred(NULL, 0)
\* and return
WakeOwn ==
  /\ Context = "sleep"
  /\ \E k \in DOMAIN Top.pred : Fired(k).tag = OrigTag
  /\ stack' = SubSeq(stack, 1, Len(stack) - 1)
  /\ UNCHANGED <<callbacks, extras, extraMaxlen, superlen, front, hw, lastRet>>

\* lines 233-237, 242-243: woken by UWK_TAG_MAX (signal or revocation): no callback
WakeSignal ==
  /\ Context = "sleep"
  /\ \E k \in DOMAIN Top.pred : Fired(k).tag = TagMax
  /\ WaitAgain
  /\ UNCHANGED <<callbacks, extras, extraMaxlen, superlen, front, lastRet>>

\* lines 233-241: woken by slot i's tag; the callback of whatever slot i
\* holds now runs if its construct is set
CallbackOf(i) == IF extras[i] # NoExtra THEN callbacks[i] ELSE NoExtra

WakeExtra ==
  /\ Context = "sleep"
  /\ \E k \in DOMAIN Top.pred :
       /\ Fired(k).tag \in Slots
       /\ CallbackOf(Fired(k).tag) # NoExtra
       /\ stack' = [stack EXCEPT ![Len(stack)] =
                      [Top EXCEPT !.pc = "callback", !.fired = Fired(k),
                                  !.cb = CallbackOf(Fired(k).tag)]]
  /\ UNCHANGED <<callbacks, extras, extraMaxlen, superlen, front, hw, lastRet>>

\* lines 238-242: slot i was deregistered meanwhile: no callback, wait again
WakeDeregistered ==
  /\ Context = "sleep"
  /\ \E k \in DOMAIN Top.pred :
       /\ Fired(k).tag \in Slots
       /\ CallbackOf(Fired(k).tag) = NoExtra
  /\ WaitAgain
  /\ UNCHANGED <<callbacks, extras, extraMaxlen, superlen, front, lastRet>>

\* lines 240-243: the callback returns; sz = origsz; goto wait_again
CallbackDone ==
  /\ Context = "callback"
  /\ WaitAgain
  /\ UNCHANGED <<callbacks, extras, extraMaxlen, superlen, front, lastRet>>

\* mutant: the search loop runs to i <= MAX_EXTRAS
FreeSlotsPastEnd == {i \in 0..MaxExtras : i \notin Slots \/ extras[i] = NoExtra}

FreeSlots == {i \in Slots : extras[i] = NoExtra}
FirstSlot(S) == CHOOSE i \in S : \A j \in S : i <= j

\* wk_register_extra (lines 258-275): the first free slot
RegisterExtra(e) ==
  /\ Context \in RegisterIn
  /\ FreeSlots # {}
  /\ extras' = [extras EXCEPT ![FirstSlot(FreeSlots)] = e]
  /\ callbacks' = [callbacks EXCEPT ![FirstSlot(FreeSlots)] = e]
  /\ extraMaxlen' = extraMaxlen + MaxLen[e] + 2
  /\ lastRet' = FirstSlot(FreeSlots)
  /\ UNCHANGED <<superlen, front, stack, hw>>

\* lines 276-277: no free slot, -1
RegisterFull ==
  /\ Context \in RegisterIn
  /\ FreeSlots = {}
  /\ lastRet' = -1
  /\ UNCHANGED <<callbacks, extras, extraMaxlen, superlen, front, stack, hw>>

\* wk_deregister_extra (lines 281-293): the first slot holding e
SlotsOf(e) == {i \in Slots : extras[i] = e}

DeregisterExtra(e) ==
  /\ SlotsOf(e) # {}
  /\ extras' = [extras EXCEPT ![FirstSlot(SlotsOf(e))] = NoExtra]
  /\ extraMaxlen' = extraMaxlen - (MaxLen[e] + 2)
  /\ lastRet' = 0
  /\ UNCHANGED <<callbacks, superlen, front, stack, hw>>

\* lines 294-296: not registered, -1
DeregisterMissing(e) ==
  /\ SlotsOf(e) = {}
  /\ lastRet' = -1
  /\ UNCHANGED <<callbacks, extras, extraMaxlen, superlen, front, stack, hw>>

Next ==
  \/ \E c \in Callers : WaitforPred(c)
  \/ WakeOwn \/ WakeSignal \/ WakeExtra \/ WakeDeregistered \/ CallbackDone
  \/ \E e \in Extras : RegisterExtra(e) \/ DeregisterExtra(e) \/ DeregisterMissing(e)
  \/ RegisterFull

Spec == Init /\ [][Next]_vars

(***************************************************************************)
(* Properties                                                              *)
(***************************************************************************)
TypeOK ==
  /\ extras \in [Slots -> Extras \cup {NoExtra}]
  /\ callbacks \in [Slots -> Extras \cup {NoExtra}]
  /\ extraMaxlen \in Nat /\ superlen \in Nat /\ hw \in Nat
  /\ front \in Callers
  /\ Len(stack) <= MaxDepth /\ \A k \in DOMAIN stack : FrameOK(stack[k])
  /\ lastRet \in Slots \cup {-1}

\* wk_waitfor_pred_directed never writes past the end of wksuper: the
\* buffer sized from wk_extra_maxlen at entry holds every rebuild of the
\* predicate, whatever the extras registered since
NoOverflow == hw <= superlen

\* A callback run after a wakeup (line 239) is the callback of the extra
\* whose component the kernel found true, and that extra is still
\* registered when it runs: not another extra that took its slot since the
\* predicate was downloaded, nor one deregistered meanwhile
CallbackStarts(k) ==
  stack'[k].pc = "callback" /\ (k > Len(stack) \/ stack[k].pc = "sleep")

CallbackOwner ==
  [][\A k \in DOMAIN stack' :
       CallbackStarts(k) =>
         LET f == stack'[k] IN f.cb = f.fired.by /\ extras[f.fired.tag] = f.cb]_vars

\* Every downloaded predicate starts with the waiting caller's own terms:
\* a call waits for its own condition, even after a nested wait in one of
\* its callbacks used the same global buffer
OwnPredicate ==
  \A k \in DOMAIN stack :
    stack[k].pc = "sleep" => stack[k].pred[1].by = stack[k].who
====
