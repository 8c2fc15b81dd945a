-------------------------- MODULE CppRouterProofs --------------------------
(***************************************************************************)
(* What holds of the C++ router and connector for any application, any     *)
(* messages and requests, and callbacks nested to any depth.               *)
(***************************************************************************)
EXTENDS CppRouter, SequenceTheorems, TLAPS

USE CppRouterAssumption

-----------------------------------------------------------------------------
(* The stack.                                                              *)

\* Popping a frame leaves those below.
LEMMA Popped ==
  ASSUME NEW S, NEW s \in Seq(S), s # <<>>
  PROVE  /\ Front(s) \in Seq(S)
         /\ Len(Front(s)) = Len(s) - 1
         /\ \A i \in 1 .. Len(s) - 1 : Front(s)[i] = s[i]
<1>1. Len(s) \in Nat \ {0}
  OBVIOUS
<1> DEFINE m == Len(s) - 1
           t == SubSeq(s, 1, m)
<1>2. m \in Nat /\ \A i \in 1 .. m : s[i] \in S /\ 1 + i - 1 = i /\ i \in 1 .. m - 1 + 1
  BY <1>1
<1> HIDE DEF m
<1>3. /\ t \in Seq(S)
      /\ Len(t) = IF 1 <= m THEN m - 1 + 1 ELSE 0
      /\ \A i \in 1 .. m - 1 + 1 : t[i] = s[1 + i - 1]
  BY <1>2, SubSeqProperties
<1>4. Front(s) = t
  BY DEF Front, m
<1> HIDE DEF t
<1>5. Len(t) = m /\ \A i \in 1 .. m : t[i] = s[i]
  BY <1>2, <1>3
<1> QED
  BY <1>3, <1>4, <1>5 DEF m

\* The frame on top is a frame.
LEMMA TopIsFrame ==
  ASSUME TypeOK, stack # <<>>
  PROVE  Top \in Frames /\ Len(stack) \in Nat \ {0} /\ Top = stack[Len(stack)]
<1>1. stack \in Seq(Frames)
  BY DEF TypeOK
<1> QED
  BY <1>1 DEF Top, Last

\* Frames below one whose flag is raised: Propagated has the frames below the
\* top one, with one flag raised.
LEMMA PropagatedFrames ==
  ASSUME TypeOK, stack # <<>>
  PROVE  /\ Propagated \in Seq(Frames)
         /\ Len(Propagated) = Len(stack) - 1
         /\ \A i \in 1 .. Len(stack) - 1 :
              /\ Propagated[i].kind = stack[i].kind /\ Propagated[i].n = stack[i].n
              /\ Propagated[i].prev = stack[i].prev /\ Propagated[i].loop = stack[i].loop
              /\ Propagated[i].destroyed = IF i = Top.prev THEN TRUE ELSE stack[i].destroyed
<1>1. stack \in Seq(Frames) /\ Len(stack) - 1 \in Nat
  BY DEF TypeOK
<1> DEFINE raised(i) == [stack[i] EXCEPT !.destroyed = TRUE]
<1>2. \A i \in 1 .. Len(stack) - 1 : stack[i] \in Frames
  BY <1>1
<1>3. \A i \in 1 .. Len(stack) - 1 :
        /\ raised(i) \in Frames
        /\ raised(i).kind = stack[i].kind /\ raised(i).n = stack[i].n
        /\ raised(i).prev = stack[i].prev /\ raised(i).loop = stack[i].loop
        /\ raised(i).destroyed = TRUE
  BY <1>2 DEF Frames
<1>4. Propagated = [i \in 1 .. Len(stack) - 1 |-> IF i = Top.prev THEN raised(i) ELSE stack[i]]
  BY DEF Propagated
<1> HIDE DEF raised
<1>5. Propagated \in [1 .. Len(stack) - 1 -> Frames]
  BY <1>2, <1>3, <1>4
<1>6. Propagated \in Seq(Frames) /\ Len(Propagated) = Len(stack) - 1
  BY <1>1, <1>5
<1> QED
  BY <1>3, <1>4, <1>6

\* ~Connector() raises one flag.
LEMMA DestroyFrames ==
  ASSUME TypeOK, Destroy
  PROVE  /\ stack' \in Seq(Frames)
         /\ Len(stack') = Len(stack)
         /\ \A i \in DOMAIN stack :
              /\ stack'[i].kind = stack[i].kind /\ stack'[i].n = stack[i].n
              /\ stack'[i].prev = stack[i].prev /\ stack'[i].loop = stack[i].loop
              /\ stack'[i].destroyed = IF i = destroyedFlag THEN TRUE ELSE stack[i].destroyed
<1>1. stack \in Seq(Frames) /\ Len(stack) \in Nat /\ DOMAIN stack = 1 .. Len(stack)
  BY DEF TypeOK
<1> DEFINE raised(i) == [stack[i] EXCEPT !.destroyed = TRUE]
<1>2. \A i \in DOMAIN stack : stack[i] \in Frames
  BY <1>1
<1>3. \A i \in DOMAIN stack :
        /\ raised(i) \in Frames
        /\ raised(i).kind = stack[i].kind /\ raised(i).n = stack[i].n
        /\ raised(i).prev = stack[i].prev /\ raised(i).loop = stack[i].loop
        /\ raised(i).destroyed = TRUE
  BY <1>2 DEF Frames
<1>4. stack' = [i \in DOMAIN stack |-> IF i = destroyedFlag THEN raised(i) ELSE stack[i]]
  BY DEF Destroy
<1> HIDE DEF raised
<1>5. stack' \in [1 .. Len(stack) -> Frames]
  BY <1>1, <1>2, <1>3, <1>4
<1>6. stack' \in Seq(Frames) /\ Len(stack') = Len(stack)
  BY <1>1, <1>5
<1> QED
  BY <1>3, <1>4, <1>6

-----------------------------------------------------------------------------
(* Type correctness.                                                       *)

\* ReadSingleMessage() after the dispatch.
LEMMA UnwindType ==
  ASSUME TypeOK, stack # <<>>, NEW ok \in BOOLEAN, Unwind(ok)
  PROVE  /\ stack' \in Seq(Frames) /\ destroyedFlag' \in Nat
         /\ pc' \in {"app", "notify", "read_all"}
<1>1. stack \in Seq(Frames) /\ destroyedFlag \in Nat
  BY DEF TypeOK
<1>2. CASE WasDestroyed
  BY <1>1, <1>2, PropagatedFrames DEF Unwind
<1>3. CASE ~WasDestroyed
  <2>1. stack' = Front(stack) /\ destroyedFlag' = Top.prev
        /\ pc' \in {"app", "notify", "read_all"}
    BY <1>3 DEF Unwind, RestoredFlag
  <2>2. Top.prev \in Nat
    BY TopIsFrame DEF Frames
  <2> QED
    BY <1>1, <2>1, <2>2, Popped
<1> QED
  BY <1>2, <1>3

\* Everything the router, the application and the peer write is of its type.
LEMMA TypeStep ==
  ASSUME TypeOK, [Next]_vars
  PROVE  TypeOK'
<1>t. stack \in Seq(Frames) /\ inbox \in Seq(Messages)
  BY DEF TypeOK
<1>1. CASE OnHandleReady \/ WaitForIncomingMessage \/ ReadNothing \/ ReadFails
  BY <1>1 DEF TypeOK, OnHandleReady, WaitForIncomingMessage, ReadNothing, ReadFails,
              WaitsAgain, connVars, routerVars, peerVars, appVars
<1>2. CASE ReadMessage
  <2> DEFINE msg == Head(inbox)
  <2>1. msg \in Messages /\ inbox' \in Seq(Messages)
    BY <1>2, <1>t DEF ReadMessage
  <2>2. /\ msg.kind \in Kinds \cup {"response"} /\ msg.n \in Nat
        /\ Frame(msg, pc = "read_all") \in Frames
    BY <2>1 DEF Messages, Frames, Frame, TypeOK
  <2>3. /\ pc' = Dispatch(msg)
        /\ IF Dispatch(msg) = "app"
           THEN /\ stack' = Append(stack, Frame(msg, pc = "read_all"))
                /\ destroyedFlag' = Len(stack) + 1
                /\ responders' = responders \ ErasedBeforeCall(msg)
                /\ thunks' = IF msg.kind = "request" THEN thunks \cup {msg.n} ELSE thunks
           ELSE UNCHANGED <<stack, destroyedFlag, responders, thunks>>
        /\ UNCHANGED <<alive, connVars, deleted, nextRequest, received, atPeer,
                       peerOpen, appVars>>
    BY <1>2 DEF ReadMessage
  <2>4. pc' \in {"app", "notify"}
    BY <2>3 DEF Dispatch
  <2> HIDE DEF msg
  <2>5. stack' \in Seq(Frames)
    BY <1>t, <2>2, <2>3
  <2>6. destroyedFlag' \in Nat
    BY <1>t, <2>3 DEF TypeOK
  <2>7. responders' \subseteq Nat /\ thunks' \subseteq Nat
    BY <2>2, <2>3 DEF TypeOK
  <2> QED
    BY <2>1, <2>3, <2>4, <2>5, <2>6, <2>7 DEF TypeOK, connVars, appVars
<1>3. CASE NotifyError
  <2>1. ErrorFrame \in Frames
    BY DEF ErrorFrame, Frames
  <2>2. stack' \in Seq(Frames)
    BY <1>3, <1>t, <2>1 DEF NotifyError
  <2> QED
    BY <1>3, <2>2 DEF TypeOK, NotifyError, routerVars, peerVars, appVars
<1>4. CASE ErrorHandlerReturns
  <2>1. stack' \in Seq(Frames)
    BY <1>4, <1>t, Popped DEF ErrorHandlerReturns, InCallback
  <2> QED
    BY <1>4, <2>1 DEF TypeOK, ErrorHandlerReturns, connVars, routerVars, peerVars, appVars
<1>5. ASSUME NEW ok \in BOOLEAN, ReceiverReturns(ok)
      PROVE  TypeOK'
  <2>1. /\ stack' \in Seq(Frames) /\ destroyedFlag' \in Nat
        /\ pc' \in {"app", "notify", "read_all"}
    BY <1>5, UnwindType DEF ReceiverReturns, InCallback
  <2>2. Top.n \in Nat
    BY <1>5, TopIsFrame DEF ReceiverReturns, InCallback, Frames
  <2>3. deleted' \subseteq Nat
    BY <1>5, <2>2 DEF ReceiverReturns, TypeOK
  <2> QED
    BY <1>5, <2>1, <2>3 DEF TypeOK, ReceiverReturns, connVars, peerVars, appVars
<1>6. CASE RequestRefused
  <2>1. /\ stack' \in Seq(Frames) /\ destroyedFlag' \in Nat
        /\ pc' \in {"app", "notify", "read_all"}
    BY <1>6, UnwindType DEF RequestRefused, InCallback
  <2> QED
    BY <1>6, <2>1 DEF TypeOK, RequestRefused, DeleteThunk, ClosedByDrop, peerVars
<1>7. CASE Accept
  BY <1>7 DEF TypeOK, Accept, Written, Running, routerVars, peerVars, appVars
<1>8. CASE AcceptWithResponder
  BY <1>8 DEF TypeOK, AcceptWithResponder, Written, Running, appVars
<1>9. ASSUME NEW n \in thunks, Respond(n)
      PROVE  TypeOK'
  BY <1>9 DEF TypeOK, Respond, Written, peerVars, appVars
<1>10. ASSUME NEW n \in thunks, DropResponder(n)
       PROVE  TypeOK'
  BY <1>10 DEF TypeOK, DropResponder, DeleteThunk, ClosedByDrop, peerVars
<1>11. CASE CloseMessagePipe \/ PassMessagePipe
  BY <1>11 DEF TypeOK, CloseMessagePipe, PassMessagePipe, GivePipeUp, routerVars,
               peerVars, appVars
<1>12. CASE Destroy
  <2>1. stack' \in Seq(Frames)
    BY <1>12, DestroyFrames
  <2> QED
    BY <1>12, <2>1 DEF TypeOK, Destroy, StillWaiting, peerVars, appVars
<1>13. ASSUME NEW kind \in PeerSends, PeerSendsMessage(kind)
       PROVE  TypeOK'
  <2>1. [kind |-> kind, n |-> received + 1] \in Messages
    BY DEF Messages, TypeOK
  <2>2. inbox' \in Seq(Messages)
    BY <1>13, <1>t, <2>1 DEF PeerSendsMessage
  <2> QED
    BY <1>13, <2>2 DEF TypeOK, PeerSendsMessage, connVars, routerVars, appVars
<1>14. ASSUME NEW n \in atPeer, PeerResponds(n)
       PROVE  TypeOK'
  <2>1. [kind |-> "response", n |-> n] \in Messages
    BY DEF Messages, TypeOK
  <2>2. inbox' \in Seq(Messages)
    BY <1>14, <1>t, <2>1 DEF PeerResponds
  <2> QED
    BY <1>14, <2>2 DEF TypeOK, PeerResponds, connVars, routerVars, appVars
<1>15. CASE PeerCloses
  BY <1>15 DEF TypeOK, PeerCloses, connVars, routerVars, appVars
<1>16. CASE UNCHANGED vars
  BY <1>16 DEF TypeOK, vars, connVars, routerVars, peerVars, appVars
<1> QED
  BY <1>1, <1>2, <1>3, <1>4, <1>5, <1>6, <1>7, <1>8, <1>9, <1>10, <1>11, <1>12, <1>13,
     <1>14, <1>15, <1>16 DEF Next, ConnectorStep, CallbackReturns, AppStep, PeerStep

-----------------------------------------------------------------------------
(* Destruction under the frames.                                           *)

Alive == NeverRunsDestroyed /\ FlagsTrackDestruction /\ WaitsAlive

\* Only one frame is the innermost dispatch.
LEMMA InnermostUnique ==
  ASSUME NEW s, NEW k \in Nat, NEW f, NEW g, Innermost(s, f, k), Innermost(s, g, k)
  PROVE  f = g
<1>1. f \in 0 .. k /\ g \in 0 .. k
  BY DEF Innermost
<1>2. ~(f < g)
  <2>1. f < g => g \in f + 1 .. k /\ g # 0
    BY <1>1
  <2> QED
    BY <2>1 DEF Innermost
<1>3. ~(g < f)
  <2>1. g < f => f \in g + 1 .. k /\ f # 0
    BY <1>1
  <2> QED
    BY <2>1 DEF Innermost
<1> QED
  BY <1>1, <1>2, <1>3

\* It depends on the kinds of the frames only.
LEMMA InnermostKept ==
  ASSUME NEW s, NEW t, NEW k \in Nat, NEW f,
         \A i \in 1 .. k : t[i].kind = s[i].kind
  PROVE  Innermost(s, f, k) <=> Innermost(t, f, k)
<1>1. \A i \in 1 .. k : Dispatches(s[i]) <=> Dispatches(t[i])
  BY DEF Dispatches
<1>2. f \in 0 .. k => /\ f # 0 => f \in 1 .. k
                      /\ \A j \in f + 1 .. k : j \in 1 .. k
  OBVIOUS
<1> QED
  BY <1>1, <1>2 DEF Innermost

\* A frame on top of another that does not dispatch changes nothing.
LEMMA InnermostBelow ==
  ASSUME NEW s, NEW k \in Nat \ {0}, ~Dispatches(s[k]), NEW f
  PROVE  Innermost(s, f, k) <=> Innermost(s, f, k - 1)
<1>1. ASSUME Innermost(s, f, k) PROVE Innermost(s, f, k - 1)
  <2>1. f \in 0 .. k /\ f # k
    BY <1>1 DEF Innermost
  <2>2. f \in 0 .. k - 1 /\ \A j \in f + 1 .. k - 1 : j \in f + 1 .. k
    BY <2>1
  <2> QED
    BY <1>1, <2>2 DEF Innermost
<1>2. ASSUME Innermost(s, f, k - 1) PROVE Innermost(s, f, k)
  <2>1. f \in 0 .. k - 1
    BY <1>2 DEF Innermost
  <2>2. f \in 0 .. k /\ \A j \in f + 1 .. k : j = k \/ j \in f + 1 .. k - 1
    BY <2>1
  <2> QED
    BY <1>2, <2>2 DEF Innermost
<1> QED
  BY <1>1, <1>2

\* A frame under a dispatch is not the innermost.
LEMMA NotInnermost ==
  ASSUME NEW s, NEW k \in Nat, NEW f \in 1 .. k, Dispatches(s[f]), NEW i \in 1 .. f - 1
  PROVE  ~Innermost(s, i, k)
<1>1. f \in i + 1 .. k
  OBVIOUS
<1> QED
  BY <1>1 DEF Innermost

\* Who calls the application pushes a frame; a dispatch moves the flag there.
LEMMA PushedFlags ==
  ASSUME TypeOK, FlagsTrackDestruction, alive, UNCHANGED alive,
         NEW f \in Frames, stack' = Append(stack, f),
         Dispatches(f) =>
           ~f.destroyed /\ f.prev = destroyedFlag /\ destroyedFlag' = Len(stack) + 1,
         ~Dispatches(f) => UNCHANGED destroyedFlag
  PROVE  FlagsTrackDestruction'
<1> DEFINE n == Len(stack)
<1>1. stack \in Seq(Frames) /\ n \in Nat /\ DOMAIN stack = 1 .. n
  BY DEF TypeOK
<1>2. /\ Len(stack') = n + 1 /\ DOMAIN stack' = 1 .. n + 1
      /\ \A i \in 1 .. n : stack'[i] = stack[i]
      /\ stack'[n + 1] = f
  BY <1>1
<1>3. Innermost(stack, destroyedFlag, n)
  BY DEF FlagsTrackDestruction
<1> HIDE DEF n
<1>4. Innermost(stack', destroyedFlag, n)
  BY <1>1, <1>2, <1>3, InnermostKept
<1>5. Innermost(stack', destroyedFlag', n + 1)
  <2>1. n + 1 \in Nat \ {0} /\ n + 1 - 1 = n
    BY <1>1
  <2>2. CASE Dispatches(f)
    BY <1>1, <1>2, <2>1, <2>2 DEF Innermost, n
  <2>3. CASE ~Dispatches(f)
    <3>1. PICK k \in Nat \ {0} : k = n + 1
      BY <2>1
    <3>2. k - 1 = n
      BY <1>1, <3>1
    <3>3. ~Dispatches(stack'[k]) /\ Innermost(stack', destroyedFlag, k - 1)
      BY <1>2, <1>4, <2>3, <3>1, <3>2
    <3>4. Innermost(stack', destroyedFlag, k)
      BY <3>3, InnermostBelow
    <3> QED
      BY <2>3, <3>1, <3>4
  <2> QED
    BY <2>2, <2>3
<1>6. ASSUME NEW i \in 1 .. n + 1, Dispatches(stack'[i])
      PROVE  Innermost(stack', stack'[i].prev, i - 1) /\ ~stack'[i].destroyed
  <2>1. CASE i = n + 1
    <3>1. ~stack'[i].destroyed /\ stack'[i].prev = destroyedFlag /\ i - 1 = n
      BY <1>1, <1>2, <1>6, <2>1
    <3> QED
      BY <1>4, <3>1
  <2>2. CASE i \in 1 .. n
    <3>1. /\ stack'[i] = stack[i] /\ Dispatches(stack[i]) /\ i - 1 \in Nat
          /\ \A j \in 1 .. i - 1 : stack'[j].kind = stack[j].kind
      BY <1>1, <1>2, <1>6, <2>2
    <3>2. Innermost(stack, stack[i].prev, i - 1) /\ ~stack[i].destroyed
      BY <1>1, <2>2, <3>1 DEF FlagsTrackDestruction
    <3> QED
      BY <3>1, <3>2, InnermostKept
  <2> QED
    BY <1>1, <2>1, <2>2
<1> QED
  BY <1>2, <1>5, <1>6 DEF FlagsTrackDestruction

\* The error handler returns: it is no dispatch.
LEMMA ErrorPoppedFlags ==
  ASSUME TypeOK, FlagsTrackDestruction, ErrorHandlerReturns
  PROVE  FlagsTrackDestruction'
<1> DEFINE n == Len(stack)
<1>1. /\ stack \in Seq(Frames) /\ n \in Nat \ {0} /\ DOMAIN stack = 1 .. n
      /\ ~Dispatches(stack[n])
      /\ UNCHANGED <<alive, destroyedFlag>> /\ stack' = Front(stack)
  BY TopIsFrame DEF TypeOK, ErrorHandlerReturns, InCallback, Dispatches
<1>e. stack # <<>>
  BY DEF ErrorHandlerReturns, InCallback
<1>2. /\ stack' \in Seq(Frames) /\ Len(stack') = n - 1
      /\ \A i \in 1 .. n - 1 : stack'[i] = stack[i]
  BY <1>1, <1>e, Popped
<1>3. DOMAIN stack' = 1 .. n - 1 /\ n - 1 \in Nat
  BY <1>1, <1>2
<1>4. \A f : Innermost(stack, f, n) <=> Innermost(stack', f, n - 1)
  BY <1>1, <1>2, <1>3, InnermostBelow, InnermostKept
<1>5. /\ alive => Innermost(stack, destroyedFlag, n)
      /\ \A i \in 1 .. n : Dispatches(stack[i]) =>
           /\ Innermost(stack, stack[i].prev, i - 1)
           /\ stack[i].destroyed <=> ~alive /\ Innermost(stack, i, n)
  BY <1>1 DEF FlagsTrackDestruction
<1> HIDE DEF n
<1>6. ASSUME NEW i \in 1 .. n - 1, Dispatches(stack'[i])
      PROVE  /\ Innermost(stack', stack'[i].prev, i - 1)
             /\ stack'[i].destroyed <=> ~alive /\ Innermost(stack', i, n - 1)
  <2>1. /\ i \in 1 .. n /\ stack'[i] = stack[i] /\ i - 1 \in Nat
        /\ \A j \in 1 .. i - 1 : stack'[j].kind = stack[j].kind
    BY <1>1, <1>2
  <2>2. /\ Innermost(stack, stack[i].prev, i - 1)
        /\ stack[i].destroyed <=> ~alive /\ Innermost(stack, i, n)
    BY <1>5, <1>6, <2>1
  <2>3. Innermost(stack', stack'[i].prev, i - 1)
    BY <2>1, <2>2, InnermostKept
  <2> QED
    BY <1>4, <2>1, <2>2, <2>3
<1> QED
  BY <1>1, <1>2, <1>3, <1>4, <1>5, <1>6 DEF FlagsTrackDestruction

\* ReadSingleMessage() returns: the flag is restored, or raised in the dispatch
\* it was nested in.  It goes on only if the router is alive.
LEMMA UnwoundFlags ==
  ASSUME TypeOK, FlagsTrackDestruction, stack # <<>>, Dispatches(Top),
         UNCHANGED alive, NEW ok \in BOOLEAN, Unwind(ok)
  PROVE  FlagsTrackDestruction' /\ (pc' # "app" => alive)
<1> DEFINE n == Len(stack)
<1>1. /\ stack \in Seq(Frames) /\ n \in Nat \ {0} /\ n - 1 \in Nat
      /\ DOMAIN stack = 1 .. n /\ Top = stack[n]
  BY TopIsFrame DEF TypeOK
<1>2. Innermost(stack, n, n)
  BY <1>1 DEF Innermost
<1>3. /\ \A i \in 1 .. n : Dispatches(stack[i]) =>
           /\ Innermost(stack, stack[i].prev, i - 1)
           /\ stack[i].destroyed <=> ~alive /\ Innermost(stack, i, n)
  BY <1>1 DEF FlagsTrackDestruction
<1>4. Innermost(stack, Top.prev, n - 1) /\ (Top.destroyed <=> ~alive)
  BY <1>1, <1>2, <1>3
<1>5. \A i \in 1 .. n - 1 : Dispatches(stack[i]) =>
        Innermost(stack, stack[i].prev, i - 1) /\ ~stack[i].destroyed
  <2> SUFFICES ASSUME NEW i \in 1 .. n - 1, Dispatches(stack[i])
               PROVE  Innermost(stack, stack[i].prev, i - 1) /\ ~stack[i].destroyed
    OBVIOUS
  <2>1. i \in 1 .. n /\ n \in 1 .. n
    BY <1>1
  <2>2. ~Innermost(stack, i, n)
    BY <1>1, <2>1, NotInnermost
  <2> QED
    BY <1>3, <2>1, <2>2
<1> HIDE DEF n
<1>6. CASE WasDestroyed
  <2>1. stack' = Propagated /\ pc' = "app" /\ ~alive /\ ~alive'
    BY <1>4, <1>6 DEF Unwind, WasDestroyed
  <2>2. /\ stack' \in Seq(Frames) /\ Len(stack') = n - 1
        /\ \A i \in 1 .. n - 1 :
             /\ stack'[i].kind = stack[i].kind /\ stack'[i].prev = stack[i].prev
             /\ stack'[i].destroyed = IF i = Top.prev THEN TRUE ELSE stack[i].destroyed
    BY <2>1, PropagatedFrames DEF n
  <2>3. DOMAIN stack' = 1 .. n - 1
    BY <2>2
  <2>4. ASSUME NEW i \in 1 .. n - 1, Dispatches(stack'[i])
        PROVE  /\ Innermost(stack', stack'[i].prev, i - 1)
               /\ stack'[i].destroyed <=> Innermost(stack', i, n - 1)
    <3>0. i - 1 \in Nat /\ \A j \in 1 .. i - 1 : j \in 1 .. n - 1
      BY <1>1
    <3>1. /\ Dispatches(stack[i]) /\ i - 1 \in Nat
          /\ \A j \in 1 .. i - 1 : stack'[j].kind = stack[j].kind
      BY <2>2, <2>4, <3>0 DEF Dispatches
    <3>2. Innermost(stack', stack'[i].prev, i - 1)
      BY <1>5, <2>2, <3>1, InnermostKept
    <3>3. stack'[i].destroyed <=> i = Top.prev
      BY <1>5, <2>2, <3>1
    <3>4. i = Top.prev <=> Innermost(stack, i, n - 1)
      BY <1>1, <1>4, InnermostUnique
    <3>5. Innermost(stack, i, n - 1) <=> Innermost(stack', i, n - 1)
      BY <1>1, <2>2, InnermostKept
    <3> QED
      BY <3>2, <3>3, <3>4, <3>5
  <2> QED
    BY <2>1, <2>2, <2>3, <2>4 DEF FlagsTrackDestruction
<1>7. CASE ~WasDestroyed
  <2>1. stack' = Front(stack) /\ destroyedFlag' = Top.prev /\ alive /\ alive'
    BY <1>4, <1>7 DEF Unwind, WasDestroyed, RestoredFlag
  <2>2. /\ stack' \in Seq(Frames) /\ Len(stack') = n - 1
        /\ \A i \in 1 .. n - 1 : stack'[i] = stack[i]
    BY <1>1, <2>1, Popped DEF n
  <2>3. DOMAIN stack' = 1 .. n - 1
    BY <2>2
  <2>4. Innermost(stack', destroyedFlag', n - 1)
    BY <1>1, <1>4, <2>1, <2>2, InnermostKept
  <2>5. ASSUME NEW i \in 1 .. n - 1, Dispatches(stack'[i])
        PROVE  Innermost(stack', stack'[i].prev, i - 1) /\ ~stack'[i].destroyed
    <3>1. /\ stack'[i] = stack[i] /\ i - 1 \in Nat
          /\ \A j \in 1 .. i - 1 : stack'[j].kind = stack[j].kind
      BY <1>1, <2>2
    <3> QED
      BY <1>5, <2>5, <3>1, InnermostKept
  <2> QED
    BY <2>1, <2>2, <2>3, <2>4, <2>5 DEF FlagsTrackDestruction
<1> QED
  BY <1>6, <1>7

\* ~Router() in a callback: the innermost dispatch gets to know.
LEMMA DestroyedFlags ==
  ASSUME TypeOK, FlagsTrackDestruction, Destroy
  PROVE  FlagsTrackDestruction'
<1> DEFINE n == Len(stack)
<1>1. stack \in Seq(Frames) /\ n \in Nat /\ DOMAIN stack = 1 .. n
  BY DEF TypeOK
<1>2. /\ stack' \in Seq(Frames) /\ Len(stack') = n
      /\ \A i \in 1 .. n :
           /\ stack'[i].kind = stack[i].kind /\ stack'[i].prev = stack[i].prev
           /\ stack'[i].destroyed = IF i = destroyedFlag THEN TRUE ELSE stack[i].destroyed
  BY <1>1, DestroyFrames
<1>3. /\ alive /\ ~alive' /\ DOMAIN stack' = 1 .. n
      /\ Innermost(stack, destroyedFlag, n)
      /\ \A i \in 1 .. n : Dispatches(stack[i]) =>
           Innermost(stack, stack[i].prev, i - 1) /\ ~stack[i].destroyed
  BY <1>1, <1>2 DEF Destroy, Running, FlagsTrackDestruction
<1> HIDE DEF n
<1>4. ASSUME NEW i \in 1 .. n, Dispatches(stack'[i])
      PROVE  /\ Innermost(stack', stack'[i].prev, i - 1)
             /\ stack'[i].destroyed <=> Innermost(stack', i, n)
  <2>0. i - 1 \in Nat /\ \A j \in 1 .. i - 1 : j \in 1 .. n
    BY <1>1
  <2>1. /\ Dispatches(stack[i]) /\ i - 1 \in Nat
        /\ \A j \in 1 .. i - 1 : stack'[j].kind = stack[j].kind
    BY <1>2, <1>4, <2>0 DEF Dispatches
  <2>2. Innermost(stack', stack'[i].prev, i - 1)
    BY <1>2, <1>3, <2>1, InnermostKept
  <2>3. stack'[i].destroyed <=> i = destroyedFlag
    BY <1>2, <1>3, <2>1
  <2>4. i = destroyedFlag <=> Innermost(stack, i, n)
    BY <1>1, <1>3, InnermostUnique
  <2>5. Innermost(stack, i, n) <=> Innermost(stack', i, n)
    BY <1>1, <1>2, InnermostKept
  <2> QED
    BY <2>2, <2>3, <2>4, <2>5
<1> QED
  BY <1>2, <1>3, <1>4 DEF FlagsTrackDestruction

\* Nothing is written to the frames or their flags.
LEMMA SameFlags ==
  ASSUME FlagsTrackDestruction, UNCHANGED <<stack, alive, destroyedFlag>>
  PROVE  FlagsTrackDestruction'
BY DEF FlagsTrackDestruction

\* The thread works on a router that is alive, and the frames know.
LEMMA AliveStep ==
  ASSUME TypeOK, Alive, [Next]_vars
  PROVE  Alive'
<1>a. NeverRunsDestroyed /\ FlagsTrackDestruction /\ WaitsAlive
  BY DEF Alive
<1>1. CASE OnHandleReady \/ WaitForIncomingMessage \/ ReadNothing \/ ReadFails
  <2>1. UNCHANGED <<stack, alive, destroyedFlag>>
    BY <1>1 DEF OnHandleReady, WaitForIncomingMessage, ReadNothing, ReadFails
  <2>2. (pc' \in {"read_all", "read_one", "notify"} => alive) /\ (waiting' => alive)
    BY <1>1, <1>a DEF OnHandleReady, WaitForIncomingMessage, ReadNothing, ReadFails, Running,
         WaitsAgain, NeverRunsDestroyed, WaitsAlive, connVars
  <2> QED
    BY <1>a, <2>1, <2>2, SameFlags DEF Alive, NeverRunsDestroyed, WaitsAlive
<1>2. CASE ReadMessage
  <2> DEFINE msg == Head(inbox)
             f == Frame(msg, pc = "read_all")
  <2>1. alive /\ UNCHANGED <<alive, waiting>>
    BY <1>2, <1>a DEF ReadMessage, NeverRunsDestroyed, connVars
  <2>2. msg \in Messages
    BY <1>2 DEF ReadMessage, TypeOK
  <2>3. CASE Dispatch(msg) = "app"
    <3>1. stack' = Append(stack, f) /\ destroyedFlag' = Len(stack) + 1
      BY <1>2, <2>3 DEF ReadMessage
    <3>2. f \in Frames /\ Dispatches(f) /\ ~f.destroyed /\ f.prev = destroyedFlag
      BY <2>2 DEF Messages, Kinds, Frames, Frame, TypeOK, Dispatches
    <3> HIDE DEF f
    <3>3. FlagsTrackDestruction'
      BY <1>a, <2>1, <3>1, <3>2, PushedFlags
    <3> QED
      BY <1>a, <2>1, <3>3 DEF Alive, NeverRunsDestroyed, WaitsAlive
  <2>4. CASE Dispatch(msg) # "app"
    <3>1. UNCHANGED <<stack, alive, destroyedFlag>>
      BY <1>2, <2>4 DEF ReadMessage
    <3> QED
      BY <1>a, <2>1, <3>1, SameFlags DEF Alive, NeverRunsDestroyed, WaitsAlive
  <2> QED
    BY <2>3, <2>4
<1>3. CASE NotifyError
  <2>1. ErrorFrame \in Frames /\ ~Dispatches(ErrorFrame)
    BY DEF ErrorFrame, Frames, Dispatches
  <2>2. /\ alive /\ alive' = alive /\ destroyedFlag' = destroyedFlag /\ ~waiting'
        /\ stack' = Append(stack, ErrorFrame) /\ pc' = "app"
    BY <1>3, <1>a DEF NotifyError, NeverRunsDestroyed
  <2>3. FlagsTrackDestruction'
    BY <1>a, <2>1, <2>2, PushedFlags
  <2> QED
    BY <2>2, <2>3 DEF Alive, NeverRunsDestroyed, WaitsAlive
<1>4. CASE ErrorHandlerReturns
  <2>1. FlagsTrackDestruction'
    BY <1>4, <1>a, ErrorPoppedFlags
  <2> QED
    BY <1>4, <1>a, <2>1 DEF Alive, NeverRunsDestroyed, WaitsAlive, ErrorHandlerReturns, connVars
<1>5. ASSUME NEW ok \in BOOLEAN, ReceiverReturns(ok)
      PROVE  Alive'
  <2>1. /\ stack # <<>> /\ Dispatches(Top) /\ alive' = alive /\ waiting' = waiting
        /\ Unwind(ok)
    BY <1>5 DEF ReceiverReturns, InCallback, Dispatches, connVars
  <2>2. FlagsTrackDestruction' /\ (pc' # "app" => alive)
    BY <1>a, <2>1, UnwoundFlags
  <2> QED
    BY <1>a, <2>1, <2>2 DEF Alive, NeverRunsDestroyed, WaitsAlive
<1>6. CASE RequestRefused
  <2>1. /\ stack # <<>> /\ Dispatches(Top) /\ alive' = alive /\ (waiting' => waiting)
        /\ Unwind(FALSE)
    BY <1>6 DEF RequestRefused, InCallback, Dispatches, DeleteThunk
  <2>2. FlagsTrackDestruction' /\ (pc' # "app" => alive)
    BY <1>a, <2>1, UnwoundFlags
  <2> QED
    BY <1>a, <2>1, <2>2 DEF Alive, NeverRunsDestroyed, WaitsAlive
<1>7. CASE Accept \/ AcceptWithResponder \/ \E n \in thunks : Respond(n) \/ DropResponder(n)
  <2>1. UNCHANGED <<stack, alive, destroyedFlag>> /\ (waiting' => waiting)
        /\ (pc' \in {"read_all", "read_one", "notify"} => pc' = pc)
    <3>1. CASE Accept \/ AcceptWithResponder
      BY <3>1 DEF Accept, AcceptWithResponder, Written
    <3>2. ASSUME NEW n \in thunks, Respond(n)
          PROVE  UNCHANGED <<stack, alive, destroyedFlag, waiting>> /\ pc' \in {pc, "crashed"}
      BY <3>2 DEF Respond, Written
    <3>3. ASSUME NEW n \in thunks, DropResponder(n)
          PROVE  UNCHANGED <<stack, alive, destroyedFlag, pc>> /\ (waiting' => waiting)
      BY <3>3 DEF DropResponder, DeleteThunk
    <3> QED
      BY <1>7, <3>1, <3>2, <3>3
  <2> QED
    BY <1>a, <2>1, SameFlags DEF Alive, NeverRunsDestroyed, WaitsAlive
<1>8. CASE CloseMessagePipe \/ PassMessagePipe
  <2>1. UNCHANGED <<stack, alive, destroyedFlag, pc>> /\ ~waiting'
    BY <1>8 DEF CloseMessagePipe, PassMessagePipe, GivePipeUp
  <2> QED
    BY <1>a, <2>1, SameFlags DEF Alive, NeverRunsDestroyed, WaitsAlive
<1>9. CASE Destroy
  <2>1. FlagsTrackDestruction'
    BY <1>9, <1>a, DestroyedFlags
  <2> QED
    BY <1>9, <2>1 DEF Alive, NeverRunsDestroyed, WaitsAlive, Destroy, Running, StillWaiting
<1>10. CASE PeerStep
  <2>1. UNCHANGED <<stack, alive, destroyedFlag, pc, waiting>>
    BY <1>10 DEF PeerStep, PeerSendsMessage, PeerResponds, PeerCloses, connVars
  <2> QED
    BY <1>a, <2>1, SameFlags DEF Alive, NeverRunsDestroyed, WaitsAlive
<1>11. CASE UNCHANGED vars
  <2>1. UNCHANGED <<stack, alive, destroyedFlag, pc, waiting>>
    BY <1>11 DEF vars, connVars
  <2> QED
    BY <1>a, <2>1, SameFlags DEF Alive, NeverRunsDestroyed, WaitsAlive
<1> QED
  BY <1>1, <1>2, <1>3, <1>4, <1>5, <1>6, <1>7, <1>8, <1>9, <1>10, <1>11
  DEF Next, ConnectorStep, CallbackReturns, AppStep

-----------------------------------------------------------------------------
(* Responders.                                                             *)

\* The frames of a step that pops one: those below it, flags apart.
LEMMA UnwoundFrames ==
  ASSUME TypeOK, stack # <<>>, NEW ok \in BOOLEAN, Unwind(ok)
  PROVE  /\ DOMAIN stack' = 1 .. Len(stack) - 1
         /\ DOMAIN stack = 1 .. Len(stack) /\ Len(stack) \in Nat \ {0}
         /\ \A i \in 1 .. Len(stack) - 1 :
              /\ i \in DOMAIN stack /\ i # Len(stack)
              /\ stack'[i].kind = stack[i].kind /\ stack'[i].n = stack[i].n
              /\ stack'[i].loop = stack[i].loop
<1> DEFINE n == Len(stack)
<1>1. stack \in Seq(Frames) /\ n \in Nat \ {0} /\ DOMAIN stack = 1 .. n
  BY TopIsFrame DEF TypeOK
<1>2. /\ stack' \in Seq(Frames) /\ Len(stack') = n - 1
      /\ \A i \in 1 .. n - 1 :
              /\ stack'[i].kind = stack[i].kind /\ stack'[i].n = stack[i].n
              /\ stack'[i].loop = stack[i].loop
  <2>1. CASE WasDestroyed
    BY <2>1, PropagatedFrames DEF Unwind
  <2>2. CASE ~WasDestroyed
    BY <1>1, <2>2, Popped DEF Unwind
  <2> QED
    BY <2>1, <2>2
<1>3. DOMAIN stack' = 1 .. n - 1
  BY <1>2
<1> HIDE DEF n
<1>4. \A i \in 1 .. n - 1 : i \in 1 .. n /\ i # n
  BY <1>1
<1> QED
  BY <1>1, <1>2, <1>3, <1>4 DEF n

Responders == RespondersDeletedOnce /\ RespondersApart

\* What the router does to its responders while the frames stay, or go.
LEMMA FewerFrames ==
  ASSUME TypeOK, Responders, UNCHANGED <<responders, deleted, nextRequest>>,
         DOMAIN stack' \subseteq DOMAIN stack,
         \A i \in DOMAIN stack' : stack'[i].kind = stack[i].kind /\ stack'[i].n = stack[i].n
  PROVE  Responders'
BY DEF Responders, RespondersDeletedOnce, RespondersApart

\* A frame that is no responder's is pushed.
LEMMA OtherFrame ==
  ASSUME TypeOK, Responders, UNCHANGED <<responders, deleted, nextRequest>>,
         NEW f \in Frames, f.kind # "response", stack' = Append(stack, f)
  PROVE  Responders'
<1>1. stack \in Seq(Frames) /\ Len(stack) \in Nat /\ DOMAIN stack = 1 .. Len(stack)
  BY DEF TypeOK
<1>2. \A i \in DOMAIN stack' : \/ i \in DOMAIN stack /\ stack'[i] = stack[i]
                               \/ stack'[i] = f
  BY <1>1
<1> QED
  BY <1>2 DEF Responders, RespondersDeletedOnce, RespondersApart

\* A responder is waiting, being called, or deleted, once.
LEMMA RespondersStep ==
  ASSUME TypeOK, Responders, [Next]_vars
  PROVE  Responders'
<1>t. stack \in Seq(Frames) /\ Len(stack) \in Nat /\ DOMAIN stack = 1 .. Len(stack)
  BY DEF TypeOK
<1>1. CASE UNCHANGED <<stack, responders, deleted, nextRequest>>
  BY <1>1, FewerFrames
<1>2. CASE ReadMessage
  <2> DEFINE msg == Head(inbox)
             f == Frame(msg, pc = "read_all")
  <2>1. msg \in Messages /\ UNCHANGED <<deleted, nextRequest>>
    BY <1>2 DEF ReadMessage, TypeOK
  <2>2. CASE Dispatch(msg) # "app"
    BY <1>1, <1>2, <2>1, <2>2 DEF ReadMessage
  <2>3. CASE Dispatch(msg) = "app"
    <3>1. stack' = Append(stack, f) /\ responders' = responders \ ErasedBeforeCall(msg)
      BY <1>2, <2>3 DEF ReadMessage
    <3>2. f \in Frames /\ f.kind = msg.kind /\ f.n = msg.n
      BY <2>1 DEF Messages, Kinds, Frames, Frame, TypeOK
    <3> HIDE DEF f
    <3>3. CASE msg.kind # "response"
      <4>1. responders' = responders
        BY <3>1, <3>3 DEF ErasedBeforeCall
      <4> QED
        BY <2>1, <3>1, <3>2, <3>3, <4>1, OtherFrame
    <3>4. CASE msg.kind = "response"
      <4>1. msg.n \in responders /\ responders' = responders \ {msg.n}
        BY <2>3, <3>1, <3>4 DEF Dispatch, ErasedBeforeCall
      <4>2. \A i \in DOMAIN stack' : \/ i \in DOMAIN stack /\ stack'[i] = stack[i]
                                     \/ i = Len(stack) + 1 /\ stack'[i] = f
        BY <1>t, <3>1
      <4>3. /\ msg.n \notin deleted /\ msg.n <= nextRequest
            /\ \A i \in DOMAIN stack : stack[i].kind = "response" => stack[i].n # msg.n
        BY <4>1 DEF Responders, RespondersDeletedOnce, RespondersApart
      <4>4. RespondersDeletedOnce'
        BY <2>1, <3>2, <4>1, <4>2, <4>3 DEF Responders, RespondersDeletedOnce
      <4>5. RespondersApart'
        BY <2>1, <3>2, <4>1, <4>2, <4>3 DEF Responders, RespondersApart
      <4> QED
        BY <4>4, <4>5 DEF Responders
    <3> QED
      BY <3>3, <3>4
  <2> QED
    BY <2>2, <2>3
<1>3. CASE NotifyError
  <2>1. ErrorFrame \in Frames /\ ErrorFrame.kind # "response"
    BY DEF ErrorFrame, Frames
  <2> QED
    BY <1>3, <2>1, OtherFrame DEF NotifyError, routerVars
<1>4. CASE ErrorHandlerReturns
  <2>1. stack # <<>> /\ stack' = Front(stack) /\ UNCHANGED <<responders, deleted, nextRequest>>
    BY <1>4 DEF ErrorHandlerReturns, InCallback, routerVars
  <2>2. /\ stack' \in Seq(Frames) /\ Len(stack') = Len(stack) - 1
        /\ \A i \in 1 .. Len(stack) - 1 : stack'[i] = stack[i]
    BY <1>t, <2>1, Popped
  <2>3. DOMAIN stack' \subseteq DOMAIN stack /\ \A i \in DOMAIN stack' : stack'[i] = stack[i]
    BY <1>t, <2>2
  <2> QED
    BY <2>1, <2>3, FewerFrames
<1>5. ASSUME NEW ok \in BOOLEAN, ReceiverReturns(ok)
      PROVE  Responders'
  <2>1. /\ stack # <<>> /\ Unwind(ok) /\ UNCHANGED <<responders, nextRequest>>
        /\ deleted' = IF Top.kind = "response" THEN deleted \cup {Top.n} ELSE deleted
    BY <1>5 DEF ReceiverReturns, InCallback
  <2>2. /\ DOMAIN stack' = 1 .. Len(stack) - 1 /\ Len(stack) \in DOMAIN stack
        /\ \A i \in 1 .. Len(stack) - 1 :
              /\ i \in DOMAIN stack /\ i # Len(stack)
              /\ stack'[i].kind = stack[i].kind /\ stack'[i].n = stack[i].n
    BY <2>1, UnwoundFrames
  <2>3. Top = stack[Len(stack)] /\ Top \in Frames
    BY <2>1, TopIsFrame
  <2>4. CASE Top.kind # "response"
    BY <2>1, <2>2, <2>4, FewerFrames
  <2>5. CASE Top.kind = "response"
    <3>1. /\ Top.n \notin responders /\ Top.n <= nextRequest
          /\ \A i \in 1 .. Len(stack) - 1 : stack[i].kind = "response" => stack[i].n # Top.n
      BY <2>2, <2>3, <2>5 DEF Responders, RespondersDeletedOnce, RespondersApart
    <3>2. deleted' = deleted \cup {Top.n}
      BY <2>1, <2>5
    <3>3. RespondersDeletedOnce'
      BY <2>1, <2>2, <3>1, <3>2 DEF Responders, RespondersDeletedOnce
    <3>4. RespondersApart'
      BY <2>1, <2>2, <3>1, <3>2 DEF Responders, RespondersApart
    <3> QED
      BY <3>3, <3>4 DEF Responders
  <2> QED
    BY <2>4, <2>5
<1>6. CASE RequestRefused
  <2>1. stack # <<>> /\ Unwind(FALSE) /\ UNCHANGED <<responders, deleted, nextRequest>>
    BY <1>6 DEF RequestRefused, InCallback
  <2>2. /\ DOMAIN stack' = 1 .. Len(stack) - 1
        /\ \A i \in 1 .. Len(stack) - 1 :
              /\ i \in DOMAIN stack
              /\ stack'[i].kind = stack[i].kind /\ stack'[i].n = stack[i].n
    BY <2>1, UnwoundFrames
  <2> QED
    BY <2>1, <2>2, FewerFrames
<1>7. CASE AcceptWithResponder
  <2>1. /\ UNCHANGED <<stack, deleted>> /\ nextRequest' = nextRequest + 1
        /\ responders' \subseteq responders \cup {nextRequest + 1}
    BY <1>7 DEF AcceptWithResponder
  <2>2. /\ nextRequest \in Nat /\ responders \subseteq Nat /\ deleted \subseteq Nat
        /\ \A i \in DOMAIN stack : stack[i].n \in Nat
    <3>1. \A i \in DOMAIN stack : stack[i] \in Frames
      BY <1>t
    <3>2. \A f \in Frames : f.n \in Nat
      BY DEF Frames
    <3> QED
      BY <3>1, <3>2 DEF TypeOK
  <2>3. /\ \A n \in Nat : n <= nextRequest => n <= nextRequest + 1 /\ n # nextRequest + 1
        /\ nextRequest + 1 <= nextRequest + 1
    BY <2>2
  <2>4. RespondersDeletedOnce'
    BY <2>1, <2>2, <2>3 DEF Responders, RespondersDeletedOnce, RespondersApart
  <2>5. RespondersApart'
    BY <2>1, <2>2, <2>3 DEF Responders, RespondersApart
  <2> QED
    BY <2>4, <2>5 DEF Responders
<1>8. CASE Destroy
  <2>1. UNCHANGED nextRequest /\ deleted' = deleted \cup responders /\ responders' = {}
    BY <1>8 DEF Destroy
  <2>2. /\ DOMAIN stack' = DOMAIN stack
        /\ \A i \in DOMAIN stack : stack'[i].kind = stack[i].kind /\ stack'[i].n = stack[i].n
    <3>1. /\ stack' \in Seq(Frames) /\ Len(stack') = Len(stack)
          /\ \A i \in DOMAIN stack :
               stack'[i].kind = stack[i].kind /\ stack'[i].n = stack[i].n
      BY <1>8, DestroyFrames
    <3>2. DOMAIN stack' = 1 .. Len(stack)
      BY <3>1
    <3> QED
      BY <1>t, <3>1, <3>2
  <2>3. RespondersDeletedOnce'
    BY <2>1, <2>2 DEF Responders, RespondersDeletedOnce
  <2>4. RespondersApart'
    BY <2>1, <2>2 DEF Responders, RespondersApart
  <2> QED
    BY <2>3, <2>4 DEF Responders
<1>9. CASE OnHandleReady \/ WaitForIncomingMessage \/ ReadNothing \/ ReadFails \/ PeerStep
           \/ UNCHANGED vars
  BY <1>1, <1>9 DEF OnHandleReady, WaitForIncomingMessage, ReadNothing, ReadFails, PeerStep,
       PeerSendsMessage, PeerResponds, PeerCloses, routerVars, vars
<1>10. CASE Accept \/ (\E n \in thunks : Respond(n) \/ DropResponder(n))
            \/ CloseMessagePipe \/ PassMessagePipe
  BY <1>1, <1>10 DEF Accept, Respond, DropResponder, CloseMessagePipe, PassMessagePipe,
       GivePipeUp, routerVars
<1> QED
  BY <1>2, <1>3, <1>4, <1>5, <1>6, <1>7, <1>8, <1>9, <1>10
  DEF Next, ConnectorStep, CallbackReturns, AppStep

-----------------------------------------------------------------------------
(* One loop of reads, and what a dropped responder leaves.                 *)

\* Steps that start neither a wait nor a loop.
LEMMA QuietLoop ==
  ASSUME TypeOK, OneLoop, waiting' => waiting, pc' = "read_all" => pc = "read_all",
         DOMAIN stack' \subseteq DOMAIN stack,
         \A i \in DOMAIN stack' : stack'[i].loop = stack[i].loop
  PROVE  OneLoop'
BY DEF OneLoop

\* A frame that is not the loop's is pushed.
LEMMA PushedOther ==
  ASSUME TypeOK, OneLoop, waiting' => waiting, pc' # "read_all",
         NEW f \in Frames, ~f.loop, stack' = Append(stack, f)
  PROVE  OneLoop'
<1>1. stack \in Seq(Frames) /\ Len(stack) \in Nat /\ DOMAIN stack = 1 .. Len(stack)
  BY DEF TypeOK
<1>2. \A i \in DOMAIN stack' : \/ i \in DOMAIN stack /\ stack'[i] = stack[i]
                               \/ stack'[i] = f
  BY <1>1
<1> QED
  BY <1>2 DEF OneLoop

\* ReadSingleMessage() returns to the loop only if it was called there.
LEMMA UnwoundLoop ==
  ASSUME TypeOK, OneLoop, pc = "app", waiting' => waiting, stack # <<>>,
         NEW ok \in BOOLEAN, Unwind(ok)
  PROVE  OneLoop'
<1>1. /\ DOMAIN stack' = 1 .. Len(stack) - 1
      /\ DOMAIN stack = 1 .. Len(stack) /\ Len(stack) \in DOMAIN stack
      /\ \A i \in 1 .. Len(stack) - 1 :
           i \in DOMAIN stack /\ i # Len(stack) /\ stack'[i].loop = stack[i].loop
  BY UnwoundFrames
<1>2. CASE pc' # "read_all"
  BY <1>1, <1>2, QuietLoop
<1>3. CASE pc' = "read_all"
  <2>1. Top.loop /\ Top = stack[Len(stack)]
    BY <1>3, TopIsFrame DEF Unwind, ReadsOn
  <2>2. ~waiting /\ \A i \in 1 .. Len(stack) - 1 : ~stack[i].loop
    BY <1>1, <2>1 DEF OneLoop
  <2> QED
    BY <1>1, <2>2 DEF OneLoop
<1> QED
  BY <1>2, <1>3

\* ReadAllAvailableMessages() runs at most once at a time.
LEMMA LoopStep ==
  ASSUME TypeOK, OneLoop, [Next]_vars
  PROVE  OneLoop'
<1>t. stack \in Seq(Frames) /\ Len(stack) \in Nat /\ DOMAIN stack = 1 .. Len(stack)
  BY DEF TypeOK
<1>1. CASE /\ UNCHANGED stack /\ (waiting' => waiting)
           /\ (pc' = "read_all" => pc = "read_all")
  BY <1>1, QuietLoop
<1>2. CASE OnHandleReady
  BY <1>2 DEF OnHandleReady, OneLoop
<1>3. CASE ReadNothing
  <2>1. UNCHANGED stack /\ pc' = "app" /\ waiting' = (waiting \/ pc = "read_all")
    BY <1>3 DEF ReadNothing, WaitsAgain
  <2> QED
    BY <2>1 DEF OneLoop
<1>4. CASE ReadMessage
  <2> DEFINE msg == Head(inbox)
             f == Frame(msg, pc = "read_all")
  <2>1. msg \in Messages /\ UNCHANGED waiting /\ pc' # "read_all"
    BY <1>4 DEF ReadMessage, TypeOK, Dispatch, connVars
  <2>2. CASE Dispatch(msg) # "app"
    BY <1>1, <1>4, <2>1, <2>2 DEF ReadMessage
  <2>3. CASE Dispatch(msg) = "app"
    <3>1. stack' = Append(stack, f)
      BY <1>4, <2>3 DEF ReadMessage
    <3>2. f \in Frames /\ f.loop = (pc = "read_all")
      BY <2>1 DEF Messages, Kinds, Frames, Frame, TypeOK
    <3> HIDE DEF f
    <3>3. CASE pc # "read_all"
      BY <2>1, <3>1, <3>2, <3>3, PushedOther
    <3>4. CASE pc = "read_all"
      <4>1. ~waiting' /\ \A i \in DOMAIN stack : ~stack[i].loop
        BY <2>1, <3>4 DEF OneLoop
      <4>2. \A i \in DOMAIN stack' : \/ i \in DOMAIN stack /\ stack'[i] = stack[i]
                                     \/ i = Len(stack) + 1 /\ stack'[i] = f
        BY <1>t, <3>1
      <4> QED
        BY <2>1, <4>1, <4>2 DEF OneLoop
    <3> QED
      BY <3>3, <3>4
  <2> QED
    BY <2>2, <2>3
<1>5. CASE NotifyError
  <2>1. ErrorFrame \in Frames /\ ~ErrorFrame.loop
    BY DEF ErrorFrame, Frames
  <2> QED
    BY <1>5, <2>1, PushedOther DEF NotifyError
<1>6. CASE ErrorHandlerReturns
  <2>1. stack # <<>> /\ stack' = Front(stack) /\ UNCHANGED <<pc, waiting>>
    BY <1>6 DEF ErrorHandlerReturns, InCallback, connVars
  <2>2. /\ stack' \in Seq(Frames) /\ Len(stack') = Len(stack) - 1
        /\ \A i \in 1 .. Len(stack) - 1 : stack'[i] = stack[i]
    BY <1>t, <2>1, Popped
  <2>3. DOMAIN stack' \subseteq DOMAIN stack /\ \A i \in DOMAIN stack' : stack'[i] = stack[i]
    BY <1>t, <2>2
  <2> QED
    BY <2>1, <2>3, QuietLoop
<1>7. ASSUME NEW ok \in BOOLEAN, ReceiverReturns(ok)
      PROVE  OneLoop'
  BY <1>7, UnwoundLoop DEF ReceiverReturns, InCallback, connVars
<1>8. CASE RequestRefused
  <2>1. pc = "app" /\ (waiting' => waiting) /\ stack # <<>> /\ Unwind(FALSE)
    BY <1>8 DEF RequestRefused, InCallback, DeleteThunk
  <2> QED
    BY <2>1, UnwoundLoop
<1>9. CASE Accept \/ AcceptWithResponder \/ \E n \in thunks : Respond(n)
  <2>1. UNCHANGED <<stack, waiting>> /\ (pc' \in {pc, "crashed"})
    BY <1>9 DEF Accept, AcceptWithResponder, Respond, Written
  <2> QED
    BY <1>1, <2>1
<1>10. ASSUME NEW n \in thunks, DropResponder(n)
       PROVE  OneLoop'
  BY <1>1, <1>10 DEF DropResponder, DeleteThunk
<1>11. CASE CloseMessagePipe \/ PassMessagePipe
  BY <1>1, <1>11 DEF CloseMessagePipe, PassMessagePipe, GivePipeUp
<1>12. CASE Destroy
  <2>1. UNCHANGED pc /\ ~waiting'
    BY <1>12 DEF Destroy, StillWaiting
  <2>2. /\ stack' \in Seq(Frames) /\ Len(stack') = Len(stack)
        /\ \A i \in DOMAIN stack : stack'[i].loop = stack[i].loop
    BY <1>12, DestroyFrames
  <2>3. DOMAIN stack' = 1 .. Len(stack)
    BY <2>2
  <2> QED
    BY <1>t, <2>1, <2>2, <2>3, QuietLoop
<1>13. CASE WaitForIncomingMessage \/ ReadFails
  BY <1>1, <1>13 DEF WaitForIncomingMessage, ReadFails, connVars
<1>14. CASE PeerStep \/ UNCHANGED vars
  <2>1. UNCHANGED <<pc, stack, waiting>>
    BY <1>14 DEF PeerStep, PeerSendsMessage, PeerResponds, PeerCloses, connVars, vars
  <2> QED
    BY <1>1, <2>1
<1> QED
  BY <1>2, <1>3, <1>4, <1>5, <1>6, <1>7, <1>8, <1>9, <1>10, <1>11, <1>12, <1>13, <1>14
  DEF Next, ConnectorStep, CallbackReturns, AppStep

\* Nobody opens a closed pipe, or revives a router: a dropped responder's pipe
\* stays closed.
LEMMA DropStep ==
  ASSUME TypeOK, DropClosesPipe, [Next]_vars
  PROVE  DropClosesPipe'
<1>1. CASE (alive' => alive) /\ (pipeOpen' => pipeOpen) /\ dropped' = dropped
  BY <1>1 DEF DropClosesPipe
<1>2. CASE OnHandleReady \/ ReadMessage \/ ReadNothing \/ ReadFails
  BY <1>1, <1>2 DEF OnHandleReady, ReadMessage, ReadNothing, ReadFails, connVars, appVars
<1>3. CASE NotifyError \/ ErrorHandlerReturns \/ \E ok \in BOOLEAN : ReceiverReturns(ok)
  BY <1>1, <1>3 DEF NotifyError, ErrorHandlerReturns, ReceiverReturns, connVars, appVars
<1>4. CASE RequestRefused \/ \E n \in thunks : DropResponder(n)
  <2>1. UNCHANGED alive /\ pipeOpen' = (pipeOpen /\ ~alive)
    BY <1>4 DEF RequestRefused, DropResponder, DeleteThunk, ClosedByDrop
  <2> QED
    BY <2>1 DEF DropClosesPipe
<1>5. CASE WaitForIncomingMessage \/ Accept \/ AcceptWithResponder \/ \E n \in thunks : Respond(n)
  BY <1>1, <1>5 DEF WaitForIncomingMessage, Accept, AcceptWithResponder, Respond, connVars,
       appVars
<1>6. CASE CloseMessagePipe \/ PassMessagePipe \/ Destroy
  BY <1>1, <1>6 DEF CloseMessagePipe, PassMessagePipe, GivePipeUp, Destroy, appVars
<1>7. CASE PeerStep \/ UNCHANGED vars
  <2>1. UNCHANGED <<alive, pipeOpen, dropped>>
    BY <1>7 DEF PeerStep, PeerSendsMessage, PeerResponds, PeerCloses, connVars, appVars, vars
  <2> QED
    BY <1>1, <2>1
<1> QED
  BY <1>2, <1>3, <1>4, <1>5, <1>6, <1>7 DEF Next, ConnectorStep, CallbackReturns, AppStep

-----------------------------------------------------------------------------
(* Theorems.                                                               *)

\* The invariant holds at first.
LEMMA InvInit ==
  ASSUME Init
  PROVE  Inv
<1>1. stack = <<>> /\ stack \in Seq(Frames) /\ Len(stack) = 0 /\ DOMAIN stack = {}
  BY DEF Init
<1>2. inbox \in Seq(Messages)
  BY DEF Init
<1>3. TypeOK
  BY <1>1, <1>2 DEF Init, TypeOK
<1>4. Innermost(stack, destroyedFlag, Len(stack))
  BY <1>1 DEF Init, Innermost
<1> QED
  BY <1>1, <1>3, <1>4 DEF Init, Inv, NeverRunsDestroyed, FlagsTrackDestruction, WaitsAlive,
       RespondersDeletedOnce, RespondersApart, OneLoop, DropClosesPipe

\* Every step of the router, the application and the peer keeps it.
LEMMA InvStep ==
  ASSUME Inv, [Next]_vars
  PROVE  Inv'
<1>1. TypeOK /\ Alive /\ Responders /\ OneLoop /\ DropClosesPipe
  BY DEF Inv, Alive, Responders
<1>2. TypeOK' /\ Alive' /\ Responders' /\ OneLoop' /\ DropClosesPipe'
  BY <1>1, TypeStep, AliveStep, RespondersStep, LoopStep, DropStep
<1> QED
  BY <1>2 DEF Inv, Alive, Responders

\* Inv is an invariant of the connector and router, connector.cc and router.cc.
THEOREM InvHolds == Spec => []Inv
<1>1. Init => Inv
  BY InvInit
<1>2. Inv /\ [Next]_vars => Inv'
  BY InvStep
<1> QED
  BY <1>1, <1>2, PTL DEF Spec

\* ReadSingleMessage() and NotifyError() never run on a router that the
\* application destroyed in a callback, however deep the callbacks nest.
THEOREM DestructionIsNoticed == Spec => []NeverRunsDestroyed
<1>1. Inv => NeverRunsDestroyed
  BY DEF Inv
<1> QED
  BY <1>1, InvHolds, PTL

\* HandleIncomingMessage() and ~Router() never delete the same responder.
THEOREM NoDoubleDelete == Spec => []RespondersDeletedOnce
<1>1. Inv => RespondersDeletedOnce
  BY DEF Inv
<1> QED
  BY <1>1, InvHolds, PTL

\* A responder that ~ResponderThunk() finds unused leaves no open pipe behind.
THEOREM DropsAreSeen == Spec => []DropClosesPipe
<1>1. Inv => DropClosesPipe
  BY DEF Inv
<1> QED
  BY <1>1, InvHolds, PTL

\* The assertion of WaitToReadMore(), connector.cc, never fails: while
\* ReadAllAvailableMessages() runs, and in every callback it makes, there is no
\* wait.
THEOREM WaitToReadMoreAssertion == Spec => []WaitsOnce
<1>1. Inv => WaitsOnce
  BY DEF Inv, OneLoop, WaitsOnce
<1> QED
  BY <1>1, InvHolds, PTL
=============================================================================
