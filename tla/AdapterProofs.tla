---------------------------- MODULE AdapterProofs ----------------------------
(* What holds of the clients and transports around the service, for every      *)
(* value of their constants: the TCP server, the HTTP plugin, the relay of the *)
(* user interface, MCP's subscriptions, and with the ACP adapter of AcpProofs  *)
(* the group they are checked in.                                              *)
EXTENDS MCAdapters, AcpProofs

-----------------------------------------------------------------------------
(* The TCP server.                                                             *)

PeerMethods == {"start", "list", "send", "stop", "subscribe", "authenticate", "wrong", "none"}
PeerSteps == {"away", "poll", "recv", "handle", "insert", "lock", "locked", "listing", "reply",
              "refuse", "gone"}

PeerLine == [method : PeerMethods, id : {0} \cup Child]
PeerState == [at : PeerSteps, auth : BOOLEAN, request : PeerLine, left : SUBSET Child]

ServerTyped ==
    /\ rpcStopper \in [at : {"none", "begin", "kill", "over"}, left : SUBSET Child]
    /\ sessions \subseteq Child /\ tracked \subseteq Child
    /\ rpcChild \in [Child -> {"none", "running", "killing", "exited"}]
    /\ rpcRegistered \in BOOLEAN
PeersTyped ==
    /\ peer \in [Peer -> PeerState]
    /\ \A c \in Peer : peer[c].at \in {"insert", "lock", "locked"} => peer[c].request.id \in Child
LinesTyped ==
    /\ inbox \in [Peer -> Seq(PeerRequest)] /\ rpcAsked \in [Peer -> Seq(PeerRequest)]
    /\ replied \in [Peer -> Seq(PeerMethods)]
ReceiversTyped ==
    /\ eventCount \in [Child -> Nat]
    /\ subPos \in [Peer -> [Child -> Int]] /\ believed \in [Peer -> [Child -> Int]]

\* The stop happens once, and what it has let go of is dead.
StopOnce ==
    /\ rpcRegistered => rpcStopper.at = "none"
    /\ listening = "no" => ~rpcRegistered /\ rpcStopper.at = "none"
    /\ rpcStopper.at = "kill" => \A s \in tracked \ rpcStopper.left : rpcChild[s] = "exited"
    /\ rpcStopper.at = "over" => \A s \in tracked : rpcChild[s] = "exited"
    /\ stopCall = "done" => rpcStopper.at = "over"

\* The requests a connection sent are those it has answered, the one in hand and
\* those to be read, in this order.
InHand == {"handle", "insert", "lock", "locked", "listing", "reply", "refuse"}
HandOf(p) == IF p.at \in InHand THEN 1 ELSE 0
MatchOf(a, i, r, p) ==
    /\ Len(r) <= Len(a) /\ \A k \in DOMAIN r : r[k] = a[k].method
    /\ p.at # "gone" => /\ Len(a) = Len(r) + Len(i) + HandOf(p)
                        /\ \A k \in DOMAIN i : i[k] = a[Len(r) + HandOf(p) + k]
    /\ p.at \in InHand => p.request.method = a[Len(r) + 1].method
InOrder == \A c \in Peer : MatchOf(rpcAsked[c], inbox[c], replied[c], peer[c])

ServerInv == /\ ServerTyped /\ PeersTyped /\ LinesTyped /\ ReceiversTyped
             /\ StopOnce /\ ChildIsKept /\ InOrder /\ NoSilentSkip

LEMMA OrderAsks ==
  ASSUME NEW a \in Seq(PeerRequest), NEW i \in Seq(PeerRequest), NEW r \in Seq(PeerMethods), NEW p,
         NEW x \in PeerRequest, MatchOf(a, i, r, p), p.at # "gone"
  PROVE  MatchOf(Append(a, x), Append(i, x), r, p)
<1>1. /\ Len(r) \in Nat /\ Len(a) \in Nat /\ Len(i) \in Nat /\ HandOf(p) \in Nat
      /\ DOMAIN a = 1 .. Len(a) /\ DOMAIN i = 1 .. Len(i) /\ DOMAIN r = 1 .. Len(r)
  BY DEF HandOf
<1>2. \A s \in Seq(PeerRequest) : /\ Len(Append(s, x)) = Len(s) + 1
                                  /\ \A k \in 1 .. Len(s) : Append(s, x)[k] = s[k]
                                  /\ Append(s, x)[Len(s) + 1] = x
                                  /\ DOMAIN Append(s, x) = 1 .. (Len(s) + 1)
  OBVIOUS
<1> DEFINE b == Append(a, x)
           j == Append(i, x)
<1>3. /\ Len(b) = Len(a) + 1 /\ b[Len(a) + 1] = x /\ \A k \in 1 .. Len(a) : b[k] = a[k]
      /\ Len(j) = Len(i) + 1 /\ j[Len(i) + 1] = x /\ \A k \in 1 .. Len(i) : j[k] = i[k]
      /\ DOMAIN j = 1 .. (Len(i) + 1)
  BY <1>2
<1> HIDE DEF b, j
<1>4. /\ Len(r) <= Len(b) /\ \A k \in DOMAIN r : r[k] = b[k].method
      /\ Len(b) = Len(r) + Len(j) + HandOf(p)
  BY ONLY <1>1, <1>3, MatchOf(a, i, r, p), p.at # "gone" DEF MatchOf
<1>5. \A k \in DOMAIN j : j[k] = b[Len(r) + HandOf(p) + k]
  <2> TAKE k \in DOMAIN j
  <2>1. CASE k \in 1 .. Len(i)
    BY ONLY <2>1, <1>1, <1>3, MatchOf(a, i, r, p), p.at # "gone" DEF MatchOf
  <2>2. CASE k = Len(i) + 1
    BY ONLY <2>2, <1>1, <1>3, MatchOf(a, i, r, p), p.at # "gone" DEF MatchOf
  <2> QED BY ONLY <2>1, <2>2, <1>1, <1>3, k \in DOMAIN j
<1>6. ASSUME p.at \in InHand PROVE p.request.method = b[Len(r) + 1].method
  <2>1. HandOf(p) = 1
    BY <1>6 DEF HandOf
  <2>2. Len(a) = Len(r) + Len(i) + HandOf(p) /\ p.request.method = a[Len(r) + 1].method
    BY ONLY <1>6, MatchOf(a, i, r, p), p.at # "gone" DEF MatchOf
  <2>3. Len(r) + 1 \in 1 .. Len(a)
    BY ONLY <1>1, <2>1, <2>2
  <2> QED BY ONLY <1>3, <2>2, <2>3
<1>7. MatchOf(b, j, r, p)
  BY <1>4, <1>5, <1>6 DEF MatchOf
<1> QED BY <1>7 DEF b, j

LEMMA OrderReads ==
  ASSUME NEW a \in Seq(PeerRequest), NEW i \in Seq(PeerRequest), NEW r \in Seq(PeerMethods), NEW p, NEW q,
         MatchOf(a, i, r, p), p.at = "recv", i # <<>>,
         q.at = "gone" \/ (q.at = "handle" /\ q.request = Head(i))
  PROVE  MatchOf(a, Tail(i), r, q)
<1>1. /\ Len(r) \in Nat /\ Len(a) \in Nat /\ Len(i) \in Nat
      /\ DOMAIN a = 1 .. Len(a) /\ DOMAIN i = 1 .. Len(i) /\ DOMAIN r = 1 .. Len(r)
  OBVIOUS
<1> DEFINE j == Tail(i)
<1>2. /\ Len(j) = Len(i) - 1 /\ Head(i) = i[1] /\ 1 \in DOMAIN i
      /\ \A k \in DOMAIN j : k + 1 \in DOMAIN i /\ j[k] = i[k + 1] /\ k \in Int
  BY TailFacts
<1>3. HandOf(p) = 0 /\ Len(r) <= Len(a) /\ (\A k \in DOMAIN r : r[k] = a[k].method)
      /\ Len(a) = Len(r) + Len(i) /\ \A k \in DOMAIN i : i[k] = a[Len(r) + 0 + k]
  <2>1. HandOf(p) = 0 /\ p.at # "gone"
    BY ONLY p.at = "recv" DEF HandOf, InHand
  <2>2. /\ Len(r) <= Len(a) /\ (\A k \in DOMAIN r : r[k] = a[k].method)
        /\ Len(a) = Len(r) + Len(i) + HandOf(p) /\ \A k \in DOMAIN i : i[k] = a[Len(r) + HandOf(p) + k]
    BY ONLY <2>1, MatchOf(a, i, r, p) DEF MatchOf
  <2> QED BY ONLY <1>1, <2>1, <2>2
<1> HIDE DEF j
<1>4. CASE q.at = "gone"
  <2>1. MatchOf(a, j, r, q)
    BY ONLY <1>4, <1>3 DEF MatchOf, InHand
  <2> QED BY <2>1 DEF j
<1>5. CASE q.at = "handle" /\ q.request = Head(i)
  <2>1. HandOf(q) = 1
    BY <1>5 DEF HandOf, InHand
  <2>2. Len(a) = Len(r) + Len(j) + 1
    BY ONLY <1>1, <1>2, <1>3
  <2>3. \A k \in DOMAIN j : j[k] = a[Len(r) + 1 + k]
    <3> TAKE k \in DOMAIN j
    <3>1. j[k] = i[k + 1] /\ k + 1 \in DOMAIN i /\ k \in Int
      BY ONLY <1>2, k \in DOMAIN j
    <3>2. i[k + 1] = a[Len(r) + 0 + (k + 1)]
      BY ONLY <1>3, <3>1
    <3>3. Len(r) + 0 + (k + 1) = Len(r) + 1 + k
      BY ONLY <1>1, <3>1
    <3> QED BY ONLY <3>1, <3>2, <3>3
  <2>4. q.request.method = a[Len(r) + 1].method
    <3>1. i[1] = a[Len(r) + 0 + 1] /\ Len(r) + 0 + 1 = Len(r) + 1
      BY ONLY <1>1, <1>2, <1>3, SMTT(40)
    <3> QED BY ONLY <3>1, <1>2, <1>5
  <2>5. MatchOf(a, j, r, q)
    BY ONLY <1>1, <1>3, <2>1, <2>2, <2>3, <2>4 DEF MatchOf
  <2> QED BY <2>5 DEF j
<1> QED BY <1>4, <1>5

LEMMA OrderReplies ==
  ASSUME NEW a \in Seq(PeerRequest), NEW i \in Seq(PeerRequest), NEW r \in Seq(PeerMethods), NEW p, NEW q,
         MatchOf(a, i, r, p), p.at \in {"reply", "refuse"}, p.request.method \in PeerMethods,
         q.at \in {"poll", "gone"}
  PROVE  MatchOf(a, i, Append(r, p.request.method), q)
<1>1. /\ Len(r) \in Nat /\ Len(a) \in Nat /\ Len(i) \in Nat
      /\ DOMAIN a = 1 .. Len(a) /\ DOMAIN i = 1 .. Len(i) /\ DOMAIN r = 1 .. Len(r)
  OBVIOUS
<1> DEFINE s == Append(r, p.request.method)
<1>2. /\ Len(s) = Len(r) + 1 /\ s[Len(r) + 1] = p.request.method /\ DOMAIN s = 1 .. (Len(r) + 1)
      /\ \A k \in 1 .. Len(r) : s[k] = r[k]
  OBVIOUS
<1>3. /\ HandOf(p) = 1 /\ (\A k \in DOMAIN r : r[k] = a[k].method)
      /\ Len(a) = Len(r) + Len(i) + 1 /\ (\A k \in DOMAIN i : i[k] = a[Len(r) + 1 + k])
      /\ p.request.method = a[Len(r) + 1].method
  BY ONLY MatchOf(a, i, r, p), p.at \in {"reply", "refuse"} DEF MatchOf, HandOf, InHand
<1>4. HandOf(q) = 0 /\ q.at \notin InHand
  BY DEF HandOf, InHand
<1> HIDE DEF s
<1>5. Len(s) <= Len(a) /\ Len(a) = Len(s) + Len(i) + 0
  BY ONLY <1>1, <1>2, <1>3
<1>6. \A k \in DOMAIN s : s[k] = a[k].method
  <2> TAKE k \in DOMAIN s
  <2>1. CASE k = Len(r) + 1
    BY ONLY <2>1, <1>2, <1>3
  <2>2. CASE k \in 1 .. Len(r)
    BY ONLY <2>2, <1>1, <1>2, <1>3
  <2> QED BY ONLY <2>1, <2>2, <1>1, <1>2, k \in DOMAIN s
<1>7. \A k \in DOMAIN i : i[k] = a[Len(s) + 0 + k]
  <2> TAKE k \in DOMAIN i
  <2>1. Len(s) + 0 + k = Len(r) + 1 + k
    BY ONLY <1>1, <1>2, k \in DOMAIN i
  <2> QED BY ONLY <2>1, <1>3, k \in DOMAIN i
<1>8. MatchOf(a, i, s, q)
  BY ONLY <1>4, <1>5, <1>6, <1>7 DEF MatchOf
<1> QED BY <1>8 DEF s

LEMMA OrderMoves ==
  ASSUME NEW a, NEW i, NEW r, NEW p, NEW q, MatchOf(a, i, r, p),
         \/ q.at = "gone"
         \/ p.at # "gone" /\ p.at \in InHand /\ q.at \in InHand /\ q.request.method = p.request.method
         \/ p.at # "gone" /\ p.at \notin InHand /\ q.at \notin InHand
  PROVE  MatchOf(a, i, r, q)
BY DEF MatchOf, HandOf, InHand

LEMMA PeerTyping ==
  ASSUME PeersTyped, NEW c \in Peer
  PROVE  /\ \A v \in PeerSteps : [peer EXCEPT ![c].at = v] \in [Peer -> PeerState]
         /\ \A v \in PeerSteps, w \in BOOLEAN : [peer EXCEPT ![c].at = v, ![c].auth = w] \in [Peer -> PeerState]
         /\ \A v \in PeerSteps, r \in PeerLine : [peer EXCEPT ![c].at = v, ![c].request = r] \in [Peer -> PeerState]
         /\ \A v \in PeerSteps, s \in Child : [peer EXCEPT ![c].at = v, ![c].request.id = s] \in [Peer -> PeerState]
         /\ \A v \in PeerSteps, l \in SUBSET Child : [peer EXCEPT ![c].at = v, ![c].left = l] \in [Peer -> PeerState]
         /\ \A l \in SUBSET Child : [peer EXCEPT ![c].left = l] \in [Peer -> PeerState]
<1>1. peer \in [Peer -> PeerState] /\ peer[c] \in PeerState
  BY DEF PeersTyped
<1>2. ASSUME NEW p \in PeerState
      PROVE  /\ \A v \in PeerSteps : [p EXCEPT !.at = v] \in PeerState
             /\ \A w \in BOOLEAN : [p EXCEPT !.auth = w] \in PeerState
             /\ \A r \in PeerLine : [p EXCEPT !.request = r] \in PeerState
             /\ \A l \in SUBSET Child : [p EXCEPT !.left = l] \in PeerState
  BY DEF PeerState
<1>3. ASSUME NEW p \in PeerState, NEW s \in Child PROVE [p EXCEPT !.request.id = s] \in PeerState
  <2>1. p.request \in PeerLine
    BY DEF PeerState
  <2>2. [p.request EXCEPT !.id = s] \in PeerLine
    BY <2>1 DEF PeerLine
  <2> QED BY <1>2, <2>2
<1>4. ASSUME NEW f \in [Peer -> PeerState], NEW x \in PeerState
      PROVE  [f EXCEPT ![c] = x] \in [Peer -> PeerState]
  OBVIOUS
<1>5. ASSUME NEW f \in [Peer -> PeerState]
      PROVE  /\ f[c] \in PeerState
             /\ \A v \in PeerSteps : [f EXCEPT ![c].at = v] \in [Peer -> PeerState]
             /\ \A w \in BOOLEAN : [f EXCEPT ![c].auth = w] \in [Peer -> PeerState]
             /\ \A r \in PeerLine : [f EXCEPT ![c].request = r] \in [Peer -> PeerState]
             /\ \A l \in SUBSET Child : [f EXCEPT ![c].left = l] \in [Peer -> PeerState]
             /\ \A s \in Child : [f EXCEPT ![c].request.id = s] \in [Peer -> PeerState]
  BY <1>2, <1>3, <1>4
<1> QED BY <1>1, <1>5

LEMMA ServerStarts == RpcInit => ServerInv
<1> SUFFICES ASSUME RpcInit PROVE ServerInv
  OBVIOUS
<1>1. ServerTyped /\ StopOnce /\ ChildIsKept
  BY DEF RpcInit, ServerTyped, StopOnce, ChildIsKept
<1>2. PeersTyped /\ LinesTyped
  BY DEF RpcInit, PeersTyped, LinesTyped, PeerSteps, PeerMethods, RpcNothing, PeerLine, PeerState
<1>3. ReceiversTyped /\ NoSilentSkip
  BY DEF RpcInit, ReceiversTyped, NoSilentSkip
<1>4. InOrder
  BY DEF RpcInit, InOrder, MatchOf, HandOf, InHand
<1> QED BY <1>1, <1>2, <1>3, <1>4 DEF ServerInv

LEMMA ServerStays == ServerInv /\ [RpcNext]_rpcVars => ServerInv'
<1> SUFFICES ASSUME ServerInv, [RpcNext]_rpcVars PROVE ServerInv'
  OBVIOUS
<1>a. /\ ServerTyped /\ PeersTyped /\ LinesTyped /\ ReceiversTyped
      /\ StopOnce /\ ChildIsKept /\ InOrder /\ NoSilentSkip
  BY DEF ServerInv
<1>b. ASSUME UNCHANGED <<rpcStopper, sessions, tracked, rpcChild, rpcRegistered>> PROVE ServerTyped'
  BY <1>a, <1>b DEF ServerTyped
<1>c. ASSUME UNCHANGED peer PROVE PeersTyped'
  BY <1>a, <1>c DEF PeersTyped
<1>d. ASSUME UNCHANGED <<inbox, rpcAsked, replied>> PROVE LinesTyped'
  BY <1>a, <1>d DEF LinesTyped
<1>e. ASSUME UNCHANGED <<eventCount, subPos, believed>> PROVE ReceiversTyped'
  BY <1>a, <1>e DEF ReceiversTyped
<1>f. ASSUME UNCHANGED <<rpcRegistered, rpcStopper, listening, tracked, rpcChild, stopCall>>
      PROVE  StopOnce'
  BY <1>a, <1>f DEF StopOnce
<1>g. ASSUME UNCHANGED <<rpcChild, sessions, peer>> PROVE ChildIsKept'
  BY <1>a, <1>g DEF ChildIsKept, Id
<1>h. ASSUME UNCHANGED <<rpcAsked, inbox, replied, peer>> PROVE InOrder'
  BY <1>a, <1>h DEF InOrder
<1>i. ASSUME UNCHANGED <<believed, subPos>> PROVE NoSilentSkip'
  BY <1>a, <1>i DEF NoSilentSkip
<1>1. ASSUME ServerUp, UNCHANGED <<rpcSessionVars, lockVars, peer, lineVars, answerVars>>
      PROVE  ServerInv'
  <2>1. ServerTyped'
    BY <1>a, <1>1, ServerBounds
       DEF ServerTyped, ServerUp, toolVars, rpcSessionVars, lockVars, lineVars, answerVars, Quiet
  <2>2. PeersTyped'
    BY <1>c, <1>1 DEF ServerUp, toolVars, rpcSessionVars, lockVars, lineVars, answerVars, Quiet
  <2>3. LinesTyped'
    BY <1>d, <1>1 DEF ServerUp, toolVars, rpcSessionVars, lockVars, lineVars, answerVars, Quiet
  <2>4. ReceiversTyped'
    BY <1>e, <1>1 DEF ServerUp, toolVars, rpcSessionVars, lockVars, lineVars, answerVars, Quiet
  <2>5. StopOnce'
    BY <1>a, <1>1, ServerBounds
       DEF StopOnce, ServerTyped, ServerUp, toolVars, rpcSessionVars, lockVars, lineVars,
           answerVars, Quiet
  <2>6. ChildIsKept'
    BY <1>g, <1>1 DEF ServerUp, toolVars, rpcSessionVars, lockVars, lineVars, answerVars, Quiet
  <2>7. InOrder'
    BY <1>h, <1>1 DEF ServerUp, toolVars, rpcSessionVars, lockVars, lineVars, answerVars, Quiet
  <2>8. NoSilentSkip'
    BY <1>i, <1>1 DEF ServerUp, toolVars, rpcSessionVars, lockVars, lineVars, answerVars, Quiet
  <2> QED BY <2>1, <2>2, <2>3, <2>4, <2>5, <2>6, <2>7, <2>8 DEF ServerInv
<1>2. ASSUME StopCalled, UNCHANGED <<rpcSessionVars, lockVars, peer, lineVars, answerVars>>
      PROVE  ServerInv'
  <2>1. ServerTyped'
    BY <1>a, <1>2, ServerBounds
       DEF ServerTyped, StopCalled, toolVars, rpcSessionVars, lockVars, lineVars, answerVars,
           Quiet
  <2>2. PeersTyped'
    BY <1>c, <1>2 DEF StopCalled, toolVars, rpcSessionVars, lockVars, lineVars, answerVars, Quiet
  <2>3. LinesTyped'
    BY <1>d, <1>2 DEF StopCalled, toolVars, rpcSessionVars, lockVars, lineVars, answerVars, Quiet
  <2>4. ReceiversTyped'
    BY <1>e, <1>2 DEF StopCalled, toolVars, rpcSessionVars, lockVars, lineVars, answerVars, Quiet
  <2>5. StopOnce'
    BY <1>a, <1>2, ServerBounds
       DEF StopOnce, ServerTyped, StopCalled, toolVars, rpcSessionVars, lockVars, lineVars,
           answerVars, Quiet
  <2>6. ChildIsKept'
    BY <1>g, <1>2 DEF StopCalled, toolVars, rpcSessionVars, lockVars, lineVars, answerVars, Quiet
  <2>7. InOrder'
    BY <1>h, <1>2 DEF StopCalled, toolVars, rpcSessionVars, lockVars, lineVars, answerVars, Quiet
  <2>8. NoSilentSkip'
    BY <1>i, <1>2 DEF StopCalled, toolVars, rpcSessionVars, lockVars, lineVars, answerVars, Quiet
  <2> QED BY <2>1, <2>2, <2>3, <2>4, <2>5, <2>6, <2>7, <2>8 DEF ServerInv
<1>3. ASSUME StopTimesOut, UNCHANGED <<rpcSessionVars, lockVars, peer, lineVars, answerVars>>
      PROVE  ServerInv'
  <2>1. ServerTyped'
    BY <1>a, <1>3, ServerBounds
       DEF ServerTyped, StopTimesOut, toolVars, rpcSessionVars, lockVars, lineVars, answerVars,
           Quiet
  <2>2. PeersTyped'
    BY <1>c, <1>3 DEF StopTimesOut, toolVars, rpcSessionVars, lockVars, lineVars, answerVars, Quiet
  <2>3. LinesTyped'
    BY <1>d, <1>3 DEF StopTimesOut, toolVars, rpcSessionVars, lockVars, lineVars, answerVars, Quiet
  <2>4. ReceiversTyped'
    BY <1>e, <1>3 DEF StopTimesOut, toolVars, rpcSessionVars, lockVars, lineVars, answerVars, Quiet
  <2>5. StopOnce'
    BY <1>a, <1>3, ServerBounds
       DEF StopOnce, ServerTyped, StopTimesOut, toolVars, rpcSessionVars, lockVars, lineVars,
           answerVars, Quiet
  <2>6. ChildIsKept'
    BY <1>g, <1>3 DEF StopTimesOut, toolVars, rpcSessionVars, lockVars, lineVars, answerVars, Quiet
  <2>7. InOrder'
    BY <1>h, <1>3 DEF StopTimesOut, toolVars, rpcSessionVars, lockVars, lineVars, answerVars, Quiet
  <2>8. NoSilentSkip'
    BY <1>i, <1>3 DEF StopTimesOut, toolVars, rpcSessionVars, lockVars, lineVars, answerVars, Quiet
  <2> QED BY <2>1, <2>2, <2>3, <2>4, <2>5, <2>6, <2>7, <2>8 DEF ServerInv
<1>4. ASSUME StopLocks, UNCHANGED <<rpcSessionVars, peer, lineVars, answerVars>> PROVE ServerInv'
  <2>1. ServerTyped'
    BY <1>a, <1>4, ServerBounds
       DEF ServerTyped, StopLocks, toolVars, rpcSessionVars, lockVars, lineVars, answerVars, Quiet
  <2>2. PeersTyped'
    BY <1>c, <1>4 DEF StopLocks, toolVars, rpcSessionVars, lockVars, lineVars, answerVars, Quiet
  <2>3. LinesTyped'
    BY <1>d, <1>4 DEF StopLocks, toolVars, rpcSessionVars, lockVars, lineVars, answerVars, Quiet
  <2>4. ReceiversTyped'
    BY <1>e, <1>4 DEF StopLocks, toolVars, rpcSessionVars, lockVars, lineVars, answerVars, Quiet
  <2>5. StopOnce'
    BY <1>a, <1>4, ServerBounds
       DEF StopOnce, ServerTyped, StopLocks, toolVars, rpcSessionVars, lockVars, lineVars,
           answerVars, Quiet
  <2>6. ChildIsKept'
    BY <1>g, <1>4 DEF StopLocks, toolVars, rpcSessionVars, lockVars, lineVars, answerVars, Quiet
  <2>7. InOrder'
    BY <1>h, <1>4 DEF StopLocks, toolVars, rpcSessionVars, lockVars, lineVars, answerVars, Quiet
  <2>8. NoSilentSkip'
    BY <1>i, <1>4 DEF StopLocks, toolVars, rpcSessionVars, lockVars, lineVars, answerVars, Quiet
  <2> QED BY <2>1, <2>2, <2>3, <2>4, <2>5, <2>6, <2>7, <2>8 DEF ServerInv
<1>5. ASSUME NEW s \in Child, StopKills(s), UNCHANGED <<toolVars, peer, lineVars, answerVars>>
      PROVE  ServerInv'
  <2>1. ServerTyped'
    BY <1>a, <1>5, ServerBounds
       DEF ServerTyped, StopKills, toolVars, rpcSessionVars, lockVars, lineVars, answerVars, Quiet
  <2>2. PeersTyped'
    BY <1>c, <1>5 DEF StopKills, toolVars, rpcSessionVars, lockVars, lineVars, answerVars, Quiet
  <2>3. LinesTyped'
    BY <1>d, <1>5 DEF StopKills, toolVars, rpcSessionVars, lockVars, lineVars, answerVars, Quiet
  <2>4. ReceiversTyped'
    BY <1>e, <1>5 DEF StopKills, toolVars, rpcSessionVars, lockVars, lineVars, answerVars, Quiet
  <2>5. StopOnce'
    BY <1>a, <1>5, ServerBounds
       DEF StopOnce, ServerTyped, StopKills, toolVars, rpcSessionVars, lockVars, lineVars,
           answerVars, Quiet
  <2>6. ChildIsKept'
    BY <1>a, <1>5, ServerBounds
       DEF ChildIsKept, Id, ServerTyped, PeersTyped, PeerState, PeerLine, StopKills, toolVars,
           rpcSessionVars, lockVars, lineVars, answerVars, Quiet
  <2>7. InOrder'
    BY <1>h, <1>5 DEF StopKills, toolVars, rpcSessionVars, lockVars, lineVars, answerVars, Quiet
  <2>8. NoSilentSkip'
    BY <1>i, <1>5 DEF StopKills, toolVars, rpcSessionVars, lockVars, lineVars, answerVars, Quiet
  <2> QED BY <2>1, <2>2, <2>3, <2>4, <2>5, <2>6, <2>7, <2>8 DEF ServerInv
<1>6. ASSUME NEW s \in Child, StopKilled(s), UNCHANGED <<rpcSessionVars, peer, lineVars, answerVars>>
      PROVE  ServerInv'
  <2>1. ServerTyped'
    BY <1>a, <1>6, ServerBounds
       DEF ServerTyped, StopKilled, Awaited, toolVars, rpcSessionVars, lockVars, lineVars,
           answerVars, Quiet
  <2>2. PeersTyped'
    BY <1>c, <1>6
       DEF StopKilled, Awaited, toolVars, rpcSessionVars, lockVars, lineVars, answerVars, Quiet
  <2>3. LinesTyped'
    BY <1>d, <1>6
       DEF StopKilled, Awaited, toolVars, rpcSessionVars, lockVars, lineVars, answerVars, Quiet
  <2>4. ReceiversTyped'
    BY <1>e, <1>6
       DEF StopKilled, Awaited, toolVars, rpcSessionVars, lockVars, lineVars, answerVars, Quiet
  <2>5. StopOnce'
    BY <1>a, <1>6, ServerBounds
       DEF StopOnce, ServerTyped, StopKilled, Awaited, toolVars, rpcSessionVars, lockVars,
           lineVars, answerVars, Quiet
  <2>6. ChildIsKept'
    BY <1>g, <1>6
       DEF StopKilled, Awaited, toolVars, rpcSessionVars, lockVars, lineVars, answerVars, Quiet
  <2>7. InOrder'
    BY <1>h, <1>6
       DEF StopKilled, Awaited, toolVars, rpcSessionVars, lockVars, lineVars, answerVars, Quiet
  <2>8. NoSilentSkip'
    BY <1>i, <1>6
       DEF StopKilled, Awaited, toolVars, rpcSessionVars, lockVars, lineVars, answerVars, Quiet
  <2> QED BY <2>1, <2>2, <2>3, <2>4, <2>5, <2>6, <2>7, <2>8 DEF ServerInv
<1>7. ASSUME StopOver, UNCHANGED <<rpcSessionVars, peer, lineVars, answerVars>> PROVE ServerInv'
  <2>1. ServerTyped'
    BY <1>a, <1>7, ServerBounds
       DEF ServerTyped, StopOver, toolVars, rpcSessionVars, lockVars, lineVars, answerVars, Quiet
  <2>2. PeersTyped'
    BY <1>c, <1>7 DEF StopOver, toolVars, rpcSessionVars, lockVars, lineVars, answerVars, Quiet
  <2>3. LinesTyped'
    BY <1>d, <1>7 DEF StopOver, toolVars, rpcSessionVars, lockVars, lineVars, answerVars, Quiet
  <2>4. ReceiversTyped'
    BY <1>e, <1>7 DEF StopOver, toolVars, rpcSessionVars, lockVars, lineVars, answerVars, Quiet
  <2>5. StopOnce'
    BY <1>a, <1>7, ServerBounds
       DEF StopOnce, ServerTyped, StopOver, toolVars, rpcSessionVars, lockVars, lineVars,
           answerVars, Quiet
  <2>6. ChildIsKept'
    BY <1>g, <1>7 DEF StopOver, toolVars, rpcSessionVars, lockVars, lineVars, answerVars, Quiet
  <2>7. InOrder'
    BY <1>h, <1>7 DEF StopOver, toolVars, rpcSessionVars, lockVars, lineVars, answerVars, Quiet
  <2>8. NoSilentSkip'
    BY <1>i, <1>7 DEF StopOver, toolVars, rpcSessionVars, lockVars, lineVars, answerVars, Quiet
  <2> QED BY <2>1, <2>2, <2>3, <2>4, <2>5, <2>6, <2>7, <2>8 DEF ServerInv
<1>8. ASSUME NEW s \in Child, ChildSays(s), UNCHANGED <<toolVars, lockVars, peer, lineVars, answerVars>>
      PROVE  ServerInv'
  <2>1. ServerTyped'
    BY <1>b, <1>8 DEF ChildSays, toolVars, rpcSessionVars, lockVars, lineVars, answerVars, Quiet
  <2>2. PeersTyped'
    BY <1>c, <1>8 DEF ChildSays, toolVars, rpcSessionVars, lockVars, lineVars, answerVars, Quiet
  <2>3. LinesTyped'
    BY <1>d, <1>8 DEF ChildSays, toolVars, rpcSessionVars, lockVars, lineVars, answerVars, Quiet
  <2>4. ReceiversTyped'
    BY <1>a, <1>8, ServerBounds
       DEF ReceiversTyped, Oldest, Skipped, ChildSays, toolVars, rpcSessionVars, lockVars,
           lineVars, answerVars, Quiet
  <2>5. StopOnce'
    BY <1>f, <1>8 DEF ChildSays, toolVars, rpcSessionVars, lockVars, lineVars, answerVars, Quiet
  <2>6. ChildIsKept'
    BY <1>g, <1>8 DEF ChildSays, toolVars, rpcSessionVars, lockVars, lineVars, answerVars, Quiet
  <2>7. InOrder'
    BY <1>h, <1>8 DEF ChildSays, toolVars, rpcSessionVars, lockVars, lineVars, answerVars, Quiet
  <2>8. NoSilentSkip'
    BY <1>i, <1>8 DEF ChildSays, toolVars, rpcSessionVars, lockVars, lineVars, answerVars, Quiet
  <2> QED BY <2>1, <2>2, <2>3, <2>4, <2>5, <2>6, <2>7, <2>8 DEF ServerInv
<1>9. ASSUME NEW s \in Child, ChildExits(s), UNCHANGED <<toolVars, lockVars, peer, lineVars, answerVars>>
      PROVE  ServerInv'
  <2>1. ServerTyped'
    BY <1>a, <1>9, ServerBounds
       DEF ServerTyped, ChildExits, toolVars, rpcSessionVars, lockVars, lineVars, answerVars,
           Quiet
  <2>2. PeersTyped'
    BY <1>c, <1>9 DEF ChildExits, toolVars, rpcSessionVars, lockVars, lineVars, answerVars, Quiet
  <2>3. LinesTyped'
    BY <1>d, <1>9 DEF ChildExits, toolVars, rpcSessionVars, lockVars, lineVars, answerVars, Quiet
  <2>4. ReceiversTyped'
    BY <1>e, <1>9 DEF ChildExits, toolVars, rpcSessionVars, lockVars, lineVars, answerVars, Quiet
  <2>5. StopOnce'
    BY <1>a, <1>9, ServerBounds
       DEF StopOnce, ServerTyped, ChildExits, toolVars, rpcSessionVars, lockVars, lineVars,
           answerVars, Quiet
  <2>6. ChildIsKept'
    BY <1>a, <1>9, ServerBounds
       DEF ChildIsKept, Id, ServerTyped, PeersTyped, PeerState, PeerLine, ChildExits, toolVars,
           rpcSessionVars, lockVars, lineVars, answerVars, Quiet
  <2>7. InOrder'
    BY <1>h, <1>9 DEF ChildExits, toolVars, rpcSessionVars, lockVars, lineVars, answerVars, Quiet
  <2>8. NoSilentSkip'
    BY <1>i, <1>9 DEF ChildExits, toolVars, rpcSessionVars, lockVars, lineVars, answerVars, Quiet
  <2> QED BY <2>1, <2>2, <2>3, <2>4, <2>5, <2>6, <2>7, <2>8 DEF ServerInv
<1>10. ASSUME NEW s \in Child, RpcReaderEnds(s), UNCHANGED <<toolVars, lockVars, peer, lineVars, answerVars>>
       PROVE  ServerInv'
  <2>1. ServerTyped'
    BY <1>b, <1>10
       DEF RpcReaderEnds, toolVars, rpcSessionVars, lockVars, lineVars, answerVars, Quiet
  <2>2. PeersTyped'
    BY <1>c, <1>10
       DEF RpcReaderEnds, toolVars, rpcSessionVars, lockVars, lineVars, answerVars, Quiet
  <2>3. LinesTyped'
    BY <1>d, <1>10
       DEF RpcReaderEnds, toolVars, rpcSessionVars, lockVars, lineVars, answerVars, Quiet
  <2>4. ReceiversTyped'
    BY <1>a, <1>10, ServerBounds
       DEF ReceiversTyped, Oldest, Skipped, RpcReaderEnds, toolVars, rpcSessionVars, lockVars,
           lineVars, answerVars, Quiet
  <2>5. StopOnce'
    BY <1>f, <1>10
       DEF RpcReaderEnds, toolVars, rpcSessionVars, lockVars, lineVars, answerVars, Quiet
  <2>6. ChildIsKept'
    BY <1>g, <1>10
       DEF RpcReaderEnds, toolVars, rpcSessionVars, lockVars, lineVars, answerVars, Quiet
  <2>7. InOrder'
    BY <1>h, <1>10
       DEF RpcReaderEnds, toolVars, rpcSessionVars, lockVars, lineVars, answerVars, Quiet
  <2>8. NoSilentSkip'
    BY <1>i, <1>10
       DEF RpcReaderEnds, toolVars, rpcSessionVars, lockVars, lineVars, answerVars, Quiet
  <2> QED BY <2>1, <2>2, <2>3, <2>4, <2>5, <2>6, <2>7, <2>8 DEF ServerInv
<1>11. ASSUME NEW c \in Peer, HalfRead(c), UNCHANGED <<toolVars, rpcSessionVars, lockVars, answerVars>>
       PROVE  ServerInv'
  <2>1. ServerTyped'
    BY <1>b, <1>11 DEF HalfRead, toolVars, rpcSessionVars, lockVars, lineVars, answerVars, Quiet
  <2>2. PeersTyped'
    BY <1>c, <1>11 DEF HalfRead, toolVars, rpcSessionVars, lockVars, lineVars, answerVars, Quiet
  <2>3. LinesTyped'
    BY <1>d, <1>11 DEF HalfRead, toolVars, rpcSessionVars, lockVars, lineVars, answerVars, Quiet
  <2>4. ReceiversTyped'
    BY <1>e, <1>11 DEF HalfRead, toolVars, rpcSessionVars, lockVars, lineVars, answerVars, Quiet
  <2>5. StopOnce'
    BY <1>f, <1>11 DEF HalfRead, toolVars, rpcSessionVars, lockVars, lineVars, answerVars, Quiet
  <2>6. ChildIsKept'
    BY <1>g, <1>11 DEF HalfRead, toolVars, rpcSessionVars, lockVars, lineVars, answerVars, Quiet
  <2>7. InOrder'
    BY <1>h, <1>11 DEF HalfRead, toolVars, rpcSessionVars, lockVars, lineVars, answerVars, Quiet
  <2>8. NoSilentSkip'
    BY <1>i, <1>11 DEF HalfRead, toolVars, rpcSessionVars, lockVars, lineVars, answerVars, Quiet
  <2> QED BY <2>1, <2>2, <2>3, <2>4, <2>5, <2>6, <2>7, <2>8 DEF ServerInv
<1>12. ASSUME NEW c \in Peer, ReadTimesOut(c), UNCHANGED <<toolVars, rpcSessionVars, lockVars, answerVars>>
       PROVE  ServerInv'
  <2>1. ServerTyped'
    BY <1>b, <1>12 DEF ReadTimesOut, toolVars, rpcSessionVars, lockVars, lineVars, answerVars, Quiet
  <2>2. PeersTyped'
    <3>1. peer' = [peer EXCEPT ![c].at = "poll"]
      BY <1>a, <1>12 DEF ReadTimesOut
    <3>2. {"recv", "poll", "gone", "handle", "reply", "refuse",
           "insert", "lock", "locked", "listing"} \subseteq PeerSteps
      BY DEF PeerSteps
    <3>4. PeersTyped /\ c \in Peer
      BY <1>a, <1>12
    <3>5. ASSUME peer' = [peer EXCEPT ![c].at = "poll"] PROVE peer' \in [Peer -> PeerState]
      BY ONLY <3>5, <3>2, <3>4, PeerTyping
    <3>6. peer' \in [Peer -> PeerState]
      BY <3>1, <3>5
    <3>7. \A d \in Peer : peer'[d].at \in {"insert", "lock", "locked"} => peer'[d].request.id \in Child
      <4>1. \A d \in Peer : d = c \/ peer'[d] = peer[d]
        BY ONLY <1>a, <3>1, <3>4 DEF PeersTyped
      <4>2. peer'[c].at \notin {"insert", "lock", "locked"}
        BY ONLY <1>a, <3>1, <3>4 DEF PeersTyped, PeerState
      <4> QED BY ONLY <1>a, <4>1, <4>2 DEF PeersTyped
    <3> QED BY <3>6, <3>7 DEF PeersTyped
  <2>3. LinesTyped'
    BY <1>d, <1>12 DEF ReadTimesOut, toolVars, rpcSessionVars, lockVars, lineVars, answerVars, Quiet
  <2>4. ReceiversTyped'
    BY <1>e, <1>12 DEF ReadTimesOut, toolVars, rpcSessionVars, lockVars, lineVars, answerVars, Quiet
  <2>5. StopOnce'
    BY <1>f, <1>12 DEF ReadTimesOut, toolVars, rpcSessionVars, lockVars, lineVars, answerVars, Quiet
  <2>6. ChildIsKept'
    BY <1>a, <1>12, ServerBounds
       DEF ChildIsKept, Id, ServerTyped, PeersTyped, PeerState, PeerLine, ReadTimesOut, toolVars,
           rpcSessionVars, lockVars, lineVars, answerVars, Quiet
  <2>7. InOrder'
    <3>1. /\ rpcAsked' = rpcAsked /\ inbox' = inbox /\ replied' = replied
          /\ \A d \in Peer : d = c \/ peer'[d] = peer[d]
      BY <1>a, <1>12
         DEF PeersTyped, PeerState, ReadTimesOut, toolVars, rpcSessionVars, lockVars, lineVars,
             answerVars, Quiet
    <3>2. \/ peer'[c].at = "gone"
          \/ peer[c].at # "gone" /\ peer[c].at \in InHand /\ peer'[c].at \in InHand
                 /\ peer'[c].request.method = peer[c].request.method
          \/ peer[c].at # "gone" /\ peer[c].at \notin InHand /\ peer'[c].at \notin InHand
      BY <1>a, <1>12
         DEF PeersTyped, PeerState, PeerLine, InHand, ReadTimesOut, toolVars, rpcSessionVars,
             lockVars, lineVars, answerVars, Quiet
    <3>3. MatchOf(rpcAsked[c], inbox[c], replied[c], peer'[c])
      BY <1>a, <1>12, <3>2, OrderMoves DEF InOrder
    <3> QED BY ONLY <1>a, <3>1, <3>3 DEF InOrder
  <2>8. NoSilentSkip'
    BY <1>i, <1>12 DEF ReadTimesOut, toolVars, rpcSessionVars, lockVars, lineVars, answerVars, Quiet
  <2> QED BY <2>1, <2>2, <2>3, <2>4, <2>5, <2>6, <2>7, <2>8 DEF ServerInv
<1>13. ASSUME NEW c \in Peer, RpcReadsLine(c), UNCHANGED <<toolVars, rpcSessionVars, lockVars, answerVars>>
       PROVE  ServerInv'
  <2>1. ServerTyped'
    BY <1>b, <1>13
       DEF RpcReadsLine, RpcBadLine, toolVars, rpcSessionVars, lockVars, lineVars, answerVars,
           Quiet
  <2>2. PeersTyped'
    <3>1. \/ peer' = [peer EXCEPT ![c].at = "gone"]
          \/ inbox[c] # <<>> /\ peer' = [peer EXCEPT ![c].at = "handle", ![c].request = Head(inbox[c])]
      BY <1>a, <1>13 DEF RpcReadsLine, RpcBadLine
    <3>2. {"recv", "poll", "gone", "handle", "reply", "refuse",
           "insert", "lock", "locked", "listing"} \subseteq PeerSteps
      BY DEF PeerSteps
    <3>3. inbox[c] # <<>> => Head(inbox[c]) \in PeerLine
      <4>1. inbox[c] # <<>> => Head(inbox[c]) \in PeerRequest
        BY <1>a, <1>13, TailFacts DEF LinesTyped
      <4>2. PeerRequest \subseteq PeerLine
        BY DEF PeerRequest, PeerLine, PeerMethods
      <4> QED BY ONLY <4>1, <4>2
    <3>4. PeersTyped /\ c \in Peer
      BY <1>a, <1>13
    <3>5. ASSUME peer' = [peer EXCEPT ![c].at = "gone"] PROVE peer' \in [Peer -> PeerState]
      BY ONLY <3>5, <3>2, <3>4, <3>3, PeerTyping
    <3>6. ASSUME inbox[c] # <<>> /\ peer' = [peer EXCEPT ![c].at = "handle", ![c].request = Head(inbox[c])]
          PROVE  peer' \in [Peer -> PeerState]
      BY ONLY <3>6, <3>2, <3>4, <3>3, PeerTyping
    <3>7. peer' \in [Peer -> PeerState]
      BY <3>1, <3>5, <3>6
    <3>8. \A d \in Peer : peer'[d].at \in {"insert", "lock", "locked"} => peer'[d].request.id \in Child
      <4>1. \A d \in Peer : d = c \/ peer'[d] = peer[d]
        BY <1>a, <3>1, <3>4 DEF PeersTyped
      <4>2. peer'[c].at \in {"gone", "handle"}
        BY ONLY <1>a, <3>1, <3>4 DEF PeersTyped, PeerState
      <4> QED BY ONLY <4>1, <4>2, <1>a DEF PeersTyped
    <3> QED BY <3>7, <3>8 DEF PeersTyped
  <2>3. LinesTyped'
    BY <1>a, <1>13, ServerBounds
       DEF LinesTyped, PeersTyped, PeerMethods, RpcReadsLine, RpcBadLine, toolVars,
           rpcSessionVars, lockVars, lineVars, answerVars, Quiet
  <2>4. ReceiversTyped'
    BY <1>e, <1>13
       DEF RpcReadsLine, RpcBadLine, toolVars, rpcSessionVars, lockVars, lineVars, answerVars,
           Quiet
  <2>5. StopOnce'
    BY <1>f, <1>13
       DEF RpcReadsLine, RpcBadLine, toolVars, rpcSessionVars, lockVars, lineVars, answerVars,
           Quiet
  <2>6. ChildIsKept'
    <3>1. /\ UNCHANGED <<rpcChild, sessions>> /\ peer[c].at = "recv" /\ \A d \in Peer : d = c \/ peer'[d] = peer[d]
      BY <1>a, <1>13 DEF PeersTyped, PeerState, RpcReadsLine, RpcBadLine, rpcSessionVars
    <3> QED BY ONLY <1>a, <3>1 DEF ChildIsKept, Id
  <2>7. InOrder'
    <3>1. /\ peer[c].at = "recv" /\ inbox[c] # <<>> /\ rpcAsked' = rpcAsked /\ replied' = replied
          /\ inbox' = [inbox EXCEPT ![c] = Tail(inbox[c])]
          /\ \/ peer' = [peer EXCEPT ![c].at = "gone"]
             \/ peer' = [peer EXCEPT ![c].at = "handle", ![c].request = Head(inbox[c])]
      BY <1>13 DEF RpcReadsLine, RpcBadLine, answerVars
    <3>2. /\ rpcAsked[c] \in Seq(PeerRequest) /\ inbox[c] \in Seq(PeerRequest) /\ replied[c] \in Seq(PeerMethods)
          /\ inbox \in [Peer -> Seq(PeerRequest)] /\ c \in Peer
      BY <1>a, <1>13 DEF LinesTyped
    <3>3. /\ peer'[c].at = "gone" \/ (peer'[c].at = "handle" /\ peer'[c].request = Head(inbox[c]))
          /\ \A d \in Peer : d = c \/ peer'[d] = peer[d]
      BY ONLY <1>a, <3>1, <3>2 DEF PeersTyped, PeerState, PeerLine
    <3>4. MatchOf(rpcAsked[c], Tail(inbox[c]), replied[c], peer'[c])
      BY <1>a, <1>13, <3>1, <3>2, <3>3, OrderReads DEF InOrder
    <3>5. \A d \in Peer : MatchOf(rpcAsked[d], inbox'[d], replied[d], peer'[d])
      BY ONLY <1>a, <3>1, <3>2, <3>3, <3>4 DEF InOrder
    <3> QED BY ONLY <3>5, <3>1 DEF InOrder
  <2>8. NoSilentSkip'
    BY <1>i, <1>13
       DEF RpcReadsLine, RpcBadLine, toolVars, rpcSessionVars, lockVars, lineVars, answerVars,
           Quiet
  <2> QED BY <2>1, <2>2, <2>3, <2>4, <2>5, <2>6, <2>7, <2>8 DEF ServerInv
<1>14. ASSUME NEW c \in Peer, RpcConnects(c), UNCHANGED <<toolVars, rpcSessionVars, lockVars, answerVars>>
       PROVE  ServerInv'
  <2>1. ServerTyped'
    BY <1>b, <1>14 DEF RpcConnects, toolVars, rpcSessionVars, lockVars, lineVars, answerVars, Quiet
  <2>2. PeersTyped'
    <3>1. peer' = [peer EXCEPT ![c].at = "poll", ![c].auth = ~token]
      BY <1>a, <1>14 DEF RpcConnects
    <3>2. {"recv", "poll", "gone", "handle", "reply", "refuse",
           "insert", "lock", "locked", "listing"} \subseteq PeerSteps
      BY DEF PeerSteps
    <3>3. (~token) \in BOOLEAN
      OBVIOUS
    <3>4. PeersTyped /\ c \in Peer
      BY <1>a, <1>14
    <3>5. ASSUME peer' = [peer EXCEPT ![c].at = "poll", ![c].auth = ~token]
          PROVE  peer' \in [Peer -> PeerState]
      BY ONLY <3>5, <3>2, <3>4, <3>3, PeerTyping
    <3>6. peer' \in [Peer -> PeerState]
      BY <3>1, <3>5
    <3>7. \A d \in Peer : peer'[d].at \in {"insert", "lock", "locked"} => peer'[d].request.id \in Child
      <4>1. \A d \in Peer : d = c \/ peer'[d] = peer[d]
        BY ONLY <1>a, <3>1, <3>4 DEF PeersTyped
      <4>2. peer'[c].at \notin {"insert", "lock", "locked"}
        BY ONLY <1>a, <3>1, <3>4 DEF PeersTyped, PeerState
      <4> QED BY ONLY <1>a, <4>1, <4>2 DEF PeersTyped
    <3> QED BY <3>6, <3>7 DEF PeersTyped
  <2>3. LinesTyped'
    BY <1>d, <1>14 DEF RpcConnects, toolVars, rpcSessionVars, lockVars, lineVars, answerVars, Quiet
  <2>4. ReceiversTyped'
    BY <1>e, <1>14 DEF RpcConnects, toolVars, rpcSessionVars, lockVars, lineVars, answerVars, Quiet
  <2>5. StopOnce'
    BY <1>f, <1>14 DEF RpcConnects, toolVars, rpcSessionVars, lockVars, lineVars, answerVars, Quiet
  <2>6. ChildIsKept'
    BY <1>a, <1>14, ServerBounds
       DEF ChildIsKept, Id, ServerTyped, PeersTyped, PeerState, PeerLine, RpcConnects, toolVars,
           rpcSessionVars, lockVars, lineVars, answerVars, Quiet
  <2>7. InOrder'
    <3>1. /\ rpcAsked' = rpcAsked /\ inbox' = inbox /\ replied' = replied
          /\ \A d \in Peer : d = c \/ peer'[d] = peer[d]
      BY <1>a, <1>14
         DEF PeersTyped, PeerState, RpcConnects, toolVars, rpcSessionVars, lockVars, lineVars,
             answerVars, Quiet
    <3>2. \/ peer'[c].at = "gone"
          \/ peer[c].at # "gone" /\ peer[c].at \in InHand /\ peer'[c].at \in InHand
                 /\ peer'[c].request.method = peer[c].request.method
          \/ peer[c].at # "gone" /\ peer[c].at \notin InHand /\ peer'[c].at \notin InHand
      BY <1>a, <1>14
         DEF PeersTyped, PeerState, PeerLine, InHand, RpcConnects, toolVars, rpcSessionVars,
             lockVars, lineVars, answerVars, Quiet
    <3>3. MatchOf(rpcAsked[c], inbox[c], replied[c], peer'[c])
      BY <1>a, <1>14, <3>2, OrderMoves DEF InOrder
    <3> QED BY ONLY <1>a, <3>1, <3>3 DEF InOrder
  <2>8. NoSilentSkip'
    BY <1>i, <1>14 DEF RpcConnects, toolVars, rpcSessionVars, lockVars, lineVars, answerVars, Quiet
  <2> QED BY <2>1, <2>2, <2>3, <2>4, <2>5, <2>6, <2>7, <2>8 DEF ServerInv
<1>15. ASSUME NEW c \in Peer, ClientLeaves(c), UNCHANGED <<toolVars, rpcSessionVars, lockVars, answerVars>>
       PROVE  ServerInv'
  <2>1. ServerTyped'
    BY <1>b, <1>15 DEF ClientLeaves, toolVars, rpcSessionVars, lockVars, lineVars, answerVars, Quiet
  <2>2. PeersTyped'
    <3>1. peer' = [peer EXCEPT ![c].at = "gone"]
      BY <1>a, <1>15 DEF ClientLeaves
    <3>2. {"recv", "poll", "gone", "handle", "reply", "refuse",
           "insert", "lock", "locked", "listing"} \subseteq PeerSteps
      BY DEF PeerSteps
    <3>4. PeersTyped /\ c \in Peer
      BY <1>a, <1>15
    <3>5. ASSUME peer' = [peer EXCEPT ![c].at = "gone"] PROVE peer' \in [Peer -> PeerState]
      BY ONLY <3>5, <3>2, <3>4, PeerTyping
    <3>6. peer' \in [Peer -> PeerState]
      BY <3>1, <3>5
    <3>7. \A d \in Peer : peer'[d].at \in {"insert", "lock", "locked"} => peer'[d].request.id \in Child
      <4>1. \A d \in Peer : d = c \/ peer'[d] = peer[d]
        BY ONLY <1>a, <3>1, <3>4 DEF PeersTyped
      <4>2. peer'[c].at \notin {"insert", "lock", "locked"}
        BY ONLY <1>a, <3>1, <3>4 DEF PeersTyped, PeerState
      <4> QED BY ONLY <1>a, <4>1, <4>2 DEF PeersTyped
    <3> QED BY <3>6, <3>7 DEF PeersTyped
  <2>3. LinesTyped'
    BY <1>d, <1>15 DEF ClientLeaves, toolVars, rpcSessionVars, lockVars, lineVars, answerVars, Quiet
  <2>4. ReceiversTyped'
    BY <1>e, <1>15 DEF ClientLeaves, toolVars, rpcSessionVars, lockVars, lineVars, answerVars, Quiet
  <2>5. StopOnce'
    BY <1>f, <1>15 DEF ClientLeaves, toolVars, rpcSessionVars, lockVars, lineVars, answerVars, Quiet
  <2>6. ChildIsKept'
    BY <1>a, <1>15, ServerBounds
       DEF ChildIsKept, Id, ServerTyped, PeersTyped, PeerState, PeerLine, ClientLeaves, toolVars,
           rpcSessionVars, lockVars, lineVars, answerVars, Quiet
  <2>7. InOrder'
    <3>1. /\ rpcAsked' = rpcAsked /\ inbox' = inbox /\ replied' = replied
          /\ \A d \in Peer : d = c \/ peer'[d] = peer[d]
      BY <1>a, <1>15
         DEF PeersTyped, PeerState, ClientLeaves, toolVars, rpcSessionVars, lockVars, lineVars,
             answerVars, Quiet
    <3>2. \/ peer'[c].at = "gone"
          \/ peer[c].at # "gone" /\ peer[c].at \in InHand /\ peer'[c].at \in InHand
                 /\ peer'[c].request.method = peer[c].request.method
          \/ peer[c].at # "gone" /\ peer[c].at \notin InHand /\ peer'[c].at \notin InHand
      BY <1>a, <1>15
         DEF PeersTyped, PeerState, PeerLine, InHand, ClientLeaves, toolVars, rpcSessionVars,
             lockVars, lineVars, answerVars, Quiet
    <3>3. MatchOf(rpcAsked[c], inbox[c], replied[c], peer'[c])
      BY <1>a, <1>15, <3>2, OrderMoves DEF InOrder
    <3> QED BY ONLY <1>a, <3>1, <3>3 DEF InOrder
  <2>8. NoSilentSkip'
    BY <1>i, <1>15 DEF ClientLeaves, toolVars, rpcSessionVars, lockVars, lineVars, answerVars, Quiet
  <2> QED BY <2>1, <2>2, <2>3, <2>4, <2>5, <2>6, <2>7, <2>8 DEF ServerInv
<1>16. ASSUME NEW c \in Peer, NEW r \in PeerRequest, Asks(c, r), UNCHANGED <<toolVars, rpcSessionVars, lockVars, answerVars>>
       PROVE  ServerInv'
  <2>1. ServerTyped'
    BY <1>b, <1>16 DEF Asks, toolVars, rpcSessionVars, lockVars, lineVars, answerVars, Quiet
  <2>2. PeersTyped'
    BY <1>c, <1>16 DEF Asks, toolVars, rpcSessionVars, lockVars, lineVars, answerVars, Quiet
  <2>3. LinesTyped'
    BY <1>a, <1>16, ServerBounds
       DEF LinesTyped, PeersTyped, PeerMethods, Asks, toolVars, rpcSessionVars, lockVars,
           lineVars, answerVars, Quiet
  <2>4. ReceiversTyped'
    BY <1>e, <1>16 DEF Asks, toolVars, rpcSessionVars, lockVars, lineVars, answerVars, Quiet
  <2>5. StopOnce'
    BY <1>f, <1>16 DEF Asks, toolVars, rpcSessionVars, lockVars, lineVars, answerVars, Quiet
  <2>6. ChildIsKept'
    BY <1>g, <1>16 DEF Asks, toolVars, rpcSessionVars, lockVars, lineVars, answerVars, Quiet
  <2>7. InOrder'
    <3>1. /\ rpcAsked' = [rpcAsked EXCEPT ![c] = Append(rpcAsked[c], r)]
          /\ inbox' = [inbox EXCEPT ![c] = Append(inbox[c], r)] /\ peer' = peer /\ replied' = replied
          /\ peer[c].at # "gone"
      BY <1>16 DEF Asks, answerVars
    <3>2. /\ rpcAsked[c] \in Seq(PeerRequest) /\ inbox[c] \in Seq(PeerRequest) /\ replied[c] \in Seq(PeerMethods)
          /\ rpcAsked \in [Peer -> Seq(PeerRequest)] /\ inbox \in [Peer -> Seq(PeerRequest)]
      BY <1>a, <1>16 DEF LinesTyped
    <3>3. MatchOf(Append(rpcAsked[c], r), Append(inbox[c], r), replied[c], peer[c])
      BY <1>a, <1>16, <3>1, <3>2, OrderAsks DEF InOrder
    <3>4. \A d \in Peer : MatchOf(rpcAsked'[d], inbox'[d], replied[d], peer[d])
      BY ONLY <1>a, <3>1, <3>2, <3>3 DEF InOrder
    <3> QED BY ONLY <3>4, <3>1 DEF InOrder
  <2>8. NoSilentSkip'
    BY <1>i, <1>16 DEF Asks, toolVars, rpcSessionVars, lockVars, lineVars, answerVars, Quiet
  <2> QED BY <2>1, <2>2, <2>3, <2>4, <2>5, <2>6, <2>7, <2>8 DEF ServerInv
<1>17. ASSUME NEW c \in Peer, AllForwarded(c) PROVE ServerInv'
  <2>1. ServerTyped'
    BY <1>b, <1>17 DEF AllForwarded, toolVars, rpcSessionVars, lockVars, lineVars, answerVars, Quiet
  <2>2. PeersTyped'
    <3>1. peer' = [peer EXCEPT ![c].at = "recv"]
      BY <1>a, <1>17 DEF AllForwarded
    <3>2. {"recv", "poll", "gone", "handle", "reply", "refuse",
           "insert", "lock", "locked", "listing"} \subseteq PeerSteps
      BY DEF PeerSteps
    <3>4. PeersTyped /\ c \in Peer
      BY <1>a, <1>17
    <3>5. ASSUME peer' = [peer EXCEPT ![c].at = "recv"] PROVE peer' \in [Peer -> PeerState]
      BY ONLY <3>5, <3>2, <3>4, PeerTyping
    <3>6. peer' \in [Peer -> PeerState]
      BY <3>1, <3>5
    <3>7. \A d \in Peer : peer'[d].at \in {"insert", "lock", "locked"} => peer'[d].request.id \in Child
      <4>1. \A d \in Peer : d = c \/ peer'[d] = peer[d]
        BY ONLY <1>a, <3>1, <3>4 DEF PeersTyped
      <4>2. peer'[c].at \notin {"insert", "lock", "locked"}
        BY ONLY <1>a, <3>1, <3>4 DEF PeersTyped, PeerState
      <4> QED BY ONLY <1>a, <4>1, <4>2 DEF PeersTyped
    <3> QED BY <3>6, <3>7 DEF PeersTyped
  <2>3. LinesTyped'
    BY <1>d, <1>17 DEF AllForwarded, toolVars, rpcSessionVars, lockVars, lineVars, answerVars, Quiet
  <2>4. ReceiversTyped'
    BY <1>e, <1>17 DEF AllForwarded, toolVars, rpcSessionVars, lockVars, lineVars, answerVars, Quiet
  <2>5. StopOnce'
    BY <1>f, <1>17 DEF AllForwarded, toolVars, rpcSessionVars, lockVars, lineVars, answerVars, Quiet
  <2>6. ChildIsKept'
    BY <1>a, <1>17, ServerBounds
       DEF ChildIsKept, Id, ServerTyped, PeersTyped, PeerState, PeerLine, AllForwarded, toolVars,
           rpcSessionVars, lockVars, lineVars, answerVars, Quiet
  <2>7. InOrder'
    <3>1. /\ rpcAsked' = rpcAsked /\ inbox' = inbox /\ replied' = replied
          /\ \A d \in Peer : d = c \/ peer'[d] = peer[d]
      BY <1>a, <1>17
         DEF PeersTyped, PeerState, AllForwarded, toolVars, rpcSessionVars, lockVars, lineVars,
             answerVars, Quiet
    <3>2. \/ peer'[c].at = "gone"
          \/ peer[c].at # "gone" /\ peer[c].at \in InHand /\ peer'[c].at \in InHand
                 /\ peer'[c].request.method = peer[c].request.method
          \/ peer[c].at # "gone" /\ peer[c].at \notin InHand /\ peer'[c].at \notin InHand
      BY <1>a, <1>17
         DEF PeersTyped, PeerState, PeerLine, InHand, AllForwarded, toolVars, rpcSessionVars,
             lockVars, lineVars, answerVars, Quiet
    <3>3. MatchOf(rpcAsked[c], inbox[c], replied[c], peer'[c])
      BY <1>a, <1>17, <3>2, OrderMoves DEF InOrder
    <3> QED BY ONLY <1>a, <3>1, <3>3 DEF InOrder
  <2>8. NoSilentSkip'
    BY <1>i, <1>17 DEF AllForwarded, toolVars, rpcSessionVars, lockVars, lineVars, answerVars, Quiet
  <2> QED BY <2>1, <2>2, <2>3, <2>4, <2>5, <2>6, <2>7, <2>8 DEF ServerInv
<1>18. ASSUME NEW c \in Peer, RpcAnswers(c) PROVE ServerInv'
  <2>1. ServerTyped'
    BY <1>b, <1>18
       DEF RpcAnswers, RpcGoes, toolVars, rpcSessionVars, lockVars, lineVars, answerVars, Quiet
  <2>2. PeersTyped'
    <3>1. \/ peer' = [peer EXCEPT ![c].at = "reply", ![c].auth = TRUE]
          \/ peer' = [peer EXCEPT ![c].at = "refuse"]
          \/ peer' = [peer EXCEPT ![c].at = "reply"]
      BY <1>a, <1>18 DEF RpcAnswers, RpcGoes
    <3>2. {"recv", "poll", "gone", "handle", "reply", "refuse",
           "insert", "lock", "locked", "listing"} \subseteq PeerSteps
      BY DEF PeerSteps
    <3>4. PeersTyped /\ c \in Peer
      BY <1>a, <1>18
    <3>5. ASSUME peer' = [peer EXCEPT ![c].at = "reply", ![c].auth = TRUE]
          PROVE  peer' \in [Peer -> PeerState]
      BY ONLY <3>5, <3>2, <3>4, PeerTyping
    <3>6. ASSUME peer' = [peer EXCEPT ![c].at = "refuse"] PROVE peer' \in [Peer -> PeerState]
      BY ONLY <3>6, <3>2, <3>4, PeerTyping
    <3>7. ASSUME peer' = [peer EXCEPT ![c].at = "reply"] PROVE peer' \in [Peer -> PeerState]
      BY ONLY <3>7, <3>2, <3>4, PeerTyping
    <3>8. peer' \in [Peer -> PeerState]
      BY <3>1, <3>5, <3>6, <3>7
    <3>9. \A d \in Peer : peer'[d].at \in {"insert", "lock", "locked"} => peer'[d].request.id \in Child
      <4>1. \A d \in Peer : d = c \/ peer'[d] = peer[d]
        BY ONLY <1>a, <3>1, <3>4 DEF PeersTyped
      <4>2. peer'[c].at \notin {"insert", "lock", "locked"}
        BY ONLY <1>a, <3>1, <3>4 DEF PeersTyped, PeerState
      <4> QED BY ONLY <1>a, <4>1, <4>2 DEF PeersTyped
    <3> QED BY <3>8, <3>9 DEF PeersTyped
  <2>3. LinesTyped'
    BY <1>d, <1>18
       DEF RpcAnswers, RpcGoes, toolVars, rpcSessionVars, lockVars, lineVars, answerVars, Quiet
  <2>4. ReceiversTyped'
    BY <1>e, <1>18
       DEF RpcAnswers, RpcGoes, toolVars, rpcSessionVars, lockVars, lineVars, answerVars, Quiet
  <2>5. StopOnce'
    BY <1>f, <1>18
       DEF RpcAnswers, RpcGoes, toolVars, rpcSessionVars, lockVars, lineVars, answerVars, Quiet
  <2>6. ChildIsKept'
    <3>1. /\ UNCHANGED <<rpcChild, sessions>> /\ peer[c].at = "handle" /\ \A d \in Peer : d = c \/ peer'[d] = peer[d]
      BY <1>a, <1>18 DEF PeersTyped, PeerState, RpcAnswers, RpcGoes, rpcSessionVars
    <3> QED BY ONLY <1>a, <3>1 DEF ChildIsKept, Id
  <2>7. InOrder'
    <3>1. /\ rpcAsked' = rpcAsked /\ inbox' = inbox /\ replied' = replied
          /\ \A d \in Peer : d = c \/ peer'[d] = peer[d]
      BY <1>a, <1>18
         DEF PeersTyped, PeerState, RpcAnswers, RpcGoes, toolVars, rpcSessionVars, lockVars,
             lineVars, answerVars, Quiet
    <3>2. \/ peer'[c].at = "gone"
          \/ peer[c].at # "gone" /\ peer[c].at \in InHand /\ peer'[c].at \in InHand
                 /\ peer'[c].request.method = peer[c].request.method
          \/ peer[c].at # "gone" /\ peer[c].at \notin InHand /\ peer'[c].at \notin InHand
      BY <1>a, <1>18
         DEF PeersTyped, PeerState, PeerLine, InHand, RpcAnswers, RpcGoes, toolVars,
             rpcSessionVars, lockVars, lineVars, answerVars, Quiet
    <3>3. MatchOf(rpcAsked[c], inbox[c], replied[c], peer'[c])
      BY <1>a, <1>18, <3>2, OrderMoves DEF InOrder
    <3> QED BY ONLY <1>a, <3>1, <3>3 DEF InOrder
  <2>8. NoSilentSkip'
    BY <1>i, <1>18
       DEF RpcAnswers, RpcGoes, toolVars, rpcSessionVars, lockVars, lineVars, answerVars, Quiet
  <2> QED BY <2>1, <2>2, <2>3, <2>4, <2>5, <2>6, <2>7, <2>8 DEF ServerInv
<1>19. ASSUME NEW c \in Peer, RpcSpawns(c) PROVE ServerInv'
  <2>1. ServerTyped'
    BY <1>a, <1>19, ServerBounds
       DEF ServerTyped, RpcSpawns, toolVars, rpcSessionVars, lockVars, lineVars, answerVars, Quiet
  <2>2. PeersTyped'
    <3>1. (\E s \in Child : peer' = [peer EXCEPT ![c].at = "insert", ![c].request.id = s])
      BY <1>a, <1>19 DEF RpcSpawns
    <3>2. {"recv", "poll", "gone", "handle", "reply", "refuse",
           "insert", "lock", "locked", "listing"} \subseteq PeerSteps
      BY DEF PeerSteps
    <3>4. PeersTyped /\ c \in Peer
      BY <1>a, <1>19
    <3>5. ASSUME NEW s \in Child, peer' = [peer EXCEPT ![c].at = "insert", ![c].request.id = s]
          PROVE  peer' \in [Peer -> PeerState]
      BY ONLY <3>5, <3>2, <3>4, PeerTyping
    <3>6. peer' \in [Peer -> PeerState]
      BY <3>1, <3>5
    <3>7. \A d \in Peer : peer'[d].at \in {"insert", "lock", "locked"} => peer'[d].request.id \in Child
      BY <1>a, <1>19 DEF PeersTyped, PeerState, PeerLine, ServerTyped, RpcSpawns
    <3> QED BY <3>6, <3>7 DEF PeersTyped
  <2>3. LinesTyped'
    BY <1>d, <1>19 DEF RpcSpawns, toolVars, rpcSessionVars, lockVars, lineVars, answerVars, Quiet
  <2>4. ReceiversTyped'
    BY <1>e, <1>19 DEF RpcSpawns, toolVars, rpcSessionVars, lockVars, lineVars, answerVars, Quiet
  <2>5. StopOnce'
    BY <1>a, <1>19, ServerBounds
       DEF StopOnce, ServerTyped, RpcSpawns, toolVars, rpcSessionVars, lockVars, lineVars,
           answerVars, Quiet
  <2>6. ChildIsKept'
    <3>1. PICK s \in Child : /\ rpcChild' = [rpcChild EXCEPT ![s] = "running"]
                             /\ peer' = [peer EXCEPT ![c].at = "insert", ![c].request.id = s]
      BY <1>19 DEF RpcSpawns
    <3>2. peer[c].at = "handle" /\ sessions' = sessions /\ rpcChild \in [Child -> {"none", "running", "killing", "exited"}]
      BY <1>a, <1>19 DEF RpcSpawns, ServerTyped
    <3>3. /\ peer'[c].at = "insert" /\ peer'[c].request.id = s
          /\ \A d \in Peer : d = c \/ peer'[d] = peer[d]
      BY <1>a, <1>19, <3>1 DEF PeersTyped, PeerState, PeerLine
    <3>4. ASSUME NEW t \in Child, rpcChild'[t] = "running", t # s
          PROVE  t \in sessions \/ \E d \in Peer : peer[d].request.id = t /\ d # c
                    /\ (peer[d].at = "insert" \/ (peer[d].request.method = "stop" /\ peer[d].at = "lock"))
      <4>1. rpcChild[t] = "running"
        BY ONLY <3>1, <3>2, <3>4, t \in Child, s \in Child
      <4> QED BY ONLY <4>1, <1>a, <3>2, t \in Child DEF ChildIsKept, Id
    <3> QED BY ONLY <3>2, <3>3, <3>4, c \in Peer DEF ChildIsKept, Id
  <2>7. InOrder'
    <3>1. /\ rpcAsked' = rpcAsked /\ inbox' = inbox /\ replied' = replied
          /\ \A d \in Peer : d = c \/ peer'[d] = peer[d]
      BY <1>a, <1>19
         DEF PeersTyped, PeerState, RpcSpawns, toolVars, rpcSessionVars, lockVars, lineVars,
             answerVars, Quiet
    <3>2. \/ peer'[c].at = "gone"
          \/ peer[c].at # "gone" /\ peer[c].at \in InHand /\ peer'[c].at \in InHand
                 /\ peer'[c].request.method = peer[c].request.method
          \/ peer[c].at # "gone" /\ peer[c].at \notin InHand /\ peer'[c].at \notin InHand
      BY <1>a, <1>19
         DEF PeersTyped, PeerState, PeerLine, InHand, RpcSpawns, toolVars, rpcSessionVars,
             lockVars, lineVars, answerVars, Quiet
    <3>3. MatchOf(rpcAsked[c], inbox[c], replied[c], peer'[c])
      BY <1>a, <1>19, <3>2, OrderMoves DEF InOrder
    <3> QED BY ONLY <1>a, <3>1, <3>3 DEF InOrder
  <2>8. NoSilentSkip'
    BY <1>i, <1>19 DEF RpcSpawns, toolVars, rpcSessionVars, lockVars, lineVars, answerVars, Quiet
  <2> QED BY <2>1, <2>2, <2>3, <2>4, <2>5, <2>6, <2>7, <2>8 DEF ServerInv
<1>20. ASSUME NEW c \in Peer, Inserts(c) PROVE ServerInv'
  <2>1. ServerTyped'
    <3>1. /\ Id(c) \in Child /\ sessions' = sessions \cup {Id(c)}
          /\ UNCHANGED <<rpcStopper, tracked, rpcChild, rpcRegistered>>
      BY <1>a, <1>20 DEF PeersTyped, Inserts, Id, Quiet, toolVars
    <3> HIDE DEF Id
    <3> QED BY ONLY <1>a, <3>1 DEF ServerTyped
  <2>2. PeersTyped'
    <3>1. peer' = [peer EXCEPT ![c].at = "reply"]
      BY <1>a, <1>20 DEF Inserts, RpcGoes, Id
    <3>2. {"recv", "poll", "gone", "handle", "reply", "refuse",
           "insert", "lock", "locked", "listing"} \subseteq PeerSteps
      BY DEF PeerSteps
    <3>4. PeersTyped /\ c \in Peer
      BY <1>a, <1>20
    <3>5. ASSUME peer' = [peer EXCEPT ![c].at = "reply"] PROVE peer' \in [Peer -> PeerState]
      BY ONLY <3>5, <3>2, <3>4, PeerTyping
    <3>6. peer' \in [Peer -> PeerState]
      BY <3>1, <3>5
    <3>7. \A d \in Peer : peer'[d].at \in {"insert", "lock", "locked"} => peer'[d].request.id \in Child
      <4>1. \A d \in Peer : d = c \/ peer'[d] = peer[d]
        BY ONLY <1>a, <3>1, <3>4 DEF PeersTyped
      <4>2. peer'[c].at \notin {"insert", "lock", "locked"}
        BY ONLY <1>a, <3>1, <3>4 DEF PeersTyped, PeerState
      <4> QED BY ONLY <1>a, <4>1, <4>2 DEF PeersTyped
    <3> QED BY <3>6, <3>7 DEF PeersTyped
  <2>3. LinesTyped'
    BY <1>d, <1>20
       DEF Inserts, RpcGoes, Id, toolVars, rpcSessionVars, lockVars, lineVars, answerVars, Quiet
  <2>4. ReceiversTyped'
    BY <1>e, <1>20
       DEF Inserts, RpcGoes, Id, toolVars, rpcSessionVars, lockVars, lineVars, answerVars, Quiet
  <2>5. StopOnce'
    BY <1>f, <1>20
       DEF Inserts, RpcGoes, Id, toolVars, rpcSessionVars, lockVars, lineVars, answerVars, Quiet
  <2>6. ChildIsKept'
    BY <1>a, <1>20, ServerBounds
       DEF ChildIsKept, Id, ServerTyped, PeersTyped, PeerState, PeerLine, Inserts, RpcGoes, Id,
           toolVars, rpcSessionVars, lockVars, lineVars, answerVars, Quiet
  <2>7. InOrder'
    <3>1. /\ rpcAsked' = rpcAsked /\ inbox' = inbox /\ replied' = replied
          /\ \A d \in Peer : d = c \/ peer'[d] = peer[d]
      BY <1>a, <1>20
         DEF PeersTyped, PeerState, Inserts, RpcGoes, Id, toolVars, rpcSessionVars, lockVars,
             lineVars, answerVars, Quiet
    <3>2. \/ peer'[c].at = "gone"
          \/ peer[c].at # "gone" /\ peer[c].at \in InHand /\ peer'[c].at \in InHand
                 /\ peer'[c].request.method = peer[c].request.method
          \/ peer[c].at # "gone" /\ peer[c].at \notin InHand /\ peer'[c].at \notin InHand
      BY <1>a, <1>20
         DEF PeersTyped, PeerState, PeerLine, InHand, Inserts, RpcGoes, Id, toolVars,
             rpcSessionVars, lockVars, lineVars, answerVars, Quiet
    <3>3. MatchOf(rpcAsked[c], inbox[c], replied[c], peer'[c])
      BY <1>a, <1>20, <3>2, OrderMoves DEF InOrder
    <3> QED BY ONLY <1>a, <3>1, <3>3 DEF InOrder
  <2>8. NoSilentSkip'
    BY <1>i, <1>20
       DEF Inserts, RpcGoes, Id, toolVars, rpcSessionVars, lockVars, lineVars, answerVars, Quiet
  <2> QED BY <2>1, <2>2, <2>3, <2>4, <2>5, <2>6, <2>7, <2>8 DEF ServerInv
<1>21. ASSUME NEW c \in Peer, LooksUp(c) PROVE ServerInv'
  <2>1. ServerTyped'
    BY <1>a, <1>21, ServerBounds
       DEF ServerTyped, LooksUp, RpcGoes, Id, toolVars, rpcSessionVars, lockVars, lineVars,
           answerVars, Quiet
  <2>2. PeersTyped'
    <3>1. peer' = [peer EXCEPT ![c].at = "lock"]
      BY <1>a, <1>21 DEF LooksUp, RpcGoes, Id
    <3>2. {"recv", "poll", "gone", "handle", "reply", "refuse",
           "insert", "lock", "locked", "listing"} \subseteq PeerSteps
      BY DEF PeerSteps
    <3>4. PeersTyped /\ c \in Peer
      BY <1>a, <1>21
    <3>5. ASSUME peer' = [peer EXCEPT ![c].at = "lock"] PROVE peer' \in [Peer -> PeerState]
      BY ONLY <3>5, <3>2, <3>4, PeerTyping
    <3>6. peer' \in [Peer -> PeerState]
      BY <3>1, <3>5
    <3>7. \A d \in Peer : peer'[d].at \in {"insert", "lock", "locked"} => peer'[d].request.id \in Child
      BY <1>a, <1>21 DEF PeersTyped, PeerState, PeerLine, ServerTyped, LooksUp, RpcGoes, Id
    <3> QED BY <3>6, <3>7 DEF PeersTyped
  <2>3. LinesTyped'
    BY <1>d, <1>21
       DEF LooksUp, RpcGoes, Id, toolVars, rpcSessionVars, lockVars, lineVars, answerVars, Quiet
  <2>4. ReceiversTyped'
    BY <1>e, <1>21
       DEF LooksUp, RpcGoes, Id, toolVars, rpcSessionVars, lockVars, lineVars, answerVars, Quiet
  <2>5. StopOnce'
    BY <1>f, <1>21
       DEF LooksUp, RpcGoes, Id, toolVars, rpcSessionVars, lockVars, lineVars, answerVars, Quiet
  <2>6. ChildIsKept'
    BY <1>a, <1>21, ServerBounds
       DEF ChildIsKept, Id, ServerTyped, PeersTyped, PeerState, PeerLine, LooksUp, RpcGoes, Id,
           toolVars, rpcSessionVars, lockVars, lineVars, answerVars, Quiet
  <2>7. InOrder'
    <3>1. /\ rpcAsked' = rpcAsked /\ inbox' = inbox /\ replied' = replied
          /\ \A d \in Peer : d = c \/ peer'[d] = peer[d]
      BY <1>a, <1>21
         DEF PeersTyped, PeerState, LooksUp, RpcGoes, Id, toolVars, rpcSessionVars, lockVars,
             lineVars, answerVars, Quiet
    <3>2. \/ peer'[c].at = "gone"
          \/ peer[c].at # "gone" /\ peer[c].at \in InHand /\ peer'[c].at \in InHand
                 /\ peer'[c].request.method = peer[c].request.method
          \/ peer[c].at # "gone" /\ peer[c].at \notin InHand /\ peer'[c].at \notin InHand
      BY <1>a, <1>21
         DEF PeersTyped, PeerState, PeerLine, InHand, LooksUp, RpcGoes, Id, toolVars,
             rpcSessionVars, lockVars, lineVars, answerVars, Quiet
    <3>3. MatchOf(rpcAsked[c], inbox[c], replied[c], peer'[c])
      BY <1>a, <1>21, <3>2, OrderMoves DEF InOrder
    <3> QED BY ONLY <1>a, <3>1, <3>3 DEF InOrder
  <2>8. NoSilentSkip'
    BY <1>i, <1>21
       DEF LooksUp, RpcGoes, Id, toolVars, rpcSessionVars, lockVars, lineVars, answerVars, Quiet
  <2> QED BY <2>1, <2>2, <2>3, <2>4, <2>5, <2>6, <2>7, <2>8 DEF ServerInv
<1>22. ASSUME NEW c \in Peer, RpcSubscribes(c) PROVE ServerInv'
  <2>1. ServerTyped'
    BY <1>b, <1>22
       DEF RpcSubscribes, RpcGoes, Id, toolVars, rpcSessionVars, lockVars, lineVars, answerVars,
           Quiet
  <2>2. PeersTyped'
    <3>1. peer' = [peer EXCEPT ![c].at = "reply"]
      BY <1>a, <1>22 DEF RpcSubscribes, RpcGoes, Id
    <3>2. {"recv", "poll", "gone", "handle", "reply", "refuse",
           "insert", "lock", "locked", "listing"} \subseteq PeerSteps
      BY DEF PeerSteps
    <3>4. PeersTyped /\ c \in Peer
      BY <1>a, <1>22
    <3>5. ASSUME peer' = [peer EXCEPT ![c].at = "reply"] PROVE peer' \in [Peer -> PeerState]
      BY ONLY <3>5, <3>2, <3>4, PeerTyping
    <3>6. peer' \in [Peer -> PeerState]
      BY <3>1, <3>5
    <3>7. \A d \in Peer : peer'[d].at \in {"insert", "lock", "locked"} => peer'[d].request.id \in Child
      <4>1. \A d \in Peer : d = c \/ peer'[d] = peer[d]
        BY ONLY <1>a, <3>1, <3>4 DEF PeersTyped
      <4>2. peer'[c].at \notin {"insert", "lock", "locked"}
        BY ONLY <1>a, <3>1, <3>4 DEF PeersTyped, PeerState
      <4> QED BY ONLY <1>a, <4>1, <4>2 DEF PeersTyped
    <3> QED BY <3>6, <3>7 DEF PeersTyped
  <2>3. LinesTyped'
    BY <1>d, <1>22
       DEF RpcSubscribes, RpcGoes, Id, toolVars, rpcSessionVars, lockVars, lineVars, answerVars,
           Quiet
  <2>4. ReceiversTyped'
    <3>1. /\ Id(c) \in Child /\ c \in Peer /\ eventCount' = eventCount
          /\ subPos' = [subPos EXCEPT ![c][Id(c)] = eventCount[Id(c)]]
          /\ believed' = [believed EXCEPT ![c][Id(c)] = eventCount[Id(c)]]
      BY <1>a, <1>22 DEF PeersTyped, RpcSubscribes, Id, rpcSessionVars
    <3> HIDE DEF Id
    <3> QED BY ONLY <1>a, <3>1 DEF ReceiversTyped
  <2>5. StopOnce'
    BY <1>f, <1>22
       DEF RpcSubscribes, RpcGoes, Id, toolVars, rpcSessionVars, lockVars, lineVars, answerVars,
           Quiet
  <2>6. ChildIsKept'
    BY <1>a, <1>22, ServerBounds
       DEF ChildIsKept, Id, ServerTyped, PeersTyped, PeerState, PeerLine, RpcSubscribes, RpcGoes,
           Id, toolVars, rpcSessionVars, lockVars, lineVars, answerVars, Quiet
  <2>7. InOrder'
    <3>1. /\ rpcAsked' = rpcAsked /\ inbox' = inbox /\ replied' = replied
          /\ \A d \in Peer : d = c \/ peer'[d] = peer[d]
      BY <1>a, <1>22
         DEF PeersTyped, PeerState, RpcSubscribes, RpcGoes, Id, toolVars, rpcSessionVars,
             lockVars, lineVars, answerVars, Quiet
    <3>2. \/ peer'[c].at = "gone"
          \/ peer[c].at # "gone" /\ peer[c].at \in InHand /\ peer'[c].at \in InHand
                 /\ peer'[c].request.method = peer[c].request.method
          \/ peer[c].at # "gone" /\ peer[c].at \notin InHand /\ peer'[c].at \notin InHand
      BY <1>a, <1>22
         DEF PeersTyped, PeerState, PeerLine, InHand, RpcSubscribes, RpcGoes, Id, toolVars,
             rpcSessionVars, lockVars, lineVars, answerVars, Quiet
    <3>3. MatchOf(rpcAsked[c], inbox[c], replied[c], peer'[c])
      BY <1>a, <1>22, <3>2, OrderMoves DEF InOrder
    <3> QED BY ONLY <1>a, <3>1, <3>3 DEF InOrder
  <2>8. NoSilentSkip'
    <3>1. /\ Id(c) \in Child /\ c \in Peer /\ eventCount' = eventCount
          /\ subPos' = [subPos EXCEPT ![c][Id(c)] = eventCount[Id(c)]]
          /\ believed' = [believed EXCEPT ![c][Id(c)] = eventCount[Id(c)]]
      BY <1>a, <1>22 DEF PeersTyped, RpcSubscribes, Id, rpcSessionVars
    <3> HIDE DEF Id
    <3> QED BY ONLY <1>a, <3>1 DEF ReceiversTyped, NoSilentSkip
  <2> QED BY <2>1, <2>2, <2>3, <2>4, <2>5, <2>6, <2>7, <2>8 DEF ServerInv
<1>23. ASSUME NEW c \in Peer, RpcLocks(c) PROVE ServerInv'
  <2>1. ServerTyped'
    BY <1>a, <1>23, ServerBounds
       DEF ServerTyped, RpcLocks, RpcGoes, Id, Kill, toolVars, rpcSessionVars, lockVars, lineVars,
           answerVars, Quiet
  <2>2. PeersTyped'
    <3>1. peer' = [peer EXCEPT ![c].at = "locked"]
      BY <1>a, <1>23 DEF RpcLocks, RpcGoes, Id, Kill
    <3>2. {"recv", "poll", "gone", "handle", "reply", "refuse",
           "insert", "lock", "locked", "listing"} \subseteq PeerSteps
      BY DEF PeerSteps
    <3>4. PeersTyped /\ c \in Peer
      BY <1>a, <1>23
    <3>5. ASSUME peer' = [peer EXCEPT ![c].at = "locked"] PROVE peer' \in [Peer -> PeerState]
      BY ONLY <3>5, <3>2, <3>4, PeerTyping
    <3>6. peer' \in [Peer -> PeerState]
      BY <3>1, <3>5
    <3>7. \A d \in Peer : peer'[d].at \in {"insert", "lock", "locked"} => peer'[d].request.id \in Child
      BY <1>a, <1>23 DEF PeersTyped, PeerState, PeerLine, ServerTyped, RpcLocks, RpcGoes, Id, Kill
    <3> QED BY <3>6, <3>7 DEF PeersTyped
  <2>3. LinesTyped'
    BY <1>d, <1>23
       DEF RpcLocks, RpcGoes, Id, Kill, toolVars, rpcSessionVars, lockVars, lineVars, answerVars,
           Quiet
  <2>4. ReceiversTyped'
    BY <1>e, <1>23
       DEF RpcLocks, RpcGoes, Id, Kill, toolVars, rpcSessionVars, lockVars, lineVars, answerVars,
           Quiet
  <2>5. StopOnce'
    BY <1>a, <1>23, ServerBounds
       DEF StopOnce, ServerTyped, RpcLocks, RpcGoes, Id, Kill, toolVars, rpcSessionVars, lockVars,
           lineVars, answerVars, Quiet
  <2>6. ChildIsKept'
    BY <1>a, <1>23, ServerBounds
       DEF ChildIsKept, Id, ServerTyped, PeersTyped, PeerState, PeerLine, RpcLocks, RpcGoes, Id,
           Kill, toolVars, rpcSessionVars, lockVars, lineVars, answerVars, Quiet
  <2>7. InOrder'
    <3>1. /\ rpcAsked' = rpcAsked /\ inbox' = inbox /\ replied' = replied
          /\ \A d \in Peer : d = c \/ peer'[d] = peer[d]
      BY <1>a, <1>23
         DEF PeersTyped, PeerState, RpcLocks, RpcGoes, Id, Kill, toolVars, rpcSessionVars,
             lockVars, lineVars, answerVars, Quiet
    <3>2. \/ peer'[c].at = "gone"
          \/ peer[c].at # "gone" /\ peer[c].at \in InHand /\ peer'[c].at \in InHand
                 /\ peer'[c].request.method = peer[c].request.method
          \/ peer[c].at # "gone" /\ peer[c].at \notin InHand /\ peer'[c].at \notin InHand
      BY <1>a, <1>23
         DEF PeersTyped, PeerState, PeerLine, InHand, RpcLocks, RpcGoes, Id, Kill, toolVars,
             rpcSessionVars, lockVars, lineVars, answerVars, Quiet
    <3>3. MatchOf(rpcAsked[c], inbox[c], replied[c], peer'[c])
      BY <1>a, <1>23, <3>2, OrderMoves DEF InOrder
    <3> QED BY ONLY <1>a, <3>1, <3>3 DEF InOrder
  <2>8. NoSilentSkip'
    BY <1>i, <1>23
       DEF RpcLocks, RpcGoes, Id, Kill, toolVars, rpcSessionVars, lockVars, lineVars, answerVars,
           Quiet
  <2> QED BY <2>1, <2>2, <2>3, <2>4, <2>5, <2>6, <2>7, <2>8 DEF ServerInv
<1>24. ASSUME NEW c \in Peer, Unlocks(c) PROVE ServerInv'
  <2>1. ServerTyped'
    BY <1>b, <1>24
       DEF Unlocks, RpcGoes, Id, toolVars, rpcSessionVars, lockVars, lineVars, answerVars, Quiet
  <2>2. PeersTyped'
    <3>1. peer' = [peer EXCEPT ![c].at = "reply"]
      BY <1>a, <1>24 DEF Unlocks, RpcGoes, Id
    <3>2. {"recv", "poll", "gone", "handle", "reply", "refuse",
           "insert", "lock", "locked", "listing"} \subseteq PeerSteps
      BY DEF PeerSteps
    <3>4. PeersTyped /\ c \in Peer
      BY <1>a, <1>24
    <3>5. ASSUME peer' = [peer EXCEPT ![c].at = "reply"] PROVE peer' \in [Peer -> PeerState]
      BY ONLY <3>5, <3>2, <3>4, PeerTyping
    <3>6. peer' \in [Peer -> PeerState]
      BY <3>1, <3>5
    <3>7. \A d \in Peer : peer'[d].at \in {"insert", "lock", "locked"} => peer'[d].request.id \in Child
      <4>1. \A d \in Peer : d = c \/ peer'[d] = peer[d]
        BY ONLY <1>a, <3>1, <3>4 DEF PeersTyped
      <4>2. peer'[c].at \notin {"insert", "lock", "locked"}
        BY ONLY <1>a, <3>1, <3>4 DEF PeersTyped, PeerState
      <4> QED BY ONLY <1>a, <4>1, <4>2 DEF PeersTyped
    <3> QED BY <3>6, <3>7 DEF PeersTyped
  <2>3. LinesTyped'
    BY <1>d, <1>24
       DEF Unlocks, RpcGoes, Id, toolVars, rpcSessionVars, lockVars, lineVars, answerVars, Quiet
  <2>4. ReceiversTyped'
    BY <1>e, <1>24
       DEF Unlocks, RpcGoes, Id, toolVars, rpcSessionVars, lockVars, lineVars, answerVars, Quiet
  <2>5. StopOnce'
    BY <1>f, <1>24
       DEF Unlocks, RpcGoes, Id, toolVars, rpcSessionVars, lockVars, lineVars, answerVars, Quiet
  <2>6. ChildIsKept'
    BY <1>a, <1>24, ServerBounds
       DEF ChildIsKept, Id, ServerTyped, PeersTyped, PeerState, PeerLine, Unlocks, RpcGoes, Id,
           toolVars, rpcSessionVars, lockVars, lineVars, answerVars, Quiet
  <2>7. InOrder'
    <3>1. /\ rpcAsked' = rpcAsked /\ inbox' = inbox /\ replied' = replied
          /\ \A d \in Peer : d = c \/ peer'[d] = peer[d]
      BY <1>a, <1>24
         DEF PeersTyped, PeerState, Unlocks, RpcGoes, Id, toolVars, rpcSessionVars, lockVars,
             lineVars, answerVars, Quiet
    <3>2. \/ peer'[c].at = "gone"
          \/ peer[c].at # "gone" /\ peer[c].at \in InHand /\ peer'[c].at \in InHand
                 /\ peer'[c].request.method = peer[c].request.method
          \/ peer[c].at # "gone" /\ peer[c].at \notin InHand /\ peer'[c].at \notin InHand
      BY <1>a, <1>24
         DEF PeersTyped, PeerState, PeerLine, InHand, Unlocks, RpcGoes, Id, toolVars,
             rpcSessionVars, lockVars, lineVars, answerVars, Quiet
    <3>3. MatchOf(rpcAsked[c], inbox[c], replied[c], peer'[c])
      BY <1>a, <1>24, <3>2, OrderMoves DEF InOrder
    <3> QED BY ONLY <1>a, <3>1, <3>3 DEF InOrder
  <2>8. NoSilentSkip'
    BY <1>i, <1>24
       DEF Unlocks, RpcGoes, Id, toolVars, rpcSessionVars, lockVars, lineVars, answerVars, Quiet
  <2> QED BY <2>1, <2>2, <2>3, <2>4, <2>5, <2>6, <2>7, <2>8 DEF ServerInv
<1>25. ASSUME NEW c \in Peer, ListBegins(c) PROVE ServerInv'
  <2>1. ServerTyped'
    BY <1>b, <1>25 DEF ListBegins, toolVars, rpcSessionVars, lockVars, lineVars, answerVars, Quiet
  <2>2. PeersTyped'
    <3>1. peer' = [peer EXCEPT ![c].at = "listing", ![c].left = sessions]
      BY <1>a, <1>25 DEF ListBegins
    <3>2. {"recv", "poll", "gone", "handle", "reply", "refuse",
           "insert", "lock", "locked", "listing"} \subseteq PeerSteps
      BY DEF PeerSteps
    <3>3. sessions \in SUBSET Child
      BY <1>a DEF ServerTyped
    <3>4. PeersTyped /\ c \in Peer
      BY <1>a, <1>25
    <3>5. ASSUME peer' = [peer EXCEPT ![c].at = "listing", ![c].left = sessions]
          PROVE  peer' \in [Peer -> PeerState]
      BY ONLY <3>5, <3>2, <3>4, <3>3, PeerTyping
    <3>6. peer' \in [Peer -> PeerState]
      BY <3>1, <3>5
    <3>7. \A d \in Peer : peer'[d].at \in {"insert", "lock", "locked"} => peer'[d].request.id \in Child
      <4>1. \A d \in Peer : d = c \/ peer'[d] = peer[d]
        BY ONLY <1>a, <3>1, <3>4 DEF PeersTyped
      <4>2. peer'[c].at \notin {"insert", "lock", "locked"}
        BY ONLY <1>a, <3>1, <3>4 DEF PeersTyped, PeerState
      <4> QED BY ONLY <1>a, <4>1, <4>2 DEF PeersTyped
    <3> QED BY <3>6, <3>7 DEF PeersTyped
  <2>3. LinesTyped'
    BY <1>d, <1>25 DEF ListBegins, toolVars, rpcSessionVars, lockVars, lineVars, answerVars, Quiet
  <2>4. ReceiversTyped'
    BY <1>e, <1>25 DEF ListBegins, toolVars, rpcSessionVars, lockVars, lineVars, answerVars, Quiet
  <2>5. StopOnce'
    BY <1>f, <1>25 DEF ListBegins, toolVars, rpcSessionVars, lockVars, lineVars, answerVars, Quiet
  <2>6. ChildIsKept'
    BY <1>a, <1>25, ServerBounds
       DEF ChildIsKept, Id, ServerTyped, PeersTyped, PeerState, PeerLine, ListBegins, toolVars,
           rpcSessionVars, lockVars, lineVars, answerVars, Quiet
  <2>7. InOrder'
    <3>1. /\ rpcAsked' = rpcAsked /\ inbox' = inbox /\ replied' = replied
          /\ \A d \in Peer : d = c \/ peer'[d] = peer[d]
      BY <1>a, <1>25
         DEF PeersTyped, PeerState, ListBegins, toolVars, rpcSessionVars, lockVars, lineVars,
             answerVars, Quiet
    <3>2. \/ peer'[c].at = "gone"
          \/ peer[c].at # "gone" /\ peer[c].at \in InHand /\ peer'[c].at \in InHand
                 /\ peer'[c].request.method = peer[c].request.method
          \/ peer[c].at # "gone" /\ peer[c].at \notin InHand /\ peer'[c].at \notin InHand
      BY <1>a, <1>25
         DEF PeersTyped, PeerState, PeerLine, InHand, ListBegins, toolVars, rpcSessionVars,
             lockVars, lineVars, answerVars, Quiet
    <3>3. MatchOf(rpcAsked[c], inbox[c], replied[c], peer'[c])
      BY <1>a, <1>25, <3>2, OrderMoves DEF InOrder
    <3> QED BY ONLY <1>a, <3>1, <3>3 DEF InOrder
  <2>8. NoSilentSkip'
    BY <1>i, <1>25 DEF ListBegins, toolVars, rpcSessionVars, lockVars, lineVars, answerVars, Quiet
  <2> QED BY <2>1, <2>2, <2>3, <2>4, <2>5, <2>6, <2>7, <2>8 DEF ServerInv
<1>26. ASSUME NEW c \in Peer, ListNext(c) PROVE ServerInv'
  <2>1. ServerTyped'
    BY <1>b, <1>26
       DEF ListNext, RpcGoes, toolVars, rpcSessionVars, lockVars, lineVars, answerVars, Quiet
  <2>2. PeersTyped'
    <3>1. \/ (\E s \in Child : peer' = [peer EXCEPT ![c].left = peer[c].left \ {s}])
          \/ peer' = [peer EXCEPT ![c].at = "reply"]
      BY <1>a, <1>26 DEF ListNext, RpcGoes, PeersTyped, PeerState
    <3>2. {"recv", "poll", "gone", "handle", "reply", "refuse",
           "insert", "lock", "locked", "listing"} \subseteq PeerSteps
      BY DEF PeerSteps
    <3>3. \A s \in Child : peer[c].left \ {s} \in SUBSET Child
      BY <1>a, <1>26 DEF PeersTyped, PeerState
    <3>4. PeersTyped /\ c \in Peer
      BY <1>a, <1>26
    <3>5. ASSUME NEW s \in Child, peer' = [peer EXCEPT ![c].left = peer[c].left \ {s}]
          PROVE  peer' \in [Peer -> PeerState]
      BY ONLY <3>5, <3>2, <3>4, <3>3, PeerTyping
    <3>6. ASSUME peer' = [peer EXCEPT ![c].at = "reply"] PROVE peer' \in [Peer -> PeerState]
      BY ONLY <3>6, <3>2, <3>4, <3>3, PeerTyping
    <3>7. peer' \in [Peer -> PeerState]
      BY <3>1, <3>5, <3>6
    <3>8. \A d \in Peer : peer'[d].at \in {"insert", "lock", "locked"} => peer'[d].request.id \in Child
      BY <1>a, <1>26 DEF PeersTyped, PeerState, PeerLine, ServerTyped, ListNext, RpcGoes
    <3> QED BY <3>7, <3>8 DEF PeersTyped
  <2>3. LinesTyped'
    BY <1>d, <1>26
       DEF ListNext, RpcGoes, toolVars, rpcSessionVars, lockVars, lineVars, answerVars, Quiet
  <2>4. ReceiversTyped'
    BY <1>e, <1>26
       DEF ListNext, RpcGoes, toolVars, rpcSessionVars, lockVars, lineVars, answerVars, Quiet
  <2>5. StopOnce'
    BY <1>f, <1>26
       DEF ListNext, RpcGoes, toolVars, rpcSessionVars, lockVars, lineVars, answerVars, Quiet
  <2>6. ChildIsKept'
    BY <1>a, <1>26, ServerBounds, SMTT(40)
       DEF ChildIsKept, Id, ServerTyped, PeersTyped, PeerState, PeerLine, ListNext, RpcGoes,
           toolVars, rpcSessionVars, lockVars, lineVars, answerVars, Quiet
  <2>7. InOrder'
    <3>1. /\ rpcAsked' = rpcAsked /\ inbox' = inbox /\ replied' = replied
          /\ \A d \in Peer : d = c \/ peer'[d] = peer[d]
      BY <1>a, <1>26
         DEF PeersTyped, PeerState, ListNext, RpcGoes, toolVars, rpcSessionVars, lockVars,
             lineVars, answerVars, Quiet
    <3>2. \/ peer'[c].at = "gone"
          \/ peer[c].at # "gone" /\ peer[c].at \in InHand /\ peer'[c].at \in InHand
                 /\ peer'[c].request.method = peer[c].request.method
          \/ peer[c].at # "gone" /\ peer[c].at \notin InHand /\ peer'[c].at \notin InHand
      BY <1>a, <1>26
         DEF PeersTyped, PeerState, PeerLine, InHand, ListNext, RpcGoes, toolVars, rpcSessionVars,
             lockVars, lineVars, answerVars, Quiet
    <3>3. MatchOf(rpcAsked[c], inbox[c], replied[c], peer'[c])
      BY <1>a, <1>26, <3>2, OrderMoves DEF InOrder
    <3> QED BY ONLY <1>a, <3>1, <3>3 DEF InOrder
  <2>8. NoSilentSkip'
    BY <1>i, <1>26
       DEF ListNext, RpcGoes, toolVars, rpcSessionVars, lockVars, lineVars, answerVars, Quiet
  <2> QED BY <2>1, <2>2, <2>3, <2>4, <2>5, <2>6, <2>7, <2>8 DEF ServerInv
<1>27. ASSUME NEW c \in Peer, Replies(c) PROVE ServerInv'
  <2>1. ServerTyped'
    BY <1>b, <1>27 DEF Replies, toolVars, rpcSessionVars, lockVars, lineVars, answerVars, Quiet
  <2>2. PeersTyped'
    <3>1. \/ peer' = [peer EXCEPT ![c].at = "gone", ![c].request = RpcNothing]
          \/ peer' = [peer EXCEPT ![c].at = "poll", ![c].request = RpcNothing]
      BY <1>a, <1>27 DEF Replies
    <3>2. {"recv", "poll", "gone", "handle", "reply", "refuse",
           "insert", "lock", "locked", "listing"} \subseteq PeerSteps
      BY DEF PeerSteps
    <3>3. RpcNothing \in PeerLine
      BY DEF RpcNothing, PeerLine, PeerMethods
    <3>4. PeersTyped /\ c \in Peer
      BY <1>a, <1>27
    <3>5. ASSUME peer' = [peer EXCEPT ![c].at = "gone", ![c].request = RpcNothing]
          PROVE  peer' \in [Peer -> PeerState]
      BY ONLY <3>5, <3>2, <3>4, <3>3, PeerTyping
    <3>6. ASSUME peer' = [peer EXCEPT ![c].at = "poll", ![c].request = RpcNothing]
          PROVE  peer' \in [Peer -> PeerState]
      BY ONLY <3>6, <3>2, <3>4, <3>3, PeerTyping
    <3>7. peer' \in [Peer -> PeerState]
      BY <3>1, <3>5, <3>6
    <3>8. \A d \in Peer : peer'[d].at \in {"insert", "lock", "locked"} => peer'[d].request.id \in Child
      <4>1. \A d \in Peer : d = c \/ peer'[d] = peer[d]
        BY ONLY <1>a, <3>1, <3>4 DEF PeersTyped
      <4>2. peer'[c].at \notin {"insert", "lock", "locked"}
        BY ONLY <1>a, <3>1, <3>4 DEF PeersTyped, PeerState
      <4> QED BY ONLY <1>a, <4>1, <4>2 DEF PeersTyped
    <3> QED BY <3>7, <3>8 DEF PeersTyped
  <2>3. LinesTyped'
    <3>1. peer[c].request.method \in PeerMethods /\ replied[c] \in Seq(PeerMethods) /\ c \in Peer
      BY <1>a, <1>27 DEF PeersTyped, PeerState, PeerLine, LinesTyped
    <3>2. Append(replied[c], peer[c].request.method) \in Seq(PeerMethods)
      BY <3>1
    <3>3. /\ rpcAsked' = rpcAsked /\ inbox' = inbox
          /\ replied' = [replied EXCEPT ![c] = Append(replied[c], peer[c].request.method)]
      BY <1>27 DEF Replies, Quiet, lineVars
    <3> QED BY ONLY <1>a, <3>1, <3>2, <3>3 DEF LinesTyped
  <2>4. ReceiversTyped'
    BY <1>e, <1>27 DEF Replies, toolVars, rpcSessionVars, lockVars, lineVars, answerVars, Quiet
  <2>5. StopOnce'
    BY <1>f, <1>27 DEF Replies, toolVars, rpcSessionVars, lockVars, lineVars, answerVars, Quiet
  <2>6. ChildIsKept'
    BY <1>a, <1>27, ServerBounds
       DEF ChildIsKept, Id, ServerTyped, PeersTyped, PeerState, PeerLine, Replies, toolVars,
           rpcSessionVars, lockVars, lineVars, answerVars, Quiet
  <2>7. InOrder'
    <3>1. /\ peer[c].at \in {"reply", "refuse"} /\ rpcAsked' = rpcAsked /\ inbox' = inbox
          /\ replied' = [replied EXCEPT ![c] = Append(replied[c], peer[c].request.method)]
          /\ peer' = [peer EXCEPT ![c].at = IF peer[c].at = "refuse" THEN "gone" ELSE "poll", ![c].request = RpcNothing]
      BY <1>27 DEF Replies, Quiet, lineVars
    <3>2. /\ rpcAsked[c] \in Seq(PeerRequest) /\ inbox[c] \in Seq(PeerRequest) /\ replied[c] \in Seq(PeerMethods)
          /\ replied \in [Peer -> Seq(PeerMethods)] /\ c \in Peer
      BY <1>a, <1>27 DEF LinesTyped
    <3>3. /\ peer'[c].at \in {"poll", "gone"} /\ peer[c].request.method \in PeerMethods
          /\ \A d \in Peer : d = c \/ peer'[d] = peer[d]
      BY ONLY <1>a, <3>1, <3>2 DEF PeersTyped, PeerState, PeerLine
    <3>4. MatchOf(rpcAsked[c], inbox[c], Append(replied[c], peer[c].request.method), peer'[c])
      BY <1>a, <1>27, <3>1, <3>2, <3>3, OrderReplies DEF InOrder
    <3>5. \A d \in Peer : MatchOf(rpcAsked[d], inbox[d], replied'[d], peer'[d])
      BY ONLY <1>a, <3>1, <3>2, <3>3, <3>4 DEF InOrder
    <3> QED BY ONLY <3>5, <3>1 DEF InOrder
  <2>8. NoSilentSkip'
    BY <1>i, <1>27 DEF Replies, toolVars, rpcSessionVars, lockVars, lineVars, answerVars, Quiet
  <2> QED BY <2>1, <2>2, <2>3, <2>4, <2>5, <2>6, <2>7, <2>8 DEF ServerInv
<1>28. ASSUME NEW c \in Peer, NEW s \in Child, RpcForwards(c, s) PROVE ServerInv'
  <2>1. ServerTyped'
    BY <1>b, <1>28 DEF RpcForwards, toolVars, rpcSessionVars, lockVars, lineVars, answerVars, Quiet
  <2>2. PeersTyped'
    BY <1>c, <1>28 DEF RpcForwards, toolVars, rpcSessionVars, lockVars, lineVars, answerVars, Quiet
  <2>3. LinesTyped'
    BY <1>d, <1>28 DEF RpcForwards, toolVars, rpcSessionVars, lockVars, lineVars, answerVars, Quiet
  <2>4. ReceiversTyped'
    <3>1. \E v \in Int : /\ subPos' = [subPos EXCEPT ![c][s] = v]
                         /\ believed' = [believed EXCEPT ![c][s] = v]
      <4>1. /\ subPos[c][s] \in Int /\ believed[c][s] = subPos[c][s] /\ eventCount[s] \in Nat /\ Channel \in Nat
        BY <1>a, <1>28, ServerBounds DEF ReceiversTyped, NoSilentSkip
      <4>2. Oldest(s) \in Int
        BY <4>1 DEF Oldest
      <4>3. believed[c][s] + Skipped(c, s) = Oldest(s)
        BY <4>1, <4>2 DEF Skipped
      <4>4. \/ /\ subPos' = [subPos EXCEPT ![c][s] = Oldest(s)]
               /\ believed' = [believed EXCEPT ![c][s] = believed[c][s] + Skipped(c, s)]
            \/ /\ subPos' = [subPos EXCEPT ![c][s] = subPos[c][s] + 1]
               /\ believed' = [believed EXCEPT ![c][s] = believed[c][s] + 1]
        BY <1>28 DEF RpcForwards
      <4>5. subPos[c][s] + 1 \in Int /\ believed[c][s] + 1 = subPos[c][s] + 1
        BY <4>1
      <4> QED BY ONLY <4>2, <4>3, <4>4, <4>5
    <3>2. eventCount' = eventCount /\ c \in Peer /\ s \in Child
      BY <1>28 DEF RpcForwards, rpcSessionVars
    <3> QED BY ONLY <1>a, <3>1, <3>2 DEF ReceiversTyped, NoSilentSkip
  <2>5. StopOnce'
    BY <1>f, <1>28 DEF RpcForwards, toolVars, rpcSessionVars, lockVars, lineVars, answerVars, Quiet
  <2>6. ChildIsKept'
    BY <1>g, <1>28 DEF RpcForwards, toolVars, rpcSessionVars, lockVars, lineVars, answerVars, Quiet
  <2>7. InOrder'
    BY <1>h, <1>28 DEF RpcForwards, toolVars, rpcSessionVars, lockVars, lineVars, answerVars, Quiet
  <2>8. NoSilentSkip'
    <3>1. \E v \in Int : /\ subPos' = [subPos EXCEPT ![c][s] = v]
                         /\ believed' = [believed EXCEPT ![c][s] = v]
      <4>1. /\ subPos[c][s] \in Int /\ believed[c][s] = subPos[c][s] /\ eventCount[s] \in Nat /\ Channel \in Nat
        BY <1>a, <1>28, ServerBounds DEF ReceiversTyped, NoSilentSkip
      <4>2. Oldest(s) \in Int
        BY <4>1 DEF Oldest
      <4>3. believed[c][s] + Skipped(c, s) = Oldest(s)
        BY <4>1, <4>2 DEF Skipped
      <4>4. \/ /\ subPos' = [subPos EXCEPT ![c][s] = Oldest(s)]
               /\ believed' = [believed EXCEPT ![c][s] = believed[c][s] + Skipped(c, s)]
            \/ /\ subPos' = [subPos EXCEPT ![c][s] = subPos[c][s] + 1]
               /\ believed' = [believed EXCEPT ![c][s] = believed[c][s] + 1]
        BY <1>28 DEF RpcForwards
      <4>5. subPos[c][s] + 1 \in Int /\ believed[c][s] + 1 = subPos[c][s] + 1
        BY <4>1
      <4> QED BY ONLY <4>2, <4>3, <4>4, <4>5
    <3>2. eventCount' = eventCount /\ c \in Peer /\ s \in Child
      BY <1>28 DEF RpcForwards, rpcSessionVars
    <3> QED BY ONLY <1>a, <3>1, <3>2 DEF ReceiversTyped, NoSilentSkip
  <2> QED BY <2>1, <2>2, <2>3, <2>4, <2>5, <2>6, <2>7, <2>8 DEF ServerInv
<1>29. ASSUME UNCHANGED rpcVars PROVE ServerInv'
  BY <1>b, <1>c, <1>d, <1>e, <1>f, <1>g, <1>h, <1>i, <1>29 DEF rpcVars, ServerInv
<1> QED
  BY <1>1, <1>2, <1>3, <1>4, <1>5, <1>6, <1>7, <1>8, <1>9, <1>10, <1>11, <1>12, <1>13, <1>14,
     <1>15, <1>16, <1>17, <1>18, <1>19, <1>20, <1>21, <1>22, <1>23, <1>24, <1>25, <1>26, <1>27,
     <1>28, <1>29
     DEF RpcNext, ToolSteps, ChildSteps, LineSteps, RpcClientSteps,
     HandlerSteps

LEMMA ServerHolds ==
  ServerInv => ChildIsKept /\ StopKillsTracked /\ AnswersMatch /\ NoSilentSkip
BY DEF ServerInv, StopOnce, StopKillsTracked, InOrder, MatchOf, AnswersMatch

\* A child of the server is kept while a client may use it and killed at the
\* stop, the answers of a connection are those of its requests in their order,
\* and a subscriber is told of every event it misses: rpc_server's handlers, its
\* stopper and its forwarders, for any number of connections and children.
THEOREM ServerIsClean ==
  RpcInit /\ [][RpcNext]_rpcVars
    => [](ChildIsKept /\ StopKillsTracked /\ AnswersMatch /\ NoSilentSkip)
BY ServerStarts, ServerStays, ServerHolds, PTL

-----------------------------------------------------------------------------
(* The HTTP plugin's server.                                                   *)

HttpTyped ==
    /\ starts \in Nat
    /\ webReader \in [EventStream -> [at : {"none", "open", "closed"}, cookie : Cookie \cup {NoCookie}]]
    /\ published \in [EventStream -> Nat] /\ webDelivered \in [EventStream -> Nat]

HttpInv ==
    /\ HttpTyped /\ EndedIsClean
    /\ serving = "reaping" => service = "closed" \/ timedOut

LEMMA HttpStarts == HttpInit => HttpInv
BY DEF HttpInit, HttpInv, HttpTyped, EndedIsClean

(* What the streams are keeps its type, and an event is yielded only while the *)
(* stream's login holds.                                                       *)
LEMMA StreamsTyped ==
  ASSUME HttpTyped, [HttpNext]_httpVars
  PROVE  /\ HttpTyped'
         /\ \A s \in EventStream :
              webDelivered'[s] > webDelivered[s] => Authorized(webReader[s].cookie)
<1> DEFINE Quietly == \A s \in EventStream :
              webDelivered'[s] > webDelivered[s] => Authorized(webReader[s].cookie)
<1>1. CASE WebSessionStarts
  <2>1. /\ webReader' = [s \in EventStream |-> [at |-> "none", cookie |-> NoCookie]]
        /\ published' = [s \in EventStream |-> 0] /\ webDelivered' = published'
        /\ starts' = starts + 1
    BY <1>1 DEF WebSessionStarts
  <2> QED BY <2>1 DEF HttpTyped
<1>2. CASE WebJoined
  <2>1. /\ webReader' = [s \in EventStream |-> [webReader[s] EXCEPT !.at = IF @ = "open" THEN "closed" ELSE @]]
        /\ UNCHANGED <<starts, published, webDelivered>>
    BY <1>2 DEF WebJoined
  <2> QED BY <2>1, SMTT(40) DEF HttpTyped
<1>3. ASSUME NEW s \in EventStream, NEW c \in Cookie \cup {NoCookie}, WebOpens(s, c)
      PROVE  HttpTyped' /\ Quietly
  <2>1. /\ webReader' = [webReader EXCEPT ![s] = [at |-> "open", cookie |-> c]]
        /\ UNCHANGED <<starts, published, webDelivered>>
    BY <1>3 DEF WebOpens, runVars
  <2> QED BY <2>1 DEF HttpTyped
<1>4. ASSUME NEW s \in EventStream, Published(s)
      PROVE  HttpTyped' /\ Quietly
  <2>1. /\ published' = [published EXCEPT ![s] = @ + 1]
        /\ UNCHANGED <<starts, webReader, webDelivered>>
    BY <1>4 DEF Published, runVars
  <2> QED BY <2>1 DEF HttpTyped
<1>5. ASSUME NEW s \in EventStream, Closed(s), UNCHANGED <<starts, published, webDelivered>>
      PROVE  HttpTyped' /\ Quietly
  BY <1>5 DEF Closed, HttpTyped
<1>6. ASSUME NEW s \in EventStream, Delivers(s)
      PROVE  HttpTyped' /\ Quietly
  <2>1. UNCHANGED <<starts, published>>
    BY <1>6 DEF Delivers, runVars
  <2>2. CASE StillAuthorized(s)
    <3>1. webDelivered' = [webDelivered EXCEPT ![s] = @ + 1] /\ UNCHANGED webReader
      BY <1>6, <2>2 DEF Delivers
    <3> QED BY <2>1, <2>2, <3>1 DEF HttpTyped, StillAuthorized
  <2>3. CASE ~StillAuthorized(s)
    BY <1>5, <1>6, <2>1, <2>3 DEF Delivers
  <2> QED BY <2>2, <2>3
<1>7. CASE UNCHANGED <<starts, webReader, published, webDelivered>>
  BY <1>7 DEF HttpTyped
<1> QED BY <1>1, <1>2, <1>3, <1>4, <1>5, <1>6, <1>7
        DEF HttpNext, WebServerEnds, SessionEnds, ServingFails, StopSeen, ServiceCloses, Drained,
            StopDeadline, ServeEnds, LogsIn, LoginEnds, ExpiryCheck, StreamOver, ClientCloses,
            httpVars, runVars, streamVars

LEMMA HttpStays == HttpInv /\ [HttpNext]_httpVars => HttpInv'
<1> SUFFICES ASSUME HttpInv, [HttpNext]_httpVars PROVE HttpInv'
  OBVIOUS
<1>1. HttpTyped'
  BY StreamsTyped DEF HttpInv
<1>2. /\ EndedIsClean'
      /\ serving' = "reaping" => service' = "closed" \/ timedOut'
  BY SMTT(40)
     DEF HttpInv, EndedIsClean, HttpNext, WebServerEnds, WebSessionStarts, SessionEnds, ServingFails,
         StopSeen, ServiceCloses, Drained, StopDeadline, Deadline, ServeEnds, ReaperAborted, WebJoined,
         LogsIn, LoginEnds, WebOpens, Published, Delivers, ExpiryCheck, StreamOver, ClientCloses,
         httpVars, runVars
<1> QED BY <1>1, <1>2 DEF HttpInv

\* A server that has ended left nothing running, and no event reaches a stream
\* whose login does not hold: serve_until and authorized_events, for any number
\* of streams and cookies.
THEOREM WebIsClean ==
  HttpInit /\ [][HttpNext]_httpVars => []EndedIsClean /\ RevokedIsQuiet
<1>1. HttpInv => EndedIsClean
  BY DEF HttpInv
<1>2. HttpInv /\ [HttpNext]_httpVars =>
        [\A s \in EventStream :
           webDelivered'[s] > webDelivered[s] => Authorized(webReader[s].cookie)]_httpVars
  BY StreamsTyped DEF HttpInv
<1> QED BY HttpStarts, HttpStays, <1>1, <1>2, PTL DEF RevokedIsQuiet

-----------------------------------------------------------------------------
(* The relay of the user interface.                                            *)

UiMessages == [what : {"prompt", "garbage"}, id : RelayPrompts]
UiOrders == [what : {"prompt", "cancel"}, id : RelayPrompts]
UiLines == [what : {"answer", "garbage"}, id : RelayPrompts]

UiTyped ==
    /\ socketIn \in Seq(UiMessages) /\ toAgent \in Seq(UiOrders) /\ toRelay \in Seq(UiLines)
    /\ relay \in [at : {"loop", "write", "send", "cancel", "drain", "wait", "over"},
                  item : {NoLine} \cup {<<l>> : l \in UiMessages \cup UiLines},
                  togo : SUBSET RelayPrompts]
    /\ activePrompts \subseteq RelayPrompts /\ agentRuns \subseteq RelayPrompts
    /\ agentTold \subseteq RelayPrompts
    /\ agent \in {"running", "killed", "exited"}

\* While the relay goes round, a prompt it has taken is in one place only: with
\* the relay, on the way to the agent, in the agent, or answered on the way back;
\* and it is one the relay takes for open.
OnePlace ==
  relay.at \in {"loop", "write", "send"} =>
    /\ agentRuns \subseteq activePrompts
    /\ \A k \in DOMAIN toAgent : toAgent[k].what = "prompt" =>
         toAgent[k].id \in activePrompts \ agentRuns
    /\ \A j, k \in DOMAIN toAgent : toAgent[j].what = "prompt" /\ toAgent[k].what = "prompt"
                                    /\ toAgent[j].id = toAgent[k].id => j = k
    /\ \A k \in DOMAIN toRelay : toRelay[k].what = "answer" =>
         /\ toRelay[k].id \in activePrompts \ agentRuns
         /\ \A j \in DOMAIN toAgent : toAgent[j].what = "prompt" => toAgent[j].id # toRelay[k].id
    /\ \A j, k \in DOMAIN toRelay : toRelay[j].what = "answer" /\ toRelay[k].what = "answer"
                                    /\ toRelay[j].id = toRelay[k].id => j = k
    /\ \A k \in DOMAIN socketIn : socketIn[k].id \notin activePrompts
    /\ \A j, k \in DOMAIN socketIn : socketIn[j].id = socketIn[k].id => j = k

\* What the relay is writing to the agent is open and nowhere else.
InTheRelay ==
  relay.at = "write" =>
    \E l \in UiMessages :
      /\ relay.item = <<l>> /\ l.what = "prompt" /\ l.id \in activePrompts \ agentRuns
      /\ \A k \in DOMAIN toAgent : toAgent[k].what = "prompt" => toAgent[k].id # l.id
      /\ \A k \in DOMAIN toRelay : toRelay[k].what = "answer" => toRelay[k].id # l.id

CancelGiven(p) == p \in agentTold \/ \E k \in DOMAIN toAgent : toAgent[k] = [what |-> "cancel", id |-> p]

\* Once the relay ends, every prompt the agent has or will read is cancelled, or
\* still to be.
CancelsAll ==
  relay.at \in {"cancel", "drain", "wait"} /\ agent = "running" =>
    \A p \in RelayPrompts :
      p \in agentRuns \/ (\E k \in DOMAIN toAgent : toAgent[k] = [what |-> "prompt", id |-> p]) =>
        CancelGiven(p) \/ (relay.at = "cancel" /\ p \in relay.togo)

UiInv ==
    /\ UiTyped /\ OnePlace /\ InTheRelay /\ CancelsAll /\ RelayLeavesNoAgent
    /\ ~inputOpen => relay.at \in {"wait", "over"}
    /\ agent # "running" => agentRuns = {}

LEMMA UiStarts == UiInit => UiInv
BY DEF UiInit, UiInv, UiTyped, OnePlace, InTheRelay, CancelsAll, RelayLeavesNoAgent, NoLine

LEMMA UiStays == UiInv /\ [UiNext]_uiVars => UiInv'
<1> SUFFICES ASSUME UiInv, [UiNext]_uiVars PROVE UiInv'
  OBVIOUS
<1>a. /\ UiTyped /\ OnePlace /\ InTheRelay /\ CancelsAll /\ RelayLeavesNoAgent
      /\ ~inputOpen => relay.at \in {"wait", "over"}
      /\ agent # "running" => agentRuns = {}
  BY DEF UiInv
<1>b. /\ socketIn \in Seq(UiMessages) /\ toAgent \in Seq(UiOrders) /\ toRelay \in Seq(UiLines)
      /\ socketIn' = socketIn => socketIn' \in Seq(UiMessages)
  BY <1>a DEF UiTyped
<1> DEFINE Ended == /\ RelayLeavesNoAgent'
                    /\ ~inputOpen' => relay'.at \in {"wait", "over"}
                    /\ agent' # "running" => agentRuns' = {}
<1>c. ASSUME relay.at \in {"loop", "write", "send"}, Stopping, activePrompts' = activePrompts,
             toAgent' = toAgent, UNCHANGED <<inputOpen, agentVars>>,
             socketIn' \in Seq(UiMessages), toRelay' \in Seq(UiLines)
      PROVE  UiInv'
  <2>0. /\ relay' = [at |-> "cancel", item |-> NoLine, togo |-> activePrompts]
        /\ UNCHANGED <<inputOpen, agent, agentRuns, agentTold>>
    BY <1>c DEF Stopping, agentVars
  <2>1. UiTyped'
    BY <1>a, <1>c, <2>0 DEF UiTyped
  <2>2. OnePlace' /\ InTheRelay'
    BY <2>0 DEF OnePlace, InTheRelay
  <2>4. CancelsAll'
    <3>1. \A p \in RelayPrompts :
            p \in agentRuns \/ (\E k \in DOMAIN toAgent : toAgent[k] = [what |-> "prompt", id |-> p])
              => p \in activePrompts
      BY <1>a, <1>c DEF OnePlace
    <3> QED BY <1>c, <2>0, <3>1 DEF CancelsAll
  <2>5. Ended
    BY <1>a, <1>c, <2>0 DEF RelayLeavesNoAgent, UiTyped
  <2> QED BY <2>1, <2>2, <2>4, <2>5 DEF UiInv
<1>1. ASSUME NEW i \in RelayPrompts, NEW what \in {"prompt", "garbage"}, BackendSends(i, what),
             UNCHANGED <<relay, activePrompts, toAgent, toRelay, inputOpen, agentVars, answered>>
      PROVE  UiInv'
  <2> DEFINE m == [what |-> what, id |-> i]
  <2>0. /\ socketIn' = Append(socketIn, m) /\ m \in UiMessages
        /\ i \notin activePrompts /\ \A k \in DOMAIN socketIn : socketIn[k].id # i
        /\ UNCHANGED <<relay, activePrompts, toAgent, toRelay, inputOpen, agent, agentRuns, agentTold>>
    BY <1>1 DEF BackendSends, agentVars, UiMessages
  <2> HIDE DEF m
  <2>1. UiTyped'
    BY <1>a, <1>b, <2>0, AppendFacts DEF UiTyped
  <2>2. OnePlace'
    <3>1. \A k \in DOMAIN socketIn' : (k \in DOMAIN socketIn /\ socketIn'[k] = socketIn[k])
                                       \/ (k = Len(socketIn) + 1 /\ socketIn'[k] = m)
      BY <1>b, <2>0, AppendFacts
    <3>2. m.id = i
      BY DEF m
    <3> QED BY <1>a, <2>0, <3>1, <3>2 DEF OnePlace
  <2>3. InTheRelay'
    BY <1>a, <2>0 DEF InTheRelay
  <2>4. CancelsAll'
    BY <1>a, <2>0 DEF CancelsAll, CancelGiven
  <2>5. Ended
    BY <1>a, <2>0 DEF RelayLeavesNoAgent
  <2> QED BY <2>1, <2>2, <2>3, <2>4, <2>5 DEF UiInv
<1>2. ASSUME UNCHANGED <<socketIn, relay, activePrompts, toAgent, toRelay, inputOpen, agentVars>>
      PROVE  UiInv'
  <2>1. UiTyped'
    BY <1>a, <1>b, <1>2, TailFacts, AppendFacts
       DEF UiTyped, NoLine, UiMessages, UiOrders, UiLines, agentVars
  <2>2. OnePlace'
    BY <1>a, <1>b, <1>2, TailFacts, AppendFacts
       DEF OnePlace, InTheRelay, UiTyped, UiMessages, UiOrders, UiLines, agentVars
  <2>3. InTheRelay'
    BY <1>a, <1>b, <1>2, TailFacts, AppendFacts
       DEF InTheRelay, OnePlace, UiTyped, UiMessages, UiOrders, UiLines, agentVars
  <2>4. CancelsAll'
    BY <1>a, <1>b, <1>2, TailFacts, AppendFacts
       DEF CancelsAll, CancelGiven, OnePlace, InTheRelay, UiTyped, UiMessages, UiOrders, UiLines,
           agentVars
  <2>5. Ended
    BY <1>a, <1>b, <1>2, TailFacts, AppendFacts
       DEF RelayLeavesNoAgent, UiTyped, UiMessages, UiOrders, UiLines, agentVars
  <2> QED BY <2>1, <2>2, <2>3, <2>4, <2>5 DEF UiInv
<1>3. ASSUME AgentReads, UNCHANGED <<backendVars, relay, activePrompts, inputOpen, answered>>
      PROVE  UiInv'
  <2>0. /\ toAgent # <<>> /\ toAgent' = Tail(toAgent) /\ agent = "running"
        /\ UNCHANGED <<socketIn, relay, activePrompts, toRelay, inputOpen, agent>>
    BY <1>3 DEF AgentReads, backendVars
  <2> DEFINE l == Head(toAgent)
  <2>e. IF l.what = "prompt" THEN agentRuns' = agentRuns \cup {l.id} /\ UNCHANGED agentTold
        ELSE agentTold' = agentTold \cup {l.id} /\ UNCHANGED agentRuns
    BY <1>3 DEF AgentReads
  <2>a. /\ l \in UiOrders /\ l = toAgent[1] /\ 1 \in DOMAIN toAgent /\ toAgent' \in Seq(UiOrders)
        /\ \A k \in DOMAIN toAgent' : k + 1 \in DOMAIN toAgent /\ toAgent'[k] = toAgent[k + 1]
                                       /\ k \in Int /\ k # 0
        /\ \A k \in DOMAIN toAgent : k = 1 \/ (k - 1 \in DOMAIN toAgent' /\ toAgent[k] = toAgent'[k - 1])
    BY <1>b, <2>0, TailFacts
  <2> HIDE DEF l
  <2>c. l.id \in RelayPrompts /\ l.what \in {"prompt", "cancel"}
    BY <2>a DEF UiOrders
  <2>1. UiTyped'
    BY <1>a, <2>0, <2>a, <2>c, <2>e DEF UiTyped
  <2>2. OnePlace'
    <3> SUFFICES ASSUME relay.at \in {"loop", "write", "send"} PROVE OnePlace'
      BY <2>0 DEF OnePlace
    <3>0. agentRuns' = agentRuns \/ (l.what = "prompt" /\ agentRuns' = agentRuns \cup {l.id})
      BY <2>e
    <3>1. agentRuns' \subseteq activePrompts
      BY <1>a, <2>a, <3>0 DEF OnePlace
    <3>2. \A k \in DOMAIN toAgent' : toAgent'[k].what = "prompt" =>
            toAgent'[k].id \in activePrompts \ agentRuns'
      BY <1>a, <2>a, <3>0 DEF OnePlace
    <3>3. \A j, k \in DOMAIN toAgent' : toAgent'[j].what = "prompt" /\ toAgent'[k].what = "prompt"
                                    /\ toAgent'[j].id = toAgent'[k].id => j = k
      <4>1. \A j, k \in DOMAIN toAgent : toAgent[j].what = "prompt" /\ toAgent[k].what = "prompt"
                                    /\ toAgent[j].id = toAgent[k].id => j = k
        BY <1>a DEF OnePlace
      <4>2. \A j, k \in Int : j + 1 = k + 1 => j = k
        OBVIOUS
      <4> QED BY ONLY <2>a, <4>1, <4>2
    <3>4. \A k \in DOMAIN toRelay : toRelay[k].what = "answer" =>
            /\ toRelay[k].id \in activePrompts \ agentRuns'
            /\ \A j \in DOMAIN toAgent' : toAgent'[j].what = "prompt" => toAgent'[j].id # toRelay[k].id
      BY <1>a, <2>a, <3>0 DEF OnePlace
    <3> QED BY <1>a, <2>0, <3>1, <3>2, <3>3, <3>4 DEF OnePlace
  <2>3. InTheRelay'
    <3> SUFFICES ASSUME relay.at = "write" PROVE InTheRelay'
      BY <2>0 DEF InTheRelay
    <3>0. agentRuns' = agentRuns \/ (l.what = "prompt" /\ agentRuns' = agentRuns \cup {l.id})
      BY <2>e
    <3>1. PICK m \in UiMessages :
            /\ relay.item = <<m>> /\ m.what = "prompt" /\ m.id \in activePrompts \ agentRuns
            /\ \A k \in DOMAIN toAgent : toAgent[k].what = "prompt" => toAgent[k].id # m.id
            /\ \A k \in DOMAIN toRelay : toRelay[k].what = "answer" => toRelay[k].id # m.id
      BY <1>a DEF InTheRelay
    <3> QED BY <2>0, <2>a, <3>0, <3>1 DEF InTheRelay
  <2>4. CancelsAll'
    <3> SUFFICES ASSUME relay.at \in {"cancel", "drain", "wait"}, NEW p \in RelayPrompts,
                        p \in agentRuns' \/ (\E k \in DOMAIN toAgent' : toAgent'[k] = [what |-> "prompt", id |-> p])
                 PROVE  CancelGiven(p)' \/ (relay.at = "cancel" /\ p \in relay.togo)
      BY <2>0 DEF CancelsAll
    <3>0. l = [what |-> l.what, id |-> l.id]
      BY <2>a DEF UiOrders
    <3>1. p \in agentRuns \/ (\E k \in DOMAIN toAgent : toAgent[k] = [what |-> "prompt", id |-> p])
      BY <2>a, <2>e, <3>0
    <3>2. CancelGiven(p) \/ (relay.at = "cancel" /\ p \in relay.togo)
      BY <1>a, <2>0, <3>1 DEF CancelsAll
    <3>3. CASE p \in agentTold
      BY <2>e, <3>3 DEF CancelGiven
    <3>4. ASSUME NEW k \in DOMAIN toAgent, toAgent[k] = [what |-> "cancel", id |-> p]
          PROVE  CancelGiven(p)'
      <4>1. CASE k = 1
        <5>1. l.what = "cancel" /\ l.id = p
          BY <2>a, <3>4, <4>1
        <5> QED BY <2>e, <5>1 DEF CancelGiven
      <4>2. CASE k # 1
        BY <2>a, <3>4, <4>2 DEF CancelGiven
      <4> QED BY <4>1, <4>2
    <3> QED BY <3>2, <3>3, <3>4 DEF CancelGiven
  <2>5. Ended
    BY <1>a, <2>0 DEF RelayLeavesNoAgent
  <2> QED BY <2>1, <2>2, <2>3, <2>4, <2>5 DEF UiInv
<1>4. ASSUME NEW i \in RelayPrompts, AgentWrites(i), UNCHANGED <<backendVars, relay, activePrompts, inputOpen, answered>>
      PROVE  UiInv'
  <2>1. UiTyped'
    BY <1>a, <1>b, <1>4, TailFacts, AppendFacts
       DEF UiTyped, NoLine, UiMessages, UiOrders, UiLines, AgentWrites, backendVars
  <2>2. OnePlace'
    BY <1>a, <1>b, <1>4, TailFacts, AppendFacts, SMTT(40)
       DEF OnePlace, InTheRelay, UiTyped, UiMessages, UiOrders, UiLines, AgentWrites, backendVars
  <2>3. InTheRelay'
    BY <1>a, <1>b, <1>4, TailFacts, AppendFacts
       DEF InTheRelay, OnePlace, UiTyped, UiMessages, UiOrders, UiLines, AgentWrites, backendVars
  <2>4. CancelsAll'
    BY <1>a, <1>b, <1>4, TailFacts, AppendFacts
       DEF CancelsAll, CancelGiven, OnePlace, InTheRelay, UiTyped, UiMessages, UiOrders, UiLines,
           AgentWrites, backendVars
  <2>5. Ended
    BY <1>a, <1>b, <1>4, TailFacts, AppendFacts
       DEF RelayLeavesNoAgent, UiTyped, UiMessages, UiOrders, UiLines, AgentWrites, backendVars
  <2> QED BY <2>1, <2>2, <2>3, <2>4, <2>5 DEF UiInv
<1>5. ASSUME AgentExits, UNCHANGED <<backendVars, relay, activePrompts, inputOpen, answered>>
      PROVE  UiInv'
  <2>1. UiTyped'
    BY <1>a, <1>b, <1>5, TailFacts, AppendFacts
       DEF UiTyped, NoLine, UiMessages, UiOrders, UiLines, AgentExits, backendVars
  <2>2. OnePlace'
    BY <1>a, <1>b, <1>5, TailFacts, AppendFacts
       DEF OnePlace, InTheRelay, UiTyped, UiMessages, UiOrders, UiLines, AgentExits, backendVars
  <2>3. InTheRelay'
    BY <1>a, <1>b, <1>5, TailFacts, AppendFacts
       DEF InTheRelay, OnePlace, UiTyped, UiMessages, UiOrders, UiLines, AgentExits, backendVars
  <2>4. CancelsAll'
    BY <1>a, <1>b, <1>5, TailFacts, AppendFacts
       DEF CancelsAll, CancelGiven, OnePlace, InTheRelay, UiTyped, UiMessages, UiOrders, UiLines,
           AgentExits, backendVars
  <2>5. Ended
    BY <1>a, <1>b, <1>5, TailFacts, AppendFacts
       DEF RelayLeavesNoAgent, UiTyped, UiMessages, UiOrders, UiLines, AgentExits, backendVars
  <2> QED BY <2>1, <2>2, <2>3, <2>4, <2>5 DEF UiInv
<1>6. ASSUME LoopEnds, UNCHANGED <<inputOpen, agentVars>>
      PROVE  UiInv'
  <2> QED BY <1>a, <1>b, <1>6, <1>c DEF LoopEnds, backendVars, UiTyped
<1>7. ASSUME TakesMessage, UNCHANGED <<inputOpen, agentVars>>
      PROVE  UiInv'
  <2>0. /\ relay.at = "loop" /\ socketIn # <<>> /\ socketIn' = Tail(socketIn)
        /\ UNCHANGED <<toAgent, toRelay, inputOpen, agent, agentRuns, agentTold>>
    BY <1>7 DEF TakesMessage, agentVars
  <2> DEFINE l == Head(socketIn)
  <2>a. /\ l \in UiMessages /\ l = socketIn[1] /\ 1 \in DOMAIN socketIn /\ socketIn' \in Seq(UiMessages)
        /\ \A k \in DOMAIN socketIn' : k + 1 \in DOMAIN socketIn /\ socketIn'[k] = socketIn[k + 1]
                                        /\ k \in Int /\ k # 0
    BY <1>b, <2>0, TailFacts
  <2>b. CASE l.what = "garbage"
    <3>1. Stopping /\ activePrompts' = activePrompts
      BY <1>7, <2>b DEF TakesMessage
    <3> QED BY <1>a, <1>b, <1>7, <1>c, <2>0, <2>a, <3>1
  <2>c. CASE l.what # "garbage"
    <3>0. /\ activePrompts' = activePrompts \cup {l.id}
          /\ relay' = [relay EXCEPT !.at = "write", !.item = <<l>>]
      BY <1>7, <2>c DEF TakesMessage, RelayRemembered
    <3> HIDE DEF l
    <3>a. l.id \in RelayPrompts /\ l.what = "prompt"
      BY <2>a, <2>c DEF UiMessages
    <3>b. relay' \in [at : {"loop", "write", "send", "cancel", "drain", "wait", "over"},
                      item : {NoLine} \cup {<<x>> : x \in UiMessages \cup UiLines},
                      togo : SUBSET RelayPrompts] /\ relay'.at = "write" /\ relay'.item = <<l>>
      BY <1>a, <2>a, <3>0 DEF UiTyped
    <3>1. UiTyped'
      BY <1>a, <2>0, <2>a, <3>0, <3>a, <3>b DEF UiTyped
    <3>c. l.id \notin activePrompts
      BY <1>a, <2>0, <2>a DEF OnePlace
    <3>2. OnePlace'
      <4>1. \A k \in DOMAIN socketIn' : socketIn'[k].id \notin activePrompts'
        BY <1>a, <2>0, <2>a, <3>0 DEF OnePlace
      <4>2. \A j, k \in DOMAIN socketIn' : socketIn'[j].id = socketIn'[k].id => j = k
        BY <1>a, <2>0, <2>a DEF OnePlace
      <4> QED BY <1>a, <2>0, <3>0, <3>b, <4>1, <4>2 DEF OnePlace
    <3>3. InTheRelay'
      <4>1. l.id \notin agentRuns
        BY <1>a, <2>0, <3>c DEF OnePlace
      <4>2. \A k \in DOMAIN toAgent : toAgent[k].what = "prompt" => toAgent[k].id # l.id
        BY <1>a, <2>0, <3>c DEF OnePlace
      <4>3. \A k \in DOMAIN toRelay : toRelay[k].what = "answer" => toRelay[k].id # l.id
        BY <1>a, <2>0, <3>c DEF OnePlace
      <4> QED BY <2>0, <2>a, <3>0, <3>a, <3>b, <4>1, <4>2, <4>3 DEF InTheRelay
    <3>4. CancelsAll'
      BY <3>b DEF CancelsAll
    <3>5. Ended
      BY <1>a, <2>0, <3>b DEF RelayLeavesNoAgent
    <3> QED BY <3>1, <3>2, <3>3, <3>4, <3>5 DEF UiInv
  <2> QED BY <2>b, <2>c
<1>8. ASSUME Written, UNCHANGED <<inputOpen, agentVars>>
      PROVE  UiInv'
  <2>b. CASE agent # "running"
    BY <1>a, <1>b, <1>8, <1>c, <2>b DEF Written, backendVars, UiTyped
  <2>c. CASE agent = "running"
    <3>d. PICK l \in UiMessages :
            /\ relay.item = <<l>> /\ l.what = "prompt" /\ l.id \in activePrompts \ agentRuns
            /\ \A k \in DOMAIN toAgent : toAgent[k].what = "prompt" => toAgent[k].id # l.id
            /\ \A k \in DOMAIN toRelay : toRelay[k].what = "answer" => toRelay[k].id # l.id
      BY <1>a, <1>8 DEF InTheRelay, Written
    <3>0. /\ relay.at = "write" /\ toAgent' = Append(toAgent, l)
          /\ relay' = [relay EXCEPT !.at = "loop", !.item = NoLine]
          /\ UNCHANGED <<socketIn, activePrompts, toRelay, inputOpen, agent, agentRuns, agentTold>>
      BY <1>8, <2>c, <3>d DEF Written, backendVars, agentVars
    <3>a. l \in UiOrders
      BY <3>d DEF UiMessages, UiOrders
    <3>b. relay' \in [at : {"loop", "write", "send", "cancel", "drain", "wait", "over"},
                      item : {NoLine} \cup {<<x>> : x \in UiMessages \cup UiLines},
                      togo : SUBSET RelayPrompts] /\ relay'.at = "loop"
      BY <1>a, <3>0 DEF UiTyped
    <3>c. /\ toAgent' \in Seq(UiOrders)
          /\ \A k \in DOMAIN toAgent' : (k \in DOMAIN toAgent /\ toAgent'[k] = toAgent[k])
                                         \/ (k = Len(toAgent) + 1 /\ toAgent'[k] = l)
      BY <1>b, <3>0, <3>a, AppendFacts
    <3>1. UiTyped'
      BY <1>a, <3>0, <3>b, <3>c DEF UiTyped
    <3>2. OnePlace'
      <4>1. \A k \in DOMAIN toAgent' : toAgent'[k].what = "prompt" =>
              toAgent'[k].id \in activePrompts \ agentRuns
        BY <1>a, <3>0, <3>c, <3>d DEF OnePlace
      <4>2. \A j, k \in DOMAIN toAgent' : toAgent'[j].what = "prompt" /\ toAgent'[k].what = "prompt"
                                    /\ toAgent'[j].id = toAgent'[k].id => j = k
        BY <1>a, <3>0, <3>c, <3>d DEF OnePlace
      <4>3. \A k \in DOMAIN toRelay : toRelay[k].what = "answer" =>
              \A j \in DOMAIN toAgent' : toAgent'[j].what = "prompt" => toAgent'[j].id # toRelay[k].id
        BY <1>a, <3>0, <3>c, <3>d DEF OnePlace
      <4> QED BY <1>a, <3>0, <4>1, <4>2, <4>3 DEF OnePlace
    <3>3. InTheRelay' /\ CancelsAll'
      BY <3>b DEF InTheRelay, CancelsAll
    <3>5. Ended
      BY <1>a, <3>0, <3>b DEF RelayLeavesNoAgent
    <3> QED BY <3>1, <3>2, <3>3, <3>5 DEF UiInv
  <2> QED BY <2>b, <2>c
<1>9. ASSUME RelayTakesLine, UNCHANGED <<inputOpen, agentVars>>
      PROVE  UiInv'
  <2>0. /\ relay.at = "loop" /\ toRelay # <<>> /\ toRelay' = Tail(toRelay)
        /\ UNCHANGED <<socketIn, toAgent, inputOpen, agent, agentRuns, agentTold>>
    BY <1>9 DEF RelayTakesLine, backendVars, agentVars
  <2> DEFINE l == Head(toRelay)
  <2>a. /\ l \in UiLines /\ l = toRelay[1] /\ 1 \in DOMAIN toRelay /\ toRelay' \in Seq(UiLines)
        /\ \A k \in DOMAIN toRelay' : k + 1 \in DOMAIN toRelay /\ toRelay'[k] = toRelay[k + 1]
                                       /\ k \in Int /\ k # 0
    BY <1>b, <2>0, TailFacts
  <2>b. CASE l.what = "garbage"
    <3>1. Stopping /\ activePrompts' = activePrompts
      BY <1>9, <2>b DEF RelayTakesLine
    <3> QED BY <1>a, <1>b, <1>9, <1>c, <2>0, <2>a, <3>1
  <2>c. CASE l.what # "garbage"
    <3>0. /\ activePrompts' = activePrompts \ {l.id}
          /\ relay' = [relay EXCEPT !.at = "send", !.item = <<l>>]
      BY <1>9, <2>c DEF RelayTakesLine
    <3> HIDE DEF l
    <3>a. l.id \in RelayPrompts /\ l.what = "answer"
      BY <2>a, <2>c DEF UiLines
    <3>b. relay' \in [at : {"loop", "write", "send", "cancel", "drain", "wait", "over"},
                      item : {NoLine} \cup {<<x>> : x \in UiMessages \cup UiLines},
                      togo : SUBSET RelayPrompts] /\ relay'.at = "send"
      BY <1>a, <2>a, <3>0 DEF UiTyped
    <3>1. UiTyped'
      BY <1>a, <2>0, <2>a, <3>0, <3>a, <3>b DEF UiTyped
    <3>c. /\ l.id \notin agentRuns
          /\ \A j \in DOMAIN toAgent : toAgent[j].what = "prompt" => toAgent[j].id # l.id
          /\ \A k \in DOMAIN toRelay : toRelay[k].what = "answer" /\ toRelay[k].id = l.id => k = 1
      BY <1>a, <2>0, <2>a, <3>a DEF OnePlace
    <3>2. OnePlace'
      <4>1. agentRuns \subseteq activePrompts'
        BY <1>a, <2>0, <3>0, <3>c DEF OnePlace
      <4>2. \A k \in DOMAIN toAgent : toAgent[k].what = "prompt" =>
              toAgent[k].id \in activePrompts' \ agentRuns
        BY <1>a, <2>0, <3>0, <3>c DEF OnePlace
      <4>3. \A k \in DOMAIN toRelay' : toRelay'[k].what = "answer" =>
              /\ toRelay'[k].id \in activePrompts' \ agentRuns
              /\ \A j \in DOMAIN toAgent : toAgent[j].what = "prompt" => toAgent[j].id # toRelay'[k].id
        BY <1>a, <2>0, <2>a, <3>0, <3>c DEF OnePlace
      <4>4. \A j, k \in DOMAIN toRelay' : toRelay'[j].what = "answer" /\ toRelay'[k].what = "answer"
                                    /\ toRelay'[j].id = toRelay'[k].id => j = k
        BY <1>a, <2>0, <2>a DEF OnePlace
      <4>5. \A k \in DOMAIN socketIn : socketIn[k].id \notin activePrompts'
        BY <1>a, <2>0, <3>0 DEF OnePlace
      <4> QED BY <1>a, <2>0, <4>1, <4>2, <4>3, <4>4, <4>5 DEF OnePlace
    <3>3. InTheRelay' /\ CancelsAll'
      BY <3>b DEF InTheRelay, CancelsAll
    <3>5. Ended
      BY <1>a, <2>0, <3>b DEF RelayLeavesNoAgent
    <3> QED BY <3>1, <3>2, <3>3, <3>5 DEF UiInv
  <2> QED BY <2>b, <2>c
<1>10. ASSUME SocketTakes, UNCHANGED <<inputOpen, agentVars>>
      PROVE  UiInv'
  <2>b. CASE ~socketOpen
    BY <1>a, <1>b, <1>10, <1>c, <2>b DEF SocketTakes, backendVars, UiTyped
  <2>c. CASE socketOpen
    <3>0. /\ relay.at = "send" /\ relay' = [relay EXCEPT !.at = "loop"]
          /\ UNCHANGED <<socketIn, activePrompts, toAgent, toRelay, inputOpen, agent, agentRuns, agentTold>>
      BY <1>10, <2>c DEF SocketTakes, RelayAt, backendVars, agentVars
    <3>1. UiTyped' /\ relay'.at = "loop"
      BY <1>a, <3>0 DEF UiTyped
    <3>2. OnePlace' /\ InTheRelay' /\ CancelsAll'
      BY <1>a, <3>0, <3>1 DEF OnePlace, InTheRelay, CancelsAll
    <3>5. Ended
      BY <1>a, <3>0, <3>1 DEF RelayLeavesNoAgent
    <3> QED BY <3>1, <3>2, <3>5 DEF UiInv
  <2> QED BY <2>b, <2>c
<1>11. ASSUME RelayCancels, UNCHANGED agentVars
      PROVE  UiInv'
  <2>b. CASE relay.togo = {}
    <3>0. /\ relay.at = "cancel" /\ relay' = [relay EXCEPT !.at = "drain"]
          /\ UNCHANGED <<socketIn, activePrompts, toAgent, toRelay, inputOpen, agent, agentRuns, agentTold>>
      BY <1>11, <2>b DEF RelayCancels, ToCancel, RelayAt, backendVars, agentVars
    <3>1. UiTyped' /\ relay'.at = "drain"
      BY <1>a, <3>0 DEF UiTyped
    <3>2. OnePlace' /\ InTheRelay'
      BY <3>1 DEF OnePlace, InTheRelay
    <3>4. CancelsAll'
      BY <1>a, <2>b, <3>0 DEF CancelsAll, CancelGiven
    <3>5. Ended
      BY <1>a, <3>0, <3>1 DEF RelayLeavesNoAgent
    <3> QED BY <3>1, <3>2, <3>4, <3>5 DEF UiInv
  <2>c. CASE relay.togo # {}
    <3>d. PICK i \in relay.togo :
            /\ relay' = [relay EXCEPT !.togo = @ \ {i}]
            /\ IF agent # "running" THEN UNCHANGED toAgent
               ELSE toAgent' = Append(toAgent, [what |-> "cancel", id |-> i])
      BY <1>11, <2>c DEF RelayCancels, ToCancel
    <3> DEFINE m == [what |-> "cancel", id |-> i]
    <3>0. /\ relay.at = "cancel"
          /\ UNCHANGED <<socketIn, activePrompts, toRelay, inputOpen, agent, agentRuns, agentTold>>
      BY <1>11, <2>c DEF RelayCancels, ToCancel, backendVars, agentVars
    <3>a. i \in RelayPrompts /\ m \in UiOrders
      BY <1>a DEF UiTyped, UiOrders
    <3>b. relay'.at = "cancel" /\ relay'.togo = relay.togo \ {i}
          /\ relay' \in [at : {"loop", "write", "send", "cancel", "drain", "wait", "over"},
                      item : {NoLine} \cup {<<x>> : x \in UiMessages \cup UiLines},
                      togo : SUBSET RelayPrompts]
      BY <1>a, <3>0, <3>d DEF UiTyped
    <3>c. toAgent' \in Seq(UiOrders)
      <4>1. CASE agent # "running"
        BY <1>b, <3>d, <4>1
      <4>2. CASE agent = "running"
        <5>1. toAgent' = Append(toAgent, m)
          BY <3>d, <4>2
        <5> HIDE DEF m
        <5> QED BY <1>b, <3>a, <5>1, AppendFacts
      <4> QED BY <4>1, <4>2
    <3>1. UiTyped'
      BY <1>a, <3>0, <3>b, <3>c DEF UiTyped
    <3>2. OnePlace' /\ InTheRelay'
      BY <3>b DEF OnePlace, InTheRelay
    <3>4. CancelsAll'
      <4> SUFFICES ASSUME agent = "running", NEW p \in RelayPrompts,
                          p \in agentRuns \/ (\E k \in DOMAIN toAgent' : toAgent'[k] = [what |-> "prompt", id |-> p])
                   PROVE  CancelGiven(p)' \/ p \in relay'.togo
        BY <3>0, <3>b DEF CancelsAll
      <4>1. toAgent' = Append(toAgent, m)
        BY <3>d
      <4>m. m.what = "cancel"
        OBVIOUS
      <4> HIDE DEF m
      <4>2. /\ \A k \in DOMAIN toAgent : k \in DOMAIN toAgent' /\ toAgent'[k] = toAgent[k]
            /\ \A k \in DOMAIN toAgent' : k \in DOMAIN toAgent \/ toAgent'[k] = m
            /\ \E k \in DOMAIN toAgent' : toAgent'[k] = m
        BY <1>b, <3>a, <4>1, AppendFacts
      <4>3. p \in agentRuns \/ (\E k \in DOMAIN toAgent : toAgent[k] = [what |-> "prompt", id |-> p])
        BY <4>2, <4>m
      <4>4. CancelGiven(p) \/ p \in relay.togo
        BY <1>a, <3>0, <4>3 DEF CancelsAll
      <4>5. CASE p = i
        BY <4>2, <4>5 DEF CancelGiven, m
      <4>6. CASE p # i
        BY <3>0, <3>b, <4>2, <4>4, <4>6 DEF CancelGiven
      <4> QED BY <4>5, <4>6
    <3>5. Ended
      BY <1>a, <3>0, <3>b DEF RelayLeavesNoAgent
    <3> QED BY <3>1, <3>2, <3>4, <3>5 DEF UiInv
  <2> QED BY <2>b, <2>c
<1>12. ASSUME Drains, UNCHANGED agentVars
      PROVE  UiInv'
  <2>1. UiTyped'
    BY <1>a, <1>b, <1>12, TailFacts, AppendFacts
       DEF UiTyped, NoLine, UiMessages, UiOrders, UiLines, Drains, backendVars, agentVars
  <2>2. OnePlace'
    BY <1>a, <1>b, <1>12, TailFacts, AppendFacts
       DEF OnePlace, InTheRelay, UiTyped, UiMessages, UiOrders, UiLines, Drains, backendVars,
           agentVars
  <2>3. InTheRelay'
    BY <1>a, <1>b, <1>12, TailFacts, AppendFacts
       DEF InTheRelay, OnePlace, UiTyped, UiMessages, UiOrders, UiLines, Drains, backendVars,
           agentVars
  <2>4. CancelsAll'
    BY <1>a, <1>b, <1>12, TailFacts, AppendFacts
       DEF CancelsAll, CancelGiven, OnePlace, InTheRelay, UiTyped, UiMessages, UiOrders, UiLines,
           Drains, backendVars, agentVars
  <2>5. Ended
    BY <1>a, <1>b, <1>12, TailFacts, AppendFacts
       DEF RelayLeavesNoAgent, UiTyped, UiMessages, UiOrders, UiLines, Drains, backendVars,
           agentVars
  <2> QED BY <2>1, <2>2, <2>3, <2>4, <2>5 DEF UiInv
<1>13. ASSUME DrainEnds, UNCHANGED agentVars
      PROVE  UiInv'
  <2>1. UiTyped'
    BY <1>a, <1>b, <1>13, TailFacts, AppendFacts
       DEF UiTyped, NoLine, UiMessages, UiOrders, UiLines, DrainEnds, RelayAt, backendVars,
           agentVars
  <2>2. OnePlace'
    BY <1>a, <1>b, <1>13, TailFacts, AppendFacts
       DEF OnePlace, InTheRelay, UiTyped, UiMessages, UiOrders, UiLines, DrainEnds, RelayAt,
           backendVars, agentVars
  <2>3. InTheRelay'
    BY <1>a, <1>b, <1>13, TailFacts, AppendFacts
       DEF InTheRelay, OnePlace, UiTyped, UiMessages, UiOrders, UiLines, DrainEnds, RelayAt,
           backendVars, agentVars
  <2>4. CancelsAll'
    BY <1>a, <1>b, <1>13, TailFacts, AppendFacts
       DEF CancelsAll, CancelGiven, OnePlace, InTheRelay, UiTyped, UiMessages, UiOrders, UiLines,
           DrainEnds, RelayAt, backendVars, agentVars
  <2>5. Ended
    BY <1>a, <1>b, <1>13, TailFacts, AppendFacts
       DEF RelayLeavesNoAgent, UiTyped, UiMessages, UiOrders, UiLines, DrainEnds, RelayAt,
           backendVars, agentVars
  <2> QED BY <2>1, <2>2, <2>3, <2>4, <2>5 DEF UiInv
<1>14. ASSUME AgentGone
      PROVE  UiInv'
  <2>1. UiTyped'
    BY <1>a, <1>b, <1>14, TailFacts, AppendFacts
       DEF UiTyped, NoLine, UiMessages, UiOrders, UiLines, AgentGone, RelayAt, backendVars,
           agentVars
  <2>2. OnePlace'
    BY <1>a, <1>b, <1>14, TailFacts, AppendFacts
       DEF OnePlace, InTheRelay, UiTyped, UiMessages, UiOrders, UiLines, AgentGone, RelayAt,
           backendVars, agentVars
  <2>3. InTheRelay'
    BY <1>a, <1>b, <1>14, TailFacts, AppendFacts
       DEF InTheRelay, OnePlace, UiTyped, UiMessages, UiOrders, UiLines, AgentGone, RelayAt,
           backendVars, agentVars
  <2>4. CancelsAll'
    BY <1>a, <1>b, <1>14, TailFacts, AppendFacts
       DEF CancelsAll, CancelGiven, OnePlace, InTheRelay, UiTyped, UiMessages, UiOrders, UiLines,
           AgentGone, RelayAt, backendVars, agentVars
  <2>5. Ended
    BY <1>a, <1>b, <1>14, TailFacts, AppendFacts
       DEF RelayLeavesNoAgent, UiTyped, UiMessages, UiOrders, UiLines, AgentGone, RelayAt,
           backendVars, agentVars
  <2> QED BY <2>1, <2>2, <2>3, <2>4, <2>5 DEF UiInv
<1>15. ASSUME Kills
      PROVE  UiInv'
  <2>1. UiTyped'
    BY <1>a, <1>b, <1>15, TailFacts, AppendFacts
       DEF UiTyped, NoLine, UiMessages, UiOrders, UiLines, Kills, KilledLate, RelayAt, backendVars
  <2>2. OnePlace'
    BY <1>a, <1>b, <1>15, TailFacts, AppendFacts
       DEF OnePlace, InTheRelay, UiTyped, UiMessages, UiOrders, UiLines, Kills, KilledLate,
           RelayAt, backendVars
  <2>3. InTheRelay'
    BY <1>a, <1>b, <1>15, TailFacts, AppendFacts
       DEF InTheRelay, OnePlace, UiTyped, UiMessages, UiOrders, UiLines, Kills, KilledLate,
           RelayAt, backendVars
  <2>4. CancelsAll'
    BY <1>a, <1>b, <1>15, TailFacts, AppendFacts
       DEF CancelsAll, CancelGiven, OnePlace, InTheRelay, UiTyped, UiMessages, UiOrders, UiLines,
           Kills, KilledLate, RelayAt, backendVars
  <2>5. Ended
    BY <1>a, <1>b, <1>15, TailFacts, AppendFacts
       DEF RelayLeavesNoAgent, UiTyped, UiMessages, UiOrders, UiLines, Kills, KilledLate, RelayAt,
           backendVars
  <2> QED BY <2>1, <2>2, <2>3, <2>4, <2>5 DEF UiInv
<1>16. ASSUME RuntimeDropped
      PROVE  UiInv'
  <2>1. UiTyped'
    BY <1>a, <1>b, <1>16, TailFacts, AppendFacts
       DEF UiTyped, NoLine, UiMessages, UiOrders, UiLines, RuntimeDropped, DropKills, RelayAt,
           backendVars
  <2>2. OnePlace'
    BY <1>a, <1>b, <1>16, TailFacts, AppendFacts
       DEF OnePlace, InTheRelay, UiTyped, UiMessages, UiOrders, UiLines, RuntimeDropped,
           DropKills, RelayAt, backendVars
  <2>3. InTheRelay'
    BY <1>a, <1>b, <1>16, TailFacts, AppendFacts
       DEF InTheRelay, OnePlace, UiTyped, UiMessages, UiOrders, UiLines, RuntimeDropped,
           DropKills, RelayAt, backendVars
  <2>4. CancelsAll'
    BY <1>a, <1>b, <1>16, TailFacts, AppendFacts
       DEF CancelsAll, CancelGiven, OnePlace, InTheRelay, UiTyped, UiMessages, UiOrders, UiLines,
           RuntimeDropped, DropKills, RelayAt, backendVars
  <2>5. Ended
    BY <1>a, <1>b, <1>16, TailFacts, AppendFacts
       DEF RelayLeavesNoAgent, UiTyped, UiMessages, UiOrders, UiLines, RuntimeDropped, DropKills,
           RelayAt, backendVars
  <2> QED BY <2>1, <2>2, <2>3, <2>4, <2>5 DEF UiInv
<1> QED BY <1>1, <1>2, <1>3, <1>4, <1>5, <1>6, <1>7, <1>8, <1>9, <1>10, <1>11, <1>12, <1>13, <1>14,
           <1>15, <1>16
        DEF UiNext, BackendSteps, BackendLeaves, UiStops, AgentSteps, RelayLoop, RelayEnd, uiVars, agentVars

LEMMA UiHolds == UiInv => EofFollowsCancel /\ RelayLeavesNoAgent /\ OpenIsKnown
<1> SUFFICES ASSUME UiInv PROVE EofFollowsCancel /\ RelayLeavesNoAgent /\ OpenIsKnown
  OBVIOUS
<1>1. OpenIsKnown /\ RelayLeavesNoAgent
  BY DEF UiInv, OnePlace, OpenIsKnown
<1>2. EofFollowsCancel
  <2> SUFFICES ASSUME ~inputOpen, agent = "running", NEW p \in agentRuns PROVE CancelGiven(p)
    BY DEF EofFollowsCancel, CancelGiven
  <2>1. relay.at = "wait" /\ p \in RelayPrompts
    BY DEF UiInv, RelayLeavesNoAgent, UiTyped
  <2> QED BY <2>1 DEF UiInv, CancelsAll
<1> QED BY <1>1, <1>2

\* The agent's input is closed only after every prompt it runs was cancelled, a
\* prompt the agent has is one the relay knows of, and no agent outlives its
\* relay: the relay of the user interface adapter, for any set of prompts.
THEOREM RelayIsClean ==
  UiInit /\ [][UiNext]_uiVars => [](EofFollowsCancel /\ RelayLeavesNoAgent /\ OpenIsKnown)
BY UiStarts, UiStays, UiHolds, PTL

-----------------------------------------------------------------------------
(* Resource subscriptions.                                                     *)

UserRecord(p) ==
  p = [op |-> p.op, u |-> p.u, step |-> p.step, seen |-> p.seen, todo |-> p.todo, fresh |-> p.fresh]

\* The threads and the subscriptions are what they are declared to be.
SubsTyped ==
  /\ user = [k \in User |-> user[k]] /\ \A k \in User : UserRecord(user[k])
  /\ subs = [u \in Uri |-> subs[u]]

\* The step of FreshSurvives.
SurvivesStep ==
  \A k \in User : user[k].op = "unsubscribe" /\ user[k].step \in {"wait", "connect"}
    /\ user'[k].step = "idle" => \A u \in Uri : subs[u] # user[k].seen => subs'[u] = subs[u]

LEMMA RecordsAre ==
  ASSUME NEW a, NEW b, NEW c, NEW d, NEW e, NEW f
  PROVE  UserRecord([op |-> a, u |-> b, step |-> c, seen |-> d, todo |-> e, fresh |-> f])
BY DEF UserRecord

LEMMA RecordMoves ==
  ASSUME NEW p, UserRecord(p), NEW v
  PROVE  /\ UserRecord([p EXCEPT !.op = v]) /\ [p EXCEPT !.op = v].step = p.step
         /\ UserRecord([p EXCEPT !.u = v]) /\ [p EXCEPT !.u = v].step = p.step
         /\ UserRecord([p EXCEPT !.step = v]) /\ [p EXCEPT !.step = v].step = v
         /\ UserRecord([p EXCEPT !.seen = v]) /\ [p EXCEPT !.seen = v].step = p.step
         /\ UserRecord([p EXCEPT !.todo = v]) /\ [p EXCEPT !.todo = v].step = p.step
         /\ UserRecord([p EXCEPT !.fresh = v]) /\ [p EXCEPT !.fresh = v].step = p.step
<1>1. UserRecord([p EXCEPT !.op = v]) /\ [p EXCEPT !.op = v].step = p.step
  <2>1. [p EXCEPT !.op = v] = [op |-> v, u |-> p.u, step |-> p.step, seen |-> p.seen, todo |-> p.todo, fresh |-> p.fresh]
    BY DEF UserRecord
  <2> QED BY <2>1, RecordsAre
<1>2. UserRecord([p EXCEPT !.u = v]) /\ [p EXCEPT !.u = v].step = p.step
  <2>1. [p EXCEPT !.u = v] = [op |-> p.op, u |-> v, step |-> p.step, seen |-> p.seen, todo |-> p.todo, fresh |-> p.fresh]
    BY DEF UserRecord
  <2> QED BY <2>1, RecordsAre
<1>3. UserRecord([p EXCEPT !.step = v]) /\ [p EXCEPT !.step = v].step = v
  <2>1. [p EXCEPT !.step = v] = [op |-> p.op, u |-> p.u, step |-> v, seen |-> p.seen, todo |-> p.todo, fresh |-> p.fresh]
    BY DEF UserRecord
  <2> QED BY <2>1, RecordsAre
<1>4. UserRecord([p EXCEPT !.seen = v]) /\ [p EXCEPT !.seen = v].step = p.step
  <2>1. [p EXCEPT !.seen = v] = [op |-> p.op, u |-> p.u, step |-> p.step, seen |-> v, todo |-> p.todo, fresh |-> p.fresh]
    BY DEF UserRecord
  <2> QED BY <2>1, RecordsAre
<1>5. UserRecord([p EXCEPT !.todo = v]) /\ [p EXCEPT !.todo = v].step = p.step
  <2>1. [p EXCEPT !.todo = v] = [op |-> p.op, u |-> p.u, step |-> p.step, seen |-> p.seen, todo |-> v, fresh |-> p.fresh]
    BY DEF UserRecord
  <2> QED BY <2>1, RecordsAre
<1>6. UserRecord([p EXCEPT !.fresh = v]) /\ [p EXCEPT !.fresh = v].step = p.step
  <2>1. [p EXCEPT !.fresh = v] = [op |-> p.op, u |-> p.u, step |-> p.step, seen |-> p.seen, todo |-> p.todo, fresh |-> v]
    BY DEF UserRecord
  <2> QED BY <2>1, RecordsAre
<1> QED BY <1>1, <1>2, <1>3, <1>4, <1>5, <1>6

\* The ways in which a thread's state changes.
ToStep(p, v) == [p EXCEPT !.step = v]
ToRpc(p, v, w) == [p EXCEPT !.step = v, !.seen = w]
ToRestore(p, v, w) == [p EXCEPT !.step = v, !.todo = w, !.fresh = TRUE]
ToWait(p, v, w, x, y) == [p EXCEPT !.op = w, !.u = x, !.step = v, !.seen = y]

LEMMA ManyMoves ==
  ASSUME NEW p, UserRecord(p), NEW v, NEW w, NEW x, NEW y
  PROVE  /\ UserRecord(ToStep(p, v)) /\ ToStep(p, v).step = v
         /\ UserRecord(ToRpc(p, v, w)) /\ ToRpc(p, v, w).step = v
         /\ UserRecord(ToRestore(p, v, w)) /\ ToRestore(p, v, w).step = v
         /\ UserRecord(ToWait(p, v, w, x, y)) /\ ToWait(p, v, w, x, y).step = v
<1> DEFINE a == [p EXCEPT !.step = v]
           b == [p EXCEPT !.op = w]
           c == [b EXCEPT !.u = x]
           d == [c EXCEPT !.step = v]
           e == [d EXCEPT !.seen = y]
           f == [a EXCEPT !.seen = w]
           g == [a EXCEPT !.todo = w]
           h == [g EXCEPT !.fresh = TRUE]
<1>0. ASSUME NEW q, UserRecord(q), NEW z
      PROVE  UserRecord([q EXCEPT !.step = z]) /\ [q EXCEPT !.step = z].step = z
  BY ONLY RecordMoves, UserRecord(q)
<1>1. UserRecord(a) /\ a.step = v
  BY ONLY <1>0, UserRecord(p)
<1>2. UserRecord(b)
  BY RecordMoves
<1>3. UserRecord(f) /\ f.step = v /\ UserRecord(g) /\ g.step = v
  <2> HIDE DEF a
  <2> QED BY <1>1, RecordMoves
<1>4. UserRecord(h) /\ h.step = v
  <2> HIDE DEF g
  <2> QED BY <1>3, RecordMoves
<1>5. UserRecord(c)
  <2> HIDE DEF b
  <2> QED BY <1>2, RecordMoves
<1>6. UserRecord(d) /\ d.step = v
  <2> HIDE DEF c
  <2> QED BY ONLY <1>0, <1>5
<1>7. UserRecord(e) /\ e.step = v
  <2> HIDE DEF d
  <2> QED BY <1>6, RecordMoves
<1> QED BY <1>1, <1>3, <1>4, <1>7 DEF ToStep, ToRpc, ToRestore, ToWait

\* What a step that moves one thread does to the others: nothing.
LEMMA OneThread ==
  ASSUME SubsTyped, NEW j \in User, NEW x, UserRecord(x), user' = [user EXCEPT ![j] = x],
         subs' = [v \in Uri |-> subs'[v]],
         \/ x.step # "idle"
         \/ user[j].step \notin {"wait", "connect"}
         \/ user[j].op = "unsubscribe" => \A u \in Uri : subs[u] # user[j].seen => subs'[u] = subs[u]
  PROVE  SubsTyped' /\ SurvivesStep
<1>1. user' = [k \in User |-> IF k = j THEN x ELSE user[k]]
  BY DEF SubsTyped
<1>2. user'[j] = x /\ \A k \in User : k # j => user'[k] = user[k]
  BY <1>1
<1>3. SubsTyped'
  BY <1>1, <1>2 DEF SubsTyped
<1>4. SurvivesStep
  BY <1>2 DEF SurvivesStep
<1> QED BY <1>3, <1>4

LEMMA NoThread ==
  ASSUME SubsTyped, user' = user, subs' = [v \in Uri |-> subs'[v]]
  PROVE  SubsTyped' /\ SurvivesStep
BY DEF SubsTyped, SurvivesStep

LEMMA Retires ==
  ASSUME SubsTyped, NEW w, NEW tok, Removed(w, tok)
  PROVE  /\ subs' = [v \in Uri |-> subs'[v]]
         /\ \A u \in Uri : subs[u] # tok => subs'[u] = subs[u]
<1>1. subs' = [u \in Uri |-> IF u = w /\ subs[w] = tok THEN 0 ELSE subs[u]]
  BY DEF Removed, SubsTyped
<1> QED BY <1>1

LEMMA GivesUp ==
  ASSUME SubsTyped, NEW k \in User, GivenUp(k)
  PROVE  /\ subs' = [v \in Uri |-> subs'[v]]
         /\ user[k].op = "unsubscribe" => \A u \in Uri : subs[u] # user[k].seen => subs'[u] = subs[u]
<1>1. CASE user[k].op = "unsubscribe" /\ user[k].seen # 0
  BY <1>1, Retires DEF GivenUp
<1>2. CASE ~(user[k].op = "unsubscribe" /\ user[k].seen # 0)
  BY <1>2 DEF GivenUp, SubsTyped
<1> QED BY <1>1, <1>2

LEMMA SubscriptionsStart == SubsInit => SubsTyped
<1> SUFFICES ASSUME SubsInit PROVE SubsTyped
  OBVIOUS
<1>1. UserRecord(IdleUser)
  BY RecordsAre DEF IdleUser
<1> QED BY <1>1 DEF SubsInit, SubsTyped

LEMMA SubscriptionsStay == SubsTyped /\ [SubsNext]_subVars => SubsTyped' /\ SurvivesStep
<1> SUFFICES ASSUME SubsTyped, [SubsNext]_subVars PROVE SubsTyped' /\ SurvivesStep
  OBVIOUS
<1>a. UserRecord(IdleUser)
  BY RecordsAre DEF IdleUser
<1>b. \A k \in User : UserRecord(user[k])
  BY DEF SubsTyped
<1>c. subs = [u \in Uri |-> subs[u]]
  BY DEF SubsTyped
<1>1. ASSUME NEW k \in User, NEW op \in {"subscribe", "unsubscribe", "use"}, NEW u \in Uri, UserBegins(k, op, u)
      PROVE  SubsTyped' /\ SurvivesStep
  <2> DEFINE x == [IdleUser EXCEPT !.op = op, !.u = u, !.step = "wait", !.seen = IF op = "unsubscribe" THEN subs[u] ELSE 0]
  <2>1. user' = [user EXCEPT ![k] = x]
    BY <1>1 DEF UserBegins, UserEnds
  <2>2. UserRecord(x) /\ x.step # "idle"
    <3>1. UserRecord(IdleUser) /\ UserRecord(user[k])
      BY <1>a, <1>b
    <3> HIDE DEF x
    <3>2. x = ToWait(IdleUser, "wait", op, u, IF op = "unsubscribe" THEN subs[u] ELSE 0)
      BY DEF x, ToStep, ToRpc, ToRestore, ToWait
    <3> QED BY ONLY <3>1, <3>2, ManyMoves, RecordMoves
  <2>3. subs' = [v \in Uri |-> subs'[v]]
    BY <1>c, <1>1 DEF UserBegins, localVars
  <2> HIDE DEF x
  <2> QED BY <2>1, <2>2, <2>3, <1>1, OneThread
<1>2. ASSUME NEW k \in User, UserGivesUp(k) PROVE SubsTyped' /\ SurvivesStep
  <2> DEFINE x == IdleUser
  <2>1. user' = [user EXCEPT ![k] = x]
    BY <1>2 DEF UserGivesUp, UserEnds
  <2>2. UserRecord(x)
    <3>1. UserRecord(IdleUser) /\ UserRecord(user[k])
      BY <1>a, <1>b
    <3> HIDE DEF x
    <3>2. x = IdleUser
      BY DEF x, ToStep, ToRpc, ToRestore, ToWait
    <3> QED BY ONLY <3>1, <3>2, ManyMoves, RecordMoves
  <2>3. subs' = [v \in Uri |-> subs'[v]]
    BY <1>c, <1>2, GivesUp DEF UserGivesUp, localVars
  <2>4. user[k].op = "unsubscribe" => \A u \in Uri : subs[u] # user[k].seen => subs'[u] = subs[u]
    BY <1>2, GivesUp DEF UserGivesUp
  <2> HIDE DEF x
  <2> QED BY <2>1, <2>2, <2>3, <2>4, <1>2, OneThread
<1>3. ASSUME NEW k \in User, ConnectFails(k) PROVE SubsTyped' /\ SurvivesStep
  <2> DEFINE x == IdleUser
  <2>1. user' = [user EXCEPT ![k] = x]
    BY <1>3 DEF ConnectFails, UserEnds
  <2>2. UserRecord(x)
    <3>1. UserRecord(IdleUser) /\ UserRecord(user[k])
      BY <1>a, <1>b
    <3> HIDE DEF x
    <3>2. x = IdleUser
      BY DEF x, ToStep, ToRpc, ToRestore, ToWait
    <3> QED BY ONLY <3>1, <3>2, ManyMoves, RecordMoves
  <2>3. subs' = [v \in Uri |-> subs'[v]]
    BY <1>c, <1>3, GivesUp DEF ConnectFails, localVars
  <2>4. user[k].op = "unsubscribe" => \A u \in Uri : subs[u] # user[k].seen => subs'[u] = subs[u]
    BY <1>3, GivesUp DEF ConnectFails
  <2> HIDE DEF x
  <2> QED BY <2>1, <2>2, <2>3, <2>4, <1>3, OneThread
<1>4. ASSUME NEW k \in User, Connects(k) PROVE SubsTyped' /\ SurvivesStep
  <2> DEFINE x == [user[k] EXCEPT !.step = "restore", !.todo = {u \in Uri : subs[u] # 0 /\ ~(user[k].op \in {"subscribe", "unsubscribe"} /\ u = user[k].u)}, !.fresh = TRUE]
  <2>1. user' = [user EXCEPT ![k] = x]
    BY <1>4 DEF Connects, UserEnds
  <2>2. UserRecord(x) /\ x.step # "idle"
    <3>1. UserRecord(IdleUser) /\ UserRecord(user[k])
      BY <1>a, <1>b
    <3> HIDE DEF x
    <3>2. \E w : x = ToRestore(user[k], "restore", w)
      BY DEF x, ToStep, ToRpc, ToRestore, ToWait
    <3> QED BY ONLY <3>1, <3>2, ManyMoves, RecordMoves
  <2>3. subs' = [v \in Uri |-> subs'[v]]
    <3>1. \E f : subs' = [u \in Uri |-> f[u]]
      <4> DEFINE restored == {u \in Uri : subs[u] # 0 /\ ~(user[k].op \in {"subscribe", "unsubscribe"} /\ u = user[k].u)}
                 order == SetToSeq(restored)
                 fresh(u) == tokens + CHOOSE i \in 1..Len(order) : order[i] = u
                 f == [u \in Uri |-> IF u \in restored THEN fresh(u) ELSE subs[u]]
      <4>1. subs' = f
        BY <1>4 DEF Connects
      <4> HIDE DEF restored, order, fresh
      <4>2. subs' = [u \in Uri |-> f[u]]
        BY <4>1
      <4> QED BY <4>2
    <3> QED BY <3>1
  <2> HIDE DEF x
  <2> QED BY <2>1, <2>2, <2>3, <1>4, OneThread
<1>5. ASSUME NEW k \in User, Restored(k) PROVE SubsTyped' /\ SurvivesStep
  <2> DEFINE x == [user[k] EXCEPT !.step = "run"]
  <2>1. user' = [user EXCEPT ![k] = x]
    BY <1>5 DEF Restored, UserEnds
  <2>2. UserRecord(x) /\ x.step # "idle"
    <3>1. UserRecord(IdleUser) /\ UserRecord(user[k])
      BY <1>a, <1>b
    <3> HIDE DEF x
    <3>2. x = ToStep(user[k], "run")
      BY DEF x, ToStep, ToRpc, ToRestore, ToWait
    <3> QED BY ONLY <3>1, <3>2, ManyMoves, RecordMoves
  <2>3. subs' = [v \in Uri |-> subs'[v]]
    BY <1>c, <1>5 DEF Restored, localVars
  <2> HIDE DEF x
  <2> QED BY <2>1, <2>2, <2>3, <1>5, OneThread
<1>6. ASSUME NEW k \in User, NEW b \in BOOLEAN, UserLocks(k, b) PROVE SubsTyped' /\ SurvivesStep
  <2> DEFINE x == [user[k] EXCEPT !.step = IF connected' THEN "run" ELSE "connect"]
  <2>1. user' = [user EXCEPT ![k] = x]
    BY <1>6 DEF UserLocks, UserEnds
  <2>2. UserRecord(x) /\ x.step # "idle"
    <3>1. UserRecord(IdleUser) /\ UserRecord(user[k])
      BY <1>a, <1>b
    <3> HIDE DEF x
    <3>2. x = ToStep(user[k], IF connected' THEN "run" ELSE "connect")
      BY DEF x, ToStep, ToRpc, ToRestore, ToWait
    <3> QED BY ONLY <3>1, <3>2, ManyMoves, RecordMoves
  <2>3. subs' = [v \in Uri |-> subs'[v]]
    BY <1>c, <1>6 DEF UserLocks, localVars, Cleared
  <2> HIDE DEF x
  <2> QED BY <2>1, <2>2, <2>3, <1>6, OneThread
<1>7. ASSUME NEW k \in User, NEW b \in BOOLEAN, RestoreFails(k, b) PROVE SubsTyped' /\ SurvivesStep
  <2> DEFINE x == IdleUser
  <2>1. user' = [user EXCEPT ![k] = x]
    BY <1>7 DEF RestoreFails, UserEnds
  <2>2. UserRecord(x)
    <3>1. UserRecord(IdleUser) /\ UserRecord(user[k])
      BY <1>a, <1>b
    <3> HIDE DEF x
    <3>2. x = IdleUser
      BY DEF x, ToStep, ToRpc, ToRestore, ToWait
    <3> QED BY ONLY <3>1, <3>2, ManyMoves, RecordMoves
  <2>3. subs' = [v \in Uri |-> subs'[v]]
    BY <1>c, <1>7, GivesUp DEF RestoreFails, localVars, Cleared
  <2>4. user[k].step \notin {"wait", "connect"}
    BY <1>7 DEF RestoreFails, UserAt
  <2> HIDE DEF x
  <2> QED BY <2>1, <2>2, <2>3, <2>4, <1>7, OneThread
<1>8. ASSUME NEW k \in User, NEW b \in BOOLEAN, Uses(k, b) PROVE SubsTyped' /\ SurvivesStep
  <2> DEFINE x == IdleUser
  <2>1. user' = [user EXCEPT ![k] = x]
    BY <1>8 DEF Uses, UserEnds
  <2>2. UserRecord(x)
    <3>1. UserRecord(IdleUser) /\ UserRecord(user[k])
      BY <1>a, <1>b
    <3> HIDE DEF x
    <3>2. x = IdleUser
      BY DEF x, ToStep, ToRpc, ToRestore, ToWait
    <3> QED BY ONLY <3>1, <3>2, ManyMoves, RecordMoves
  <2>3. subs' = [v \in Uri |-> subs'[v]]
    BY <1>c, <1>8 DEF Uses, localVars
  <2>4. user[k].step \notin {"wait", "connect"}
    BY <1>8 DEF Uses, UserAt
  <2> HIDE DEF x
  <2> QED BY <2>1, <2>2, <2>3, <2>4, <1>8, OneThread
<1>9. ASSUME NEW k \in User, NEW b \in BOOLEAN, UnsubscribeAnswered(k, b)
      PROVE  SubsTyped' /\ SurvivesStep
  <2> DEFINE x == IdleUser
  <2>1. user' = [user EXCEPT ![k] = x]
    BY <1>9 DEF UnsubscribeAnswered, UserEnds
  <2>2. UserRecord(x)
    <3>1. UserRecord(IdleUser) /\ UserRecord(user[k])
      BY <1>a, <1>b
    <3> HIDE DEF x
    <3>2. x = IdleUser
      BY DEF x, ToStep, ToRpc, ToRestore, ToWait
    <3> QED BY ONLY <3>1, <3>2, ManyMoves, RecordMoves
  <2>3. subs' = [v \in Uri |-> subs'[v]]
    BY <1>c, <1>9 DEF UnsubscribeAnswered, localVars
  <2>4. user[k].step \notin {"wait", "connect"}
    BY <1>9 DEF UnsubscribeAnswered, UserAt
  <2> HIDE DEF x
  <2> QED BY <2>1, <2>2, <2>3, <2>4, <1>9, OneThread
<1>10. ASSUME NEW k \in User, NEW u \in Uri, RestoreNext(k, u) PROVE SubsTyped' /\ SurvivesStep
  <2> DEFINE x == [user[k] EXCEPT !.todo = user[k].todo \ {u}]
  <2>1. user' = [user EXCEPT ![k] = x]
    BY <1>10 DEF RestoreNext, UserEnds
  <2>2. UserRecord(x)
    <3>1. UserRecord(IdleUser) /\ UserRecord(user[k])
      BY <1>a, <1>b
    <3> HIDE DEF x
    <3>2. x = [user[k] EXCEPT !.todo = user[k].todo \ {u}]
      BY DEF x, ToStep, ToRpc, ToRestore, ToWait
    <3> QED BY ONLY <3>1, <3>2, ManyMoves, RecordMoves
  <2>3. subs' = [v \in Uri |-> subs'[v]]
    BY <1>c, <1>10 DEF RestoreNext, localVars
  <2>4. user[k].step \notin {"wait", "connect"}
    BY <1>10 DEF RestoreNext, UserAt
  <2> HIDE DEF x
  <2> QED BY <2>1, <2>2, <2>3, <2>4, <1>10, OneThread
<1>11. ASSUME NEW k \in User, Unsubscribes(k) PROVE SubsTyped' /\ SurvivesStep
  <2> DEFINE x == [user[k] EXCEPT !.step = "rpc"]
  <2>1. user' = [user EXCEPT ![k] = x]
    BY <1>11 DEF Unsubscribes, UserEnds
  <2>2. UserRecord(x) /\ x.step # "idle"
    <3>1. UserRecord(IdleUser) /\ UserRecord(user[k])
      BY <1>a, <1>b
    <3> HIDE DEF x
    <3>2. x = ToStep(user[k], "rpc")
      BY DEF x, ToStep, ToRpc, ToRestore, ToWait
    <3> QED BY ONLY <3>1, <3>2, ManyMoves, RecordMoves
  <2>3. subs' = [v \in Uri |-> subs'[v]]
    BY <1>c, <1>11, Retires DEF Unsubscribes, localVars
  <2> HIDE DEF x
  <2> QED BY <2>1, <2>2, <2>3, <1>11, OneThread
<1>12. ASSUME NEW k \in User, NEW answer \in {"ok", "rejected", "failed"}, SubscribeAnswered(k, answer)
       PROVE  SubsTyped' /\ SurvivesStep
  <2> DEFINE x == IdleUser
  <2>1. user' = [user EXCEPT ![k] = x]
    BY <1>12 DEF SubscribeAnswered, UserEnds
  <2>2. UserRecord(x)
    <3>1. UserRecord(IdleUser) /\ UserRecord(user[k])
      BY <1>a, <1>b
    <3> HIDE DEF x
    <3>2. x = IdleUser
      BY DEF x, ToStep, ToRpc, ToRestore, ToWait
    <3> QED BY ONLY <3>1, <3>2, ManyMoves, RecordMoves
  <2>3. subs' = [v \in Uri |-> subs'[v]]
    BY <1>c, <1>12, Retires DEF SubscribeAnswered, localVars
  <2>4. user[k].step \notin {"wait", "connect"}
    BY <1>12 DEF SubscribeAnswered, UserAt
  <2> HIDE DEF x
  <2> QED BY <2>1, <2>2, <2>3, <2>4, <1>12, OneThread
<1>13. ASSUME NEW k \in User, Subscribes(k) PROVE SubsTyped' /\ SurvivesStep
  <2>1. \/ user' = [user EXCEPT ![k] = IdleUser]
        \/ user' = [user EXCEPT ![k] = [user[k] EXCEPT !.step = "rpc", !.seen = tokens']]
    BY <1>13 DEF Subscribes, UserEnds
  <2>2. UserRecord([user[k] EXCEPT !.step = "rpc", !.seen = tokens'])
    BY <1>b, RecordMoves
  <2>3. subs' = [v \in Uri |-> subs'[v]]
    BY <1>c, <1>13 DEF Subscribes
  <2>4. user[k].step \notin {"wait", "connect"}
    BY <1>13 DEF Subscribes, UserAt
  <2> QED BY <1>a, <2>1, <2>2, <2>3, <2>4, OneThread
<1>14. ASSUME CloseTakes PROVE SubsTyped' /\ SurvivesStep
  <2>1. user' = user /\ subs' = [v \in Uri |-> subs'[v]]
    BY <1>c, <1>14 DEF CloseTakes, localVars
  <2> QED BY <2>1, NoThread
<1>15. ASSUME CloseClears PROVE SubsTyped' /\ SurvivesStep
  <2>1. user' = user /\ subs' = [v \in Uri |-> subs'[v]]
    BY <1>c, <1>15 DEF CloseClears, localVars, Cleared
  <2> QED BY <2>1, NoThread
<1>16. ASSUME NEW u \in Uri, ServerPushes(u) PROVE SubsTyped' /\ SurvivesStep
  <2>1. user' = user /\ subs' = [v \in Uri |-> subs'[v]]
    BY <1>c, <1>16 DEF ServerPushes, localVars
  <2> QED BY <2>1, NoThread
<1>17. ASSUME NEW u \in Uri, DispatchBegins(u) PROVE SubsTyped' /\ SurvivesStep
  <2>1. user' = user /\ subs' = [v \in Uri |-> subs'[v]]
    BY <1>c, <1>17 DEF DispatchBegins, localVars
  <2> QED BY <2>1, NoThread
<1>18. ASSUME NEW b \in BOOLEAN, DispatchReads(b) PROVE SubsTyped' /\ SurvivesStep
  <2>1. user' = user /\ subs' = [v \in Uri |-> subs'[v]]
    BY <1>c, <1>18 DEF DispatchReads, localVars
  <2> QED BY <2>1, NoThread
<1>19. ASSUME DispatchRefused PROVE SubsTyped' /\ SurvivesStep
  <2>1. user' = user /\ subs' = [v \in Uri |-> subs'[v]]
    BY <1>c, <1>19 DEF DispatchRefused, localVars
  <2> QED BY <2>1, NoThread
<1>20. ASSUME DispatchEnqueues PROVE SubsTyped' /\ SurvivesStep
  <2>1. user' = user /\ subs' = [v \in Uri |-> subs'[v]]
    BY <1>c, <1>20 DEF DispatchEnqueues, localVars
  <2> QED BY <2>1, NoThread
<1>21. ASSUME NEW b \in SubBatch, Deliver(b) PROVE SubsTyped' /\ SurvivesStep
  <2>1. user' = user /\ subs' = [v \in Uri |-> subs'[v]]
    BY <1>c, <1>21 DEF Deliver, localVars
  <2> QED BY <2>1, NoThread
<1>22. ASSUME NEW b \in SubBatch, RetryBatch(b) PROVE SubsTyped' /\ SurvivesStep
  <2>1. user' = user /\ subs' = [v \in Uri |-> subs'[v]]
    BY <1>c, <1>22 DEF RetryBatch, localVars
  <2> QED BY <2>1, NoThread
<1>23. ASSUME NEW b \in SubBatch, NEW ours \in BOOLEAN, TakeBatch(b, ours)
       PROVE  SubsTyped' /\ SurvivesStep
  <2>1. user' = user /\ subs' = [v \in Uri |-> subs'[v]]
    BY <1>c, <1>23 DEF TakeBatch, localVars
  <2> QED BY <2>1, NoThread
<1>24. CASE UNCHANGED subVars
  BY <1>c, <1>24, NoThread DEF subVars
<1> QED
  BY <1>1, <1>2, <1>3, <1>4, <1>5, <1>6, <1>7, <1>8, <1>9, <1>10, <1>11, <1>12, <1>13, <1>14,
     <1>15, <1>16, <1>17, <1>18, <1>19, <1>20, <1>21, <1>22, <1>23, <1>24
     DEF SubsNext, UserSteps

\* An unsubscribe that gives up takes back its own update only: what another
\* thread made of a resource in the meantime survives (unsubscribe_resource).
THEOREM UpdatesSurvive == SubsInit /\ [][SubsNext]_subVars => FreshSurvives
<1>1. SubsTyped /\ [SubsNext]_subVars =>
        [\A k \in User : user[k].op = "unsubscribe" /\ user[k].step \in {"wait", "connect"}
           /\ user'[k].step = "idle" => \A u \in Uri : subs[u] # user[k].seen => subs'[u] = subs[u]]_subVars
  BY SubscriptionsStay DEF SurvivesStep
<1> QED BY SubscriptionsStart, SubscriptionsStay, <1>1, PTL DEF FreshSurvives

-----------------------------------------------------------------------------
(* The group.                                                                  *)

\* The variables of the group, and its steps.
adapterVars == <<active, mcpVars, subVars, stdioVars, mcpHttpVars, sseVars, rpcVars, httpVars,
                 uiVars, connVars, promptVars, acpTaskVars>>
Adapters == Init /\ [][Next]_adapterVars

\* Whichever component a behaviour is made of, the others rest.
LEMMA GroupSteps ==
  [Next]_adapterVars =>
    /\ [SubsNext]_subVars /\ [RpcNext]_rpcVars /\ [HttpNext]_httpVars /\ [UiNext]_uiVars
    /\ [ConnectionNext]_connVars /\ [PromptNext]_promptVars /\ [TasksNext]_acpTaskVars
<1>1. Next => [SubsNext]_subVars
  BY DEF Next, OthersRest
<1>2. Next => [RpcNext]_rpcVars
  BY DEF Next, OthersRest
<1>3. Next => [HttpNext]_httpVars
  BY DEF Next, OthersRest
<1>4. Next => [UiNext]_uiVars
  BY DEF Next, OthersRest
<1>5. Next => [ConnectionNext]_connVars
  BY DEF Next, OthersRest
<1>6. Next => [PromptNext]_promptVars
  BY DEF Next, OthersRest
<1>7. Next => [TasksNext]_acpTaskVars
  BY DEF Next, OthersRest
<1>8. UNCHANGED adapterVars =>
        UNCHANGED <<subVars, rpcVars, httpVars, uiVars, connVars, promptVars, acpTaskVars>>
  BY DEF adapterVars
<1> QED BY <1>1, <1>2, <1>3, <1>4, <1>5, <1>6, <1>7, <1>8

\* Side by side, the adapters keep their children, answer what they were asked
\* and leave nothing behind when a connection, prompt, session or server ends.
THEOREM AdaptersAreClean == Adapters => []AdaptersLeaveNothing
<1> DEFINE All == ServerInv /\ HttpInv /\ UiInv /\ ConnInv /\ PromptInv /\ TasksInv
<1>1. Init => All
  BY ServerStarts, HttpStarts, UiStarts, ConnStarts, PromptStarts, TasksStart DEF Init
<1>2. All /\ [Next]_adapterVars => All'
  BY GroupSteps, ServerStays, HttpStays, UiStays, ConnStays, PromptStays, TasksStay
<1>3. All => AdaptersLeaveNothing
  <2>1. ServerInv => ChildIsKept /\ StopKillsTracked /\ AnswersMatch /\ NoSilentSkip
    BY ServerHolds
  <2>2. HttpInv => EndedIsClean
    BY DEF HttpInv
  <2>3. UiInv => EofFollowsCancel /\ RelayLeavesNoAgent /\ OpenIsKnown
    BY UiHolds
  <2>4. ConnInv => NothingLeftBehind /\ ClosedIsQuiet /\ AnsweredOnce /\ TornIsLast
    BY ConnHolds
  <2>5. PromptInv => AllowedWasPermitted /\ PromptLeavesNothing /\ OutcomeIsOwn
    BY DEF PromptInv
  <2>6. TasksInv => ClosedIsSilent /\ StreamHasEntry
    BY TasksHold
  <2> QED BY <2>1, <2>2, <2>3, <2>4, <2>5, <2>6 DEF AdaptersLeaveNothing
<1> QED BY <1>1, <1>2, <1>3, PTL DEF Adapters

\* Side by side, no step drops a fresh subscription update, publishes to a
\* stream whose login was revoked or lets a cancelled prompt allow a tool.
THEOREM NothingFollowsTheEnd == Adapters => NothingAfterTheEnd
<1> DEFINE All == SubsTyped /\ HttpInv /\ PromptInv
<1>1. Init => All
  BY SubscriptionsStart, HttpStarts, PromptStarts DEF Init
<1>2. All /\ [Next]_adapterVars => All'
  BY GroupSteps, SubscriptionsStay, HttpStays, PromptStays
<1>3. All /\ [Next]_adapterVars =>
        [\A k \in User : user[k].op = "unsubscribe" /\ user[k].step \in {"wait", "connect"}
           /\ user'[k].step = "idle" => \A u \in Uri : subs[u] # user[k].seen => subs'[u] = subs[u]]_subVars
  BY GroupSteps, SubscriptionsStay DEF SurvivesStep
<1>4. All /\ [Next]_adapterVars =>
        [\A s \in EventStream :
           webDelivered'[s] > webDelivered[s] => Authorized(webReader[s].cookie)]_httpVars
  BY GroupSteps, StreamsTyped DEF HttpInv
<1>5. All /\ [Next]_adapterVars =>
        [promptCancelled => Granted' \subseteq Granted]_promptVars
  BY GroupSteps, PromptStays
<1> QED
  BY <1>1, <1>2, <1>3, <1>4, <1>5, PTL
     DEF Adapters, NothingAfterTheEnd, FreshSurvives, RevokedIsQuiet, CancelledAllowsNothing
=============================================================================
