--------------------------- MODULE ChatPageProofs ---------------------------
(* Proofs about the chat page: what a user who waits for it can rely on, for
   every set of threads, whatever the model says and however often the user, the
   servers and the network do their part.                                     *)
EXTENDS ChatPage, FoldProofs, TLAPS

ServerTypes ==
    /\ registry \in Seq(Threads) /\ IsInjective(registry)
    /\ pending \in [Threads -> Nat \cup {None}]
    /\ todos \in [Threads -> Nat]
    /\ turn = [t \in Threads |-> turn[t]]
    /\ \A t \in Threads : DOMAIN turn[t] = DOMAIN NoTurn /\ turn[t].at \in Nat

PageTypes ==
    /\ page \in [threads : Seq(Threads), active : Threads \cup {None},
                 sending : BOOLEAN, mounted : BOOLEAN]
    /\ IsInjective(page.threads)
    /\ bundle = [events |-> bundle.events, todos |-> bundle.todos, pending |-> bundle.pending]
    /\ bundle.pending \in Nat \cup {None}
    /\ sends \in [Threads -> SendType \cup {None}]
    /\ deleting \in DeleteType \cup {None}
    /\ \A l \in loads :
          /\ l = [thread |-> l.thread, n |-> l.n, log |-> l.log, pending |-> l.pending,
                  todos |-> l.todos]
          /\ l.thread \in Threads /\ l.pending \in Nat \cup {None}
    /\ calm \in BOOLEAN /\ ordered \in BOOLEAN

(* A turn runs only while its send reads the response, and there is one send. *)
TurnsAreSent ==
    /\ \A t \in Threads : turn[t].pc # "none" => sends[t] # None /\ sends[t].pc = "stream"
    /\ \A t, u \in Threads : sends[t] # None /\ sends[u] # None => t = u

Idle == \A t \in Threads : sends[t] = None

(* The tabs are the registry, but for what a deletion has not yet shown. *)
TabsFollow ==
    /\ page.mounted /\ deleting = None => page.threads = registry
    /\ deleting # None =>
          /\ deleting.thread \in Range(page.threads)
          /\ registry = IF deleting.pc = "registry" THEN page.threads
                        ELSE RemoveFirst(page.threads, deleting.thread)
    /\ ~page.mounted => /\ page.threads = <<>> /\ page.active = None
                        /\ loads = {} /\ strays = {} /\ deleting = None /\ Idle

(* What the fetches of a load have brought is still so. *)
LoadIsTrue ==
    /\ \A l \in loads : /\ l.thread = page.active
                        /\ l.log # None => l.pending = pending[l.thread]
                        /\ l.todos # None => l.todos = todos[l.thread]
    /\ \A l, m \in loads : l = m
    /\ loads # {} => deleting = None /\ Idle

DeletesOwn ==
    /\ deleting # None => deleting.active = page.active /\ Idle
    /\ page.active # None => page.active \in Range(page.threads)

SendIsTrue ==
    \A t \in Threads : sends[t] # None =>
        /\ t = page.active
        /\ sends[t].pc = "posted" => sends[t].message.for = {pending[t]} \ {None}
        /\ sends[t].pc = "thread" /\ ordered => bundle.todos = todos[t]

NothingStrays ==
    ordered /\ (\A t \in Threads : sends[t] = None \/ sends[t].pc = "thread") => strays = {}

(* Nothing is on its way that would change the panel, and the active thread is
   not being forgotten.                                                       *)
Shown ==
    /\ page.mounted /\ page.active # None /\ loads = {} /\ Idle
    /\ deleting # None => deleting.thread # page.active \/ deleting.pc = "registry"

PanelIsTrue ==
    Shown => /\ bundle.pending = pending[page.active]
             /\ ordered => bundle.todos = todos[page.active]

Waited == LoadIsTrue /\ DeletesOwn /\ SendIsTrue /\ NothingStrays /\ PanelIsTrue

PageInv == ServerTypes /\ PageTypes /\ TurnsAreSent /\ TabsFollow /\ (calm => Waited)
-----------------------------------------------------------------------------
(* Where the ids of a sequence are distinct, the first occurrence is the only one. *)
LEMMA FirstIsOnly ==
    ASSUME NEW S, NEW s \in Seq(S), IsInjective(s), NEW i \in 1 .. Len(s)
    PROVE  RemoveFirst(s, s[i]) = RemoveAt(s, i)
<1>1. {j \in 1 .. Len(s) : s[j] = s[i]} = {i}
  BY DEF IsInjective
<1>2. Min({i}) = i
  BY DEF Min
<1>3. \E j \in 1 .. Len(s) : s[j] = s[i]
  OBVIOUS
<1> QED
  BY <1>1, <1>2, <1>3 DEF RemoveFirst, SelectInSeq

(* What the two halves around a place hold. *)
LEMMA Gap ==
    ASSUME NEW S, NEW s \in Seq(S), NEW i \in 1 .. Len(s)
    PROVE  /\ RemoveAt(s, i) \in Seq(S) /\ Len(RemoveAt(s, i)) = Len(s) - 1
           /\ \A j \in 1 .. Len(s) - 1 : RemoveAt(s, i)[j] = IF j < i THEN s[j] ELSE s[j + 1]
<1> DEFINE r == RemoveAt(s, i)
           a == SubSeq(s, 1, i - 1)
           b == SubSeq(s, i + 1, Len(s))
           n == Len(s)
<1>1. n \in Nat /\ i \in 1 .. n
  OBVIOUS
<1>2. a \in Seq(S) /\ Len(a) = i - 1
  OBVIOUS
<1>3. \A j \in 1 .. i - 1 : a[j] = s[j]
  OBVIOUS
<1>4. b \in Seq(S) /\ Len(b) = n - i
  OBVIOUS
<1>5. \A j \in 1 .. n - i : b[j] = s[i + j]
  OBVIOUS
<1>6. r = a \o b
  BY DEF RemoveAt
<1> HIDE DEF a, b, n, r
<1>7. a \in Seq(S) /\ b \in Seq(S)
  BY <1>2, <1>4
<1>8. a \o b \in Seq(S) /\ Len(a \o b) = Len(a) + Len(b)
  BY <1>7
<1>9. r \in Seq(S) /\ Len(r) = (i - 1) + (n - i)
  BY <1>2, <1>4, <1>6, <1>8
<1>10. (i - 1) + (n - i) = n - 1
  BY <1>1
<1>11. Len(r) = n - 1
  BY <1>9, <1>10
<1>12. \A j \in 1 .. Len(a) + Len(b) : (a \o b)[j] = IF j <= Len(a) THEN a[j] ELSE b[j - Len(a)]
  BY <1>7
<1>13. ASSUME NEW j \in 1 .. n - 1
       PROVE  r[j] = IF j < i THEN s[j] ELSE s[j + 1]
  <2>1. (i - 1) + (n - i) = n - 1
    BY <1>1
  <2>2. r[j] = IF j <= i - 1 THEN a[j] ELSE b[j - (i - 1)]
    BY <1>2, <1>4, <1>6, <1>12, <2>1
  <2>3. CASE j < i
    <3>1. j \in 1 .. i - 1 /\ j <= i - 1
      BY <1>1, <2>3
    <3> QED
      BY <3>1, <2>2, <2>3, <1>3
  <2>4. CASE ~(j < i)
    <3>1. j - (i - 1) \in 1 .. n - i /\ i + (j - (i - 1)) = j + 1 /\ ~(j <= i - 1)
      BY <1>1, <2>4
    <3>2. b[j - (i - 1)] = s[j + 1]
      BY <3>1, <1>5
    <3> QED
      BY <3>1, <3>2, <2>2, <2>4
  <2> QED
    BY <2>3, <2>4
<1> QED
  BY <1>9, <1>11, <1>13 DEF n, r

(* Removing an id leaves the others, each once. *)
LEMMA Removed ==
    ASSUME NEW S, NEW s \in Seq(S), IsInjective(s), NEW e, NEW r, r = RemoveFirst(s, e)
    PROVE  r \in Seq(S) /\ IsInjective(r) /\ Range(r) = Range(s) \ {e}
<1>1. CASE \E i \in 1 .. Len(s) : s[i] = e
  <2>1. PICK i \in 1 .. Len(s) : s[i] = e
    BY <1>1
  <2>2. r = RemoveAt(s, i)
    BY <2>1, FirstIsOnly
  <2>3. /\ r \in Seq(S) /\ Len(r) = Len(s) - 1
        /\ \A j \in 1 .. Len(r) : r[j] = IF j < i THEN s[j] ELSE s[j + 1]
    BY <2>2, Gap
  <2> DEFINE from(j) == IF j < i THEN j ELSE j + 1
  <2>4. \A j \in 1 .. Len(r) : from(j) \in 1 .. Len(s) \ {i} /\ r[j] = s[from(j)]
    BY <2>3
  <2>5. \A j, k \in 1 .. Len(r) : from(j) = from(k) => j = k
    BY <2>3
  <2>6. DOMAIN s = 1 .. Len(s) /\ DOMAIN r = 1 .. Len(r)
    BY <2>3
  <2> HIDE DEF from
  <2>7. IsInjective(r)
    BY <2>4, <2>5, <2>6 DEF IsInjective
  <2>8. \A j \in 1 .. Len(r) : r[j] \in Range(s) \ {e}
    BY <2>1, <2>4, <2>6 DEF IsInjective, Range
  <2>9. \A k \in 1 .. Len(s) : s[k] # e => \E j \in 1 .. Len(r) : r[j] = s[k]
    <3>1. SUFFICES ASSUME NEW k \in 1 .. Len(s), s[k] # e
                   PROVE  \E j \in 1 .. Len(r) : r[j] = s[k]
      OBVIOUS
    <3>2. CASE k < i
      BY <3>2, <2>3
    <3>3. CASE k > i
      <4>1. k - 1 \in 1 .. Len(r) /\ r[k - 1] = s[k]
        BY <3>3, <2>3
      <4> QED
        BY <4>1
    <3> QED
      BY <3>1, <3>2, <3>3, <2>1
  <2> QED
    <3>1. \A x \in Range(r) : x \in Range(s) \ {e}
      BY <2>6, <2>8 DEF Range
    <3>2. \A x \in Range(s) \ {e} : x \in Range(r)
      BY <2>6, <2>9 DEF Range
    <3> QED
      BY <3>1, <3>2, <2>3, <2>7
<1>2. CASE ~ \E i \in 1 .. Len(s) : s[i] = e
  <2>1. r = s
    BY <1>2 DEF RemoveFirst
  <2> QED
    BY <2>1, <1>2 DEF Range
<1> QED
  BY <1>1, <1>2

(* A new id comes in front, and the others are behind it. *)
LEMMA Fronted ==
    ASSUME NEW S, NEW s \in Seq(S), IsInjective(s), NEW u \in S, u \notin Range(s)
    PROVE  /\ <<u>> \o s \in Seq(S) /\ IsInjective(<<u>> \o s)
           /\ Range(<<u>> \o s) = Range(s) \cup {u}
<1>1. /\ <<u>> \o s \in Seq(S) /\ Len(<<u>> \o s) = Len(s) + 1
      /\ \A j \in 1 .. Len(s) + 1 : (<<u>> \o s)[j] = IF j = 1 THEN u ELSE s[j - 1]
  OBVIOUS
<1>2. IsInjective(<<u>> \o s)
  BY <1>1 DEF IsInjective, Range
<1>3. \A j \in 1 .. Len(s) : j + 1 \in 1 .. Len(s) + 1 /\ (<<u>> \o s)[j + 1] = s[j]
  BY <1>1
<1>4. Range(<<u>> \o s) = Range(s) \cup {u}
  <2>1. \A x \in Range(<<u>> \o s) : x \in Range(s) \cup {u}
    BY <1>1 DEF Range
  <2>2. u \in Range(<<u>> \o s)
    BY <1>1 DEF Range
  <2>3. \A x \in Range(s) : x \in Range(<<u>> \o s)
    <3>1. \A j \in DOMAIN s : j + 1 \in DOMAIN (<<u>> \o s) /\ (<<u>> \o s)[j + 1] = s[j]
      BY <1>1, <1>3
    <3> QED
      BY <3>1 DEF Range
  <2> QED
    BY <2>1, <2>2, <2>3
<1> QED
  BY <1>1, <1>2, <1>4

(* A deletion removes the same whether a new thread has come in front or not. *)
LEMMA RemovedBehind ==
    ASSUME NEW S, NEW s \in Seq(S), IsInjective(s), NEW u \in S, u \notin Range(s),
           NEW e \in Range(s)
    PROVE  RemoveFirst(<<u>> \o s, e) = <<u>> \o RemoveFirst(s, e)
<1> DEFINE f == <<u>> \o s
<1>1. PICK i \in 1 .. Len(s) : s[i] = e
  BY DEF Range
<1>2. f \in Seq(S) /\ IsInjective(f) /\ Len(f) = Len(s) + 1
  BY Fronted
<1>3. i + 1 \in 1 .. Len(f) /\ f[i + 1] = e
  BY <1>1, <1>2
<1> DEFINE r == RemoveFirst(s, e)
           g == RemoveFirst(f, e)
<1>4. g = RemoveAt(f, i + 1)
  <2> HIDE DEF f
  <2> QED
    BY <1>2, <1>3, FirstIsOnly
<1>5. r = RemoveAt(s, i)
  BY <1>1, FirstIsOnly
<1>6. /\ g \in Seq(S) /\ Len(g) = Len(f) - 1
      /\ \A j \in 1 .. Len(f) - 1 : g[j] = IF j < i + 1 THEN f[j] ELSE f[j + 1]
  <2> HIDE DEF f, g
  <2> QED
    BY <1>2, <1>3, <1>4, Gap
<1>7. /\ r \in Seq(S) /\ Len(r) = Len(s) - 1
      /\ \A j \in 1 .. Len(s) - 1 : r[j] = IF j < i THEN s[j] ELSE s[j + 1]
  <2> HIDE DEF r
  <2> QED
    BY <1>1, <1>5, Gap
<1>8. \A j \in 1 .. Len(f) : f[j] = IF j = 1 THEN u ELSE s[j - 1]
  OBVIOUS
<1> HIDE DEF f, g, r
<1> DEFINE h == <<u>> \o r
           n == Len(s)
<1>9. h \in Seq(S) /\ Len(h) = Len(r) + 1
  BY <1>7
<1>10. \A j \in 1 .. Len(r) + 1 : h[j] = IF j = 1 THEN u ELSE r[j - 1]
  BY <1>7
<1>11. n \in Nat /\ i \in 1 .. n /\ Len(f) = n + 1 /\ Len(g) = n /\ Len(r) = n - 1
  BY <1>1, <1>2, <1>6, <1>7
<1> HIDE DEF h, n
<1>12. Len(h) = n
  BY <1>9, <1>11
<1>13. ASSUME NEW j \in 1 .. n
       PROVE  g[j] = h[j]
  <2>1. g[j] = IF j < i + 1 THEN f[j] ELSE f[j + 1]
    BY <1>6, <1>11
  <2>2. f[j] = (IF j = 1 THEN u ELSE s[j - 1]) /\ f[j + 1] = s[j]
    BY <1>8, <1>11
  <2>3. h[j] = IF j = 1 THEN u ELSE r[j - 1]
    BY <1>10, <1>11
  <2>4. CASE j = 1
    BY <2>1, <2>2, <2>3, <2>4, <1>11
  <2>5. CASE j # 1
    <3>1. j - 1 \in 1 .. n - 1 /\ (j - 1) + 1 = j
      BY <2>5, <1>11
    <3>2. r[j - 1] = IF j - 1 < i THEN s[j - 1] ELSE s[j]
      BY <3>1, <1>7 DEF n
    <3> QED
      BY <3>2, <2>1, <2>2, <2>3, <2>5, <1>11
  <2> QED
    BY <2>4, <2>5
<1>14. g = h
  BY <1>6, <1>9, <1>11, <1>12, <1>13
<1> QED
  BY <1>14 DEF f, g, h, r
-----------------------------------------------------------------------------
LEMMA NoneIsNothing ==
    /\ \A n \in Nat : n # None
    /\ \A t \in Threads : t # None
    /\ \A s \in SendType : s # None
    /\ \A d \in DeleteType : d # None
  BY PageAssumption

LEMMA MessageIsTyped ==
    ASSUME bundle.pending \in Nat \cup {None}
    PROVE  Message \in MessageType /\ Message.for = {bundle.pending} \ {None}
  BY NoneIsNothing DEF Message, MessageType, ResumeMap, UserText

(* The page begins with nothing, before what earlier sessions have left. *)
LEMMA PageInitInv == PageInit => PageInv
<1> SUFFICES ASSUME PageInit PROVE PageInv
  OBVIOUS
<1>1. PICK earlier \in Earlier : ServerInit(earlier)
  BY DEF PageInit
<1>2. /\ earlier.registry \in Seq(Threads) /\ IsInjective(earlier.registry)
      /\ earlier.pending \in [Threads -> Nat \cup {None}]
      /\ \A t \in Threads : Len(earlier.log[t]) \in Nat
  BY PageAssumption
<1>3. ServerTypes
  <2>1. \A t \in Threads : turn[t] = [NoTurn EXCEPT !.run = Len(log[t]), !.at = Len(log[t])]
    BY <1>1 DEF ServerInit
  <2> QED
    BY <1>1, <1>2, <2>1 DEF ServerInit, ServerTypes, NoTurn
<1>4. \A t \in Threads : turn[t].pc = "none" /\ sends[t] = None
  BY <1>1 DEF PageInit, ServerInit, NoTurn
<1>5. PageTypes
  <2>1. <<>> \in Seq(Threads) /\ IsInjective(<<>>)
    BY DEF IsInjective
  <2>2. page \in [threads : Seq(Threads), active : Threads \cup {None},
                  sending : BOOLEAN, mounted : BOOLEAN]
    BY <2>1 DEF PageInit
  <2> QED
    BY <2>1, <2>2 DEF PageInit, PageTypes, EmptyBundle
<1>6. TurnsAreSent /\ TabsFollow
  BY <1>4 DEF PageInit, TurnsAreSent, TabsFollow, Idle
<1>7. Waited
  BY <1>4 DEF PageInit, Waited, LoadIsTrue, DeletesOwn, SendIsTrue, NothingStrays,
              PanelIsTrue, Shown, Idle
<1> QED
  BY <1>3, <1>5, <1>6, <1>7 DEF PageInv
-----------------------------------------------------------------------------
(* A turn that runs, or is cut off, or fails, concerns its own thread alone. *)
LEMMA ServerEffect ==
    ASSUME ServerTypes, NEW t \in Threads,
           \/ ServerStep(t) \/ Fails(t) \/ Cut(t)
           \/ \E s \in Scripts : Speak(t, s)
    PROVE  /\ ServerTypes' /\ UNCHANGED registry /\ turn[t].pc # "none"
           /\ \A u \in Threads \ {t} : UNCHANGED <<turn[u], pending[u], todos[u]>>
<1> DEFINE Goal == /\ ServerTypes' /\ UNCHANGED registry /\ turn[t].pc # "none"
                   /\ \A u \in Threads \ {t} : UNCHANGED <<turn[u], pending[u], todos[u]>>
<1>1. /\ turn = [u \in Threads |-> turn[u]]
      /\ \A u \in Threads : DOMAIN turn[u] = DOMAIN NoTurn /\ turn[u].at \in Nat
      /\ DOMAIN NoTurn = {"pc", "run", "at", "ids", "said", "rest", "answer", "out"}
  BY DEF ServerTypes, NoTurn
<1>2. CASE \E s \in Scripts : Speak(t, s)
  <2>1. PICK now : /\ Says(t, now) /\ turn[t].pc = "agent"
                   /\ DOMAIN now = DOMAIN NoTurn /\ now.at = turn[t].at + 1
    <3>1. PICK s \in Scripts : Speak(t, s)
      BY <1>2
    <3>2. PICK rest : Says(t, [turn[t] EXCEPT !.pc = "saying", !.at = turn[t].at + 1,
                                              !.said = Blank(turn[t].at + 1), !.rest = rest])
      BY <3>1 DEF Speak
    <3>3. turn[t].pc = "agent"
      BY <3>1 DEF Speak
    <3> DEFINE now == [turn[t] EXCEPT !.pc = "saying", !.at = turn[t].at + 1,
                                      !.said = Blank(turn[t].at + 1), !.rest = rest]
    <3>4. DOMAIN now = DOMAIN NoTurn /\ now.at = turn[t].at + 1
      BY <1>1
    <3>5. Says(t, now)
      BY <3>2
    <3> HIDE DEF now
    <3> QED
      BY <3>3, <3>4, <3>5
  <2>2. now.at \in Nat
    BY <2>1, <1>1
  <2> QED
    BY <1>1, <2>1, <2>2 DEF Says, ServerTypes
<1>3. CASE ChunkArrives(t)
  BY <1>1, <1>3 DEF ChunkArrives, Says, ServerTypes
<1>4. CASE MessageCommits(t)
  BY <1>1, <1>4 DEF MessageCommits, ServerTypes
<1>5. CASE ToolPrints(t)
  BY <1>1, <1>5 DEF ToolPrints, ServerTypes
<1>6. CASE ToolsEnd(t)
  <2> DEFINE asks == Named(t, "Ask") # {} /\ turn[t].answer = None
  <2>1. CASE asks
    <3>1. /\ turn' = [turn EXCEPT ![t].pc = "closed"]
          /\ pending' = [pending EXCEPT ![t] = turn[t].at]
          /\ UNCHANGED <<registry, todos>> /\ turn[t].pc = "tools"
      BY <1>6, <2>1 DEF ToolsEnd
    <3> QED
      BY <3>1, <1>1 DEF ServerTypes
  <2>2. CASE ~asks
    <3>1. /\ turn' = [turn EXCEPT ![t].pc = "agent", ![t].answer = None]
          /\ pending' = [pending EXCEPT ![t] = None]
          /\ \E n \in {turn[t].at, todos[t]} : todos' = [todos EXCEPT ![t] = n]
          /\ UNCHANGED registry /\ turn[t].pc = "tools"
      BY <1>6, <2>2 DEF ToolsEnd
    <3> QED
      BY <3>1, <1>1 DEF ServerTypes
  <2> QED
    BY <2>1, <2>2
<1>7. CASE Fails(t)
  BY <1>1, <1>7 DEF Fails, ServerTypes
<1>8. CASE Cut(t)
  <2>1. /\ turn' = [turn EXCEPT ![t].pc = "cut", ![t].at = @ + 1]
        /\ pending' = [pending EXCEPT ![t] = None]
        /\ UNCHANGED <<registry, todos>> /\ turn[t].pc # "none"
    BY <1>8 DEF Cut
  <2>2. turn' = [u \in Threads |-> turn'[u]] /\ \A u \in Threads \ {t} : turn'[u] = turn[u]
    BY <2>1, <1>1
  <2>3. DOMAIN turn'[t] = DOMAIN NoTurn /\ turn'[t].at = turn[t].at + 1
    BY <2>1, <1>1
  <2> QED
    BY <2>1, <2>2, <2>3, <1>1 DEF ServerTypes
<1> QED
  BY <1>2, <1>3, <1>4, <1>5, <1>6, <1>7, <1>8 DEF ServerStep, Refuses

(* A turn begins on a thread at rest. *)
LEMMA BeginEffect ==
    ASSUME ServerTypes, NEW t \in Threads, NEW message, Begin(t, message)
    PROVE  /\ ServerTypes' /\ UNCHANGED <<registry, pending, todos>>
           /\ turn[t].pc = "none"
           /\ \A u \in Threads \ {t} : turn'[u] = turn[u]
  BY DEF Begin, ServerTypes, NoTurn
-----------------------------------------------------------------------------
(* What happens at the server alone, wanted or not. *)
RunMoves(t) ==
    /\ \/ ServerStep(t) \/ Fails(t) \/ Cut(t)
       \/ \E s \in Scripts : Speak(t, s)
    /\ UNCHANGED <<pageVars, calm, ordered>>

LEMMA Steps ==
    ASSUME PageTypes, PageNext
    PROVE  \/ Mount \/ DeleteUnregisters \/ DeleteForgets \/ DeleteApplies \/ Send
           \/ \E l \in loads : LoadThread(l) \/ LoadState(l) \/ LoadApplies(l)
           \/ \E s \in strays : StrayAnswers(s) \/ StrayApplies(s)
           \/ \E t \in Threads : \/ RunMoves(t) \/ SendMoves(t) \/ PostFails(t)
                                 \/ Select(t) \/ Create(t) \/ Delete(t)
<1>1. Interrupt => \E t \in Threads : RunMoves(t)
  BY DEF Interrupt, RunMoves, PageTypes
<1>2. \A t \in Threads : ServerMoves(t) \/ (Fails(t) /\ Trouble /\ UNCHANGED <<pageVars, calm, ordered>>)
                           => RunMoves(t)
  BY DEF ServerMoves, RunMoves
<1> QED
  BY <1>1, <1>2 DEF PageNext, PageMoves

LEMMA RunEffect ==
    ASSUME ServerTypes, NEW t \in Threads, RunMoves(t)
    PROVE  /\ ServerTypes' /\ UNCHANGED registry /\ turn[t].pc # "none"
           /\ \A u \in Threads \ {t} : UNCHANGED <<turn[u], pending[u], todos[u]>>
           /\ UNCHANGED <<page, bundle, sends, strays, loads, deleting, calm, ordered>>
  BY ServerEffect DEF RunMoves, pageVars

LEMMA FreshIsNew ==
    ASSUME NEW t \in Fresh
    PROVE  /\ t \in Threads /\ t \notin Range(registry) /\ t \notin Range(page.threads)
           /\ \A l \in loads : l.thread # t
  BY DEF Fresh

LEMMA ServerTypesStep ==
    ASSUME PageInv, [PageNext]_vars
    PROVE  ServerTypes'
<1> USE DEF serverVars, pageVars
<1>1. ServerTypes /\ PageTypes
  BY DEF PageInv
<1>2. CASE UNCHANGED serverVars
  BY <1>1, <1>2 DEF ServerTypes
<1>3. ASSUME NEW t \in Fresh, Register(t), UNCHANGED <<pending, todos, turn>>
      PROVE  ServerTypes'
  <2>1. registry' \in Seq(Threads) /\ IsInjective(registry')
    BY <1>1, <1>3, FreshIsNew, Fronted DEF ServerTypes, Register
  <2> QED
    BY <1>1, <1>3, <2>1 DEF ServerTypes
<1>4. CASE Mount
  BY <1>2, <1>3, <1>4, <1>1 DEF Mount, ServerTypes
<1>5. CASE DeleteUnregisters
  <2>1. registry' \in Seq(Threads) /\ IsInjective(registry')
    BY <1>1, <1>5, Removed DEF DeleteUnregisters, Unregister, ServerTypes
  <2> QED
    BY <1>1, <1>5, <2>1 DEF DeleteUnregisters, ServerTypes
<1>6. CASE DeleteForgets
  BY <1>1, <1>6 DEF DeleteForgets, Forget, ServerTypes
<1>7. ASSUME NEW t \in Threads, RunMoves(t) PROVE ServerTypes'
  BY <1>1, <1>7, RunEffect
<1>8. ASSUME NEW t \in Threads, Posts(t) PROVE ServerTypes'
  BY <1>1, <1>8, BeginEffect DEF Posts
<1>9. ASSUME NEW t \in Threads, turn' = [turn EXCEPT ![t].pc = "none"],
             UNCHANGED <<registry, pending, todos>>
      PROVE  ServerTypes'
  BY <1>1, <1>9 DEF ServerTypes, NoTurn
<1>10. ASSUME NEW t \in Threads, StreamBreaks(t) \/ StreamEnds(t) PROVE ServerTypes'
  BY <1>9, <1>10 DEF StreamBreaks, StreamEnds, GivesUp
<1>11. ASSUME NEW t \in Threads, Create(t) PROVE ServerTypes'
  BY <1>3, <1>11 DEF Create
<1>12. ASSUME NEW t \in Threads, Receives(t) \/ PostFails(t) PROVE ServerTypes'
  BY <1>1, <1>12 DEF Receives, PostFails, GivesUp, ServerTypes
<1>13. DeleteApplies \/ Send => UNCHANGED serverVars
  BY DEF DeleteApplies, Send
<1>14. \A l \in loads : LoadThread(l) \/ LoadState(l) \/ LoadApplies(l) => UNCHANGED serverVars
  BY DEF LoadThread, LoadState, LoadApplies
<1>15. \A s \in strays : StrayAnswers(s) \/ StrayApplies(s) => UNCHANGED serverVars
  BY DEF StrayAnswers, StrayApplies
<1>16. \A t \in Threads : FinalRefresh(t) \/ FinishSend(t) \/ Select(t) \/ Delete(t) => UNCHANGED serverVars
  BY DEF FinalRefresh, FinishSend, Select, Delete
<1>17. UNCHANGED vars => UNCHANGED serverVars
  BY DEF vars
<1> QED
  BY <1>1, <1>2, <1>4, <1>5, <1>6, <1>7, <1>8, <1>10, <1>11, <1>12, <1>13, <1>14, <1>15, <1>16,
     <1>17, Steps DEF SendMoves

LEMMA SendIsTyped ==
    ASSUME NEW s \in SendType
    PROVE  /\ \A pc \in {"stream", "refresh", "thread"} : [s EXCEPT !.pc = pc] \in SendType
           /\ \A cut, refetch \in BOOLEAN :
                 [s EXCEPT !.cut = cut, !.refetch = refetch] \in SendType
           /\ s.pc \in {"posted", "stream", "refresh", "thread"}
           /\ s.cut \in BOOLEAN /\ s.refetch \in BOOLEAN
  BY DEF SendType

LEMMA PageTypesStep ==
    ASSUME PageInv, [PageNext]_vars
    PROVE  PageTypes'
<1> USE DEF serverVars, pageVars
<1>1. ServerTypes /\ PageTypes
  BY DEF PageInv
<1>2. ASSUME UNCHANGED <<page, bundle, sends, deleting, loads, calm, ordered>> PROVE PageTypes'
  BY <1>1, <1>2 DEF PageTypes
<1>3. ASSUME NEW t \in Threads \cup {None}, NEW threads \in Seq(Threads), IsInjective(threads),
             Activates(t, threads)
      PROVE  /\ page' \in [threads : Seq(Threads), active : Threads \cup {None},
                            sending : BOOLEAN, mounted : BOOLEAN]
             /\ IsInjective(page'.threads)
             /\ \A l \in loads' :
                   /\ l = [thread |-> l.thread, n |-> l.n, log |-> l.log, pending |-> l.pending,
                           todos |-> l.todos]
                   /\ l.thread \in Threads /\ l.pending \in Nat \cup {None}
  <2>1. page'.threads = threads /\ page' \in [threads : Seq(Threads), active : Threads \cup {None},
                                              sending : BOOLEAN, mounted : BOOLEAN]
    BY <1>1, <1>3 DEF Activates, PageTypes
  <2>2. \A l \in LoadOf(t) :
           /\ l = [thread |-> l.thread, n |-> l.n, log |-> l.log, pending |-> l.pending,
                   todos |-> l.todos]
           /\ l.thread \in Threads /\ l.pending \in Nat \cup {None}
    BY DEF LoadOf
  <2> QED
    BY <1>1, <1>3, <2>1, <2>2 DEF Activates, PageTypes
<1>4. CASE Mount
  <2>1. CASE registry # <<>>
    <3>1. registry[1] \in Threads
      BY <1>1, <2>1 DEF ServerTypes
    <3>2. Activates(registry[1], registry) /\ UNCHANGED <<bundle, sends, deleting, calm, ordered>>
      BY <1>4, <2>1 DEF Mount
    <3>3. registry \in Seq(Threads) /\ IsInjective(registry)
      BY <1>1 DEF ServerTypes
    <3> QED
      BY <1>1, <1>3, <3>1, <3>2, <3>3 DEF PageTypes
  <2>2. CASE registry = <<>>
    <3>1. PICK t \in Fresh : Activates(t, <<t>>)
      BY <1>4, <2>2 DEF Mount
    <3>2. t \in Threads /\ <<t>> \in Seq(Threads) /\ IsInjective(<<t>>)
      BY FreshIsNew DEF IsInjective
    <3> QED
      BY <1>1, <1>3, <1>4, <3>1, <3>2 DEF Mount, PageTypes
  <2> QED
    BY <2>1, <2>2
<1>5. CASE DeleteUnregisters \/ DeleteForgets
  <2>1. deleting' \in DeleteType
    BY <1>1, <1>5, NoneIsNothing DEF DeleteUnregisters, DeleteForgets, PageTypes, DeleteType
  <2> QED
    BY <1>1, <1>5, <2>1 DEF DeleteUnregisters, DeleteForgets, PageTypes
<1>6. CASE DeleteApplies
  <2> DEFINE next == RemoveFirst(page.threads, deleting.thread)
             moves == deleting.thread = deleting.active /\ Fallback(next) # page.active
  <2>1. next \in Seq(Threads) /\ IsInjective(next)
    BY <1>1, Removed DEF PageTypes
  <2>2. Fallback(next) \in Threads \cup {None}
    BY <2>1 DEF Fallback
  <2> HIDE DEF next
  <2>3. CASE moves
    <3>1. /\ Activates(Fallback(next), next)
          /\ bundle' = IF Fallback(next) = None THEN EmptyBundle ELSE bundle
          /\ UNCHANGED <<sends, calm>> /\ deleting' = None /\ ordered' = (ordered /\ strays = {})
      BY <1>6, <2>3 DEF DeleteApplies, next
    <3> QED
      BY <1>1, <1>3, <2>1, <2>2, <3>1 DEF PageTypes, EmptyBundle
  <2>4. CASE ~moves
    <3>1. /\ page' = [page EXCEPT !.threads = next]
          /\ UNCHANGED <<bundle, loads, sends, calm>>
          /\ deleting' = None /\ ordered' = (ordered /\ strays = {})
      BY <1>6, <2>4 DEF DeleteApplies, next
    <3> QED
      BY <1>1, <2>1, <3>1 DEF PageTypes
  <2> QED
    BY <2>3, <2>4
<1>7. CASE Send
  <2>1. Message \in MessageType
    BY <1>1, MessageIsTyped DEF PageTypes
  <2>2. PICK e : bundle' = [bundle EXCEPT !.pending = None, !.events = e]
    BY <1>7 DEF Send
  <2>3. bundle' = [events |-> bundle'.events, todos |-> bundle'.todos, pending |-> bundle'.pending]
        /\ bundle'.pending = None
    BY <1>1, <2>2 DEF PageTypes
  <2>4. [pc |-> "posted", message |-> Message, cut |-> FALSE, refetch |-> FALSE] \in SendType
    BY <2>1 DEF SendType
  <2>5. sends' \in [Threads -> SendType \cup {None}]
    BY <1>1, <1>7, <2>4 DEF Send, PageTypes
  <2>6. page' \in [threads : Seq(Threads), active : Threads \cup {None},
                   sending : BOOLEAN, mounted : BOOLEAN] /\ page'.threads = page.threads
    BY <1>1, <1>7 DEF Send, PageTypes
  <2>7. calm' \in BOOLEAN /\ UNCHANGED <<loads, deleting, ordered>>
    BY <1>1, <1>7 DEF Send, PageTypes
  <2> QED
    BY <1>1, <2>3, <2>5, <2>6, <2>7 DEF PageTypes
<1>8. ASSUME NEW l \in loads, LoadThread(l) \/ LoadState(l) PROVE PageTypes'
  <2>1. pending[l.thread] \in Nat \cup {None}
    BY <1>1 DEF ServerTypes, PageTypes
  <2>2. PICK k : /\ loads' = (loads \ {l}) \cup {k}
                 /\ \/ k = [l EXCEPT !.log = log[l.thread], !.pending = pending[l.thread]]
                    \/ k = [l EXCEPT !.todos = todos[l.thread]]
    BY <1>8 DEF LoadThread, LoadState
  <2>3. l = [thread |-> l.thread, n |-> l.n, log |-> l.log, pending |-> l.pending, todos |-> l.todos]
        /\ l.thread \in Threads /\ l.pending \in Nat \cup {None}
    BY <1>1 DEF PageTypes
  <2>4. k = [thread |-> k.thread, n |-> k.n, log |-> k.log, pending |-> k.pending, todos |-> k.todos]
        /\ k.thread \in Threads /\ k.pending \in Nat \cup {None}
    BY <2>1, <2>2, <2>3
  <2>5. UNCHANGED <<page, bundle, sends, deleting, calm, ordered>>
    BY <1>8 DEF LoadThread, LoadState
  <2> QED
    BY <1>1, <2>2, <2>4, <2>5 DEF PageTypes
<1>9. ASSUME NEW l \in loads, LoadApplies(l) PROVE PageTypes'
  BY <1>1, <1>9 DEF LoadApplies, PageTypes
<1>10. ASSUME NEW s \in strays, StrayAnswers(s) \/ StrayApplies(s) PROVE PageTypes'
  BY <1>1, <1>10 DEF StrayAnswers, StrayApplies, PageTypes
<1>11. ASSUME NEW t \in Threads, RunMoves(t) PROVE PageTypes'
  BY <1>2, <1>1, <1>11, RunEffect
<1>12. ASSUME NEW t \in Threads, NEW s \in SendType \cup {None}, sends' = [sends EXCEPT ![t] = s],
              UNCHANGED <<deleting, loads, calm>>, UNCHANGED page \/ page' = [page EXCEPT !.sending = FALSE],
              ordered' \in BOOLEAN,
              bundle' = [events |-> bundle'.events, todos |-> bundle'.todos, pending |-> bundle'.pending],
              bundle'.pending \in Nat \cup {None}
       PROVE  PageTypes'
  BY <1>1, <1>12 DEF PageTypes
<1>13. ASSUME NEW t \in Threads, SendMoves(t) \/ PostFails(t) PROVE PageTypes'
  <2>1. sends[t] # None => sends[t] \in SendType
    BY <1>1 DEF PageTypes
  <2>2. CASE Posts(t)
    BY <1>1, <1>12, <2>1, <2>2, SendIsTyped DEF Posts, PageTypes
  <2>3. CASE StreamBreaks(t) \/ PostFails(t)
    BY <1>1, <2>3 DEF StreamBreaks, PostFails, GivesUp, PageTypes
  <2>4. CASE Receives(t)
    <3>1. PICK e : bundle' = [bundle EXCEPT !.events = e]
      BY <2>4 DEF Receives
    <3>2. PICK cut \in BOOLEAN, refetch \in BOOLEAN :
             sends' = [sends EXCEPT ![t].cut = cut, ![t].refetch = refetch]
      BY <2>1, <2>4, SendIsTyped DEF Receives, Mutates, Resumes
    <3>3. sends' = [sends EXCEPT ![t] = [sends[t] EXCEPT !.cut = cut, !.refetch = refetch]]
      BY <1>1, <3>2 DEF PageTypes
    <3>4. [sends[t] EXCEPT !.cut = cut, !.refetch = refetch] \in SendType
      BY <2>1, <2>4, SendIsTyped DEF Receives
    <3>5. bundle' = [events |-> bundle'.events, todos |-> bundle'.todos, pending |-> bundle'.pending]
          /\ bundle'.pending \in Nat \cup {None}
      BY <1>1, <3>1 DEF PageTypes
    <3>6. UNCHANGED <<page, deleting, loads, calm, ordered>> /\ ordered \in BOOLEAN
      BY <1>1, <2>4 DEF Receives, PageTypes
    <3> QED
      BY <1>12, <3>3, <3>4, <3>5, <3>6
  <2>5. CASE StreamEnds(t)
    BY <1>1, <1>12, <2>1, <2>5, SendIsTyped DEF StreamEnds, PageTypes
  <2>6. CASE FinalRefresh(t)
    BY <1>1, <1>12, <2>1, <2>6, SendIsTyped DEF FinalRefresh, PageTypes
  <2>7. CASE FinishSend(t)
    <3>1. PICK e : bundle' = [bundle EXCEPT !.events = e, !.pending = pending[t]]
      BY <2>7 DEF FinishSend
    <3>2. pending[t] \in Nat \cup {None}
      BY <1>1 DEF ServerTypes
    <3> QED
      BY <1>1, <2>7, <3>1, <3>2 DEF FinishSend, PageTypes
  <2> QED
    BY <1>13, <2>2, <2>3, <2>4, <2>5, <2>6, <2>7 DEF SendMoves
<1>14. ASSUME NEW t \in Threads, Select(t) PROVE PageTypes'
  <2>1. page.threads \in Seq(Threads) /\ IsInjective(page.threads)
    BY <1>1 DEF PageTypes
  <2>2. Activates(t, page.threads) /\ UNCHANGED <<bundle, sends, deleting>>
        /\ calm' \in BOOLEAN /\ ordered' \in BOOLEAN
    BY <1>14 DEF Select, Settled
  <2> QED
    BY <1>1, <1>3, <2>1, <2>2 DEF PageTypes
<1>15. ASSUME NEW t \in Threads, Create(t) PROVE PageTypes'
  <2> DEFINE threads == <<t>> \o page.threads
  <2>1. threads \in Seq(Threads) /\ IsInjective(threads)
    BY <1>1, <1>15, FreshIsNew, Fronted DEF PageTypes, Create
  <2>2. Activates(t, threads) /\ bundle' = EmptyBundle /\ UNCHANGED <<sends, deleting>>
        /\ calm' \in BOOLEAN /\ ordered' \in BOOLEAN
    BY <1>15 DEF Create, Settled
  <2> HIDE DEF threads
  <2> QED
    BY <1>1, <1>3, <2>1, <2>2 DEF PageTypes, EmptyBundle
<1>16. ASSUME NEW t \in Threads, Delete(t) PROVE PageTypes'
  <2>1. deleting' \in DeleteType
    BY <1>1, <1>16 DEF Delete, DeleteType, PageTypes
  <2> QED
    BY <1>1, <1>16, <2>1 DEF Delete, PageTypes
<1>17. UNCHANGED vars => PageTypes'
  BY <1>2 DEF vars
<1> QED
  BY <1>1, <1>4, <1>5, <1>6, <1>7, <1>8, <1>9, <1>10, <1>11, <1>13, <1>14, <1>15, <1>16, <1>17, Steps
-----------------------------------------------------------------------------
(* Before the page is mounted nothing else can happen. *)
LEMMA MountComesFirst ==
    ASSUME PageInv, PageNext, ~page.mounted
    PROVE  Mount
<1>1. /\ page.threads = <<>> /\ loads = {} /\ strays = {} /\ deleting = None
      /\ \A t \in Threads : sends[t] = None /\ turn[t].pc = "none"
  BY DEF PageInv, TabsFollow, TurnsAreSent, Idle
<1>2. \A t \in Threads : ~RunMoves(t)
  BY <1>1, RunEffect DEF PageInv
<1>3. \A t \in Threads : ~SendMoves(t) /\ ~PostFails(t)
  BY <1>1 DEF SendMoves, PostFails, Posts, StreamBreaks, Receives, StreamEnds, FinalRefresh, FinishSend
<1>4. \A t \in Threads : ~Select(t) /\ ~Create(t) /\ ~Delete(t)
  BY DEF Select, Create, Delete, UserDoes
<1>5. ~DeleteUnregisters /\ ~DeleteForgets /\ ~DeleteApplies
  BY <1>1 DEF DeleteUnregisters, DeleteForgets, DeleteApplies
<1>6. ~Send
  BY DEF Send, UserDoes
<1> QED
  BY <1>1, <1>2, <1>3, <1>4, <1>5, <1>6, Steps DEF PageInv

(* The callback of a stream goes on reading it. *)
LEMMA ReceiveEffect ==
    ASSUME PageTypes, NEW t \in Threads, Receives(t)
    PROVE  sends'[t] # None /\ sends'[t].pc = "stream"
<1>1. /\ sends[t] \in SendType /\ sends[t].pc = "stream" /\ DOMAIN sends = Threads
      /\ DOMAIN sends[t] = {"pc", "message", "cut", "refetch"}
  BY DEF Receives, PageTypes, SendType
<1>2. PICK cut \in BOOLEAN, refetch \in BOOLEAN :
         sends' = [sends EXCEPT ![t].cut = cut, ![t].refetch = refetch]
  BY <1>1, SendIsTyped DEF Receives, Mutates, Resumes
<1>3. sends'[t] = [sends[t] EXCEPT !.cut = cut, !.refetch = refetch]
  BY <1>1, <1>2
<1>4. [sends[t] EXCEPT !.cut = cut, !.refetch = refetch] \in SendType
  BY <1>1, SendIsTyped
<1>5. [sends[t] EXCEPT !.cut = cut, !.refetch = refetch].pc = "stream"
  BY <1>1
<1> QED
  BY <1>3, <1>4, <1>5, NoneIsNothing

(* A send goes through its phases alone. *)
LEMMA SendEffect ==
    ASSUME PageInv, NEW t \in Threads, SendMoves(t) \/ PostFails(t)
    PROVE  /\ sends[t] # None
           /\ \A u \in Threads \ {t} : UNCHANGED <<sends[u], turn[u]>>
           /\ turn'[t].pc # "none" => sends'[t] # None /\ sends'[t].pc = "stream"
           /\ UNCHANGED <<registry, pending, todos, loads, deleting>>
           /\ page'.threads = page.threads /\ page'.active = page.active
           /\ page'.mounted = page.mounted
<1>1. ServerTypes /\ PageTypes /\ TurnsAreSent
  BY DEF PageInv
<1>2. sends[t] # None => sends[t] \in SendType /\ DOMAIN sends[t] = {"pc", "message", "cut", "refetch"}
  BY <1>1 DEF PageTypes, SendType
<1>3. DOMAIN sends = Threads /\ DOMAIN turn = Threads /\ "pc" \in DOMAIN turn[t]
      /\ DOMAIN page = {"threads", "active", "sending", "mounted"}
  BY <1>1 DEF PageTypes, ServerTypes, NoTurn
<1> USE DEF serverVars
<1>4. CASE Posts(t)
  <2>1. [sends[t] EXCEPT !.pc = "stream"] # None
    BY <1>2, <1>4, SendIsTyped, NoneIsNothing DEF Posts
  <2> QED
    BY <1>1, <1>2, <1>3, <1>4, <2>1, BeginEffect DEF Posts
<1>5. CASE StreamBreaks(t)
  BY <1>3, <1>5 DEF StreamBreaks, GivesUp
<1>6. CASE PostFails(t)
  <2>1. turn[t].pc = "none"
    BY <1>1, <1>6 DEF PostFails, TurnsAreSent
  <2> QED
    BY <1>3, <1>6, <2>1 DEF PostFails, GivesUp
<1>7. CASE Receives(t)
  <2>1. sends'[t] # None /\ sends'[t].pc = "stream"
    BY <1>1, <1>7, ReceiveEffect
  <2>2. \A u \in Threads \ {t} : sends'[u] = sends[u]
    BY <1>3, <1>7 DEF Receives
  <2> QED
    BY <1>7, <2>1, <2>2 DEF Receives
<1>8. CASE StreamEnds(t)
  BY <1>3, <1>8 DEF StreamEnds
<1>9. CASE FinalRefresh(t)
  <2>1. turn[t].pc = "none"
    BY <1>1, <1>9 DEF FinalRefresh, TurnsAreSent
  <2> QED
    BY <1>3, <1>9, <2>1 DEF FinalRefresh
<1>10. CASE FinishSend(t)
  <2>1. turn[t].pc = "none"
    BY <1>1, <1>10 DEF FinishSend, TurnsAreSent
  <2> QED
    BY <1>3, <1>10, <2>1 DEF FinishSend
<1> QED
  BY <1>4, <1>5, <1>6, <1>7, <1>8, <1>9, <1>10 DEF SendMoves

LEMMA TurnsAreSentStep ==
    ASSUME PageInv, [PageNext]_vars
    PROVE  TurnsAreSent'
<1> USE DEF serverVars, pageVars
<1>1. ServerTypes /\ PageTypes /\ TurnsAreSent
  BY DEF PageInv
<1>2. ASSUME UNCHANGED <<turn, sends>> PROVE TurnsAreSent'
  BY <1>1, <1>2 DEF TurnsAreSent
<1>3. ASSUME NEW t \in Threads, RunMoves(t) PROVE TurnsAreSent'
  BY <1>1, <1>3, RunEffect DEF TurnsAreSent
<1>4. ASSUME NEW t \in Threads, SendMoves(t) \/ PostFails(t) PROVE TurnsAreSent'
  BY <1>1, <1>4, SendEffect DEF TurnsAreSent
<1>5. CASE Send
  <2>1. /\ \A u \in Threads : sends[u] = None /\ turn[u].pc = "none"
        /\ \A u \in Threads \ {page.active} : sends'[u] = sends[u]
        /\ UNCHANGED turn
    BY <1>1, <1>5 DEF Send, PageTypes
  <2> QED
    BY <2>1 DEF TurnsAreSent
<1>6. Mount \/ DeleteUnregisters \/ DeleteForgets \/ DeleteApplies => UNCHANGED <<turn, sends>>
  BY DEF Mount, DeleteUnregisters, DeleteForgets, DeleteApplies
<1>7. \A l \in loads : LoadThread(l) \/ LoadState(l) \/ LoadApplies(l) => UNCHANGED <<turn, sends>>
  BY DEF LoadThread, LoadState, LoadApplies
<1>8. \A s \in strays : StrayAnswers(s) \/ StrayApplies(s) => UNCHANGED <<turn, sends>>
  BY DEF StrayAnswers, StrayApplies
<1>9. \A t \in Threads : Select(t) \/ Create(t) \/ Delete(t) => UNCHANGED <<turn, sends>>
  BY DEF Select, Create, Delete
<1>10. UNCHANGED vars => UNCHANGED <<turn, sends>>
  BY DEF vars
<1> QED
  BY <1>1, <1>2, <1>3, <1>4, <1>5, <1>6, <1>7, <1>8, <1>9, <1>10, Steps

LEMMA TabsFollowStep ==
    ASSUME PageInv, [PageNext]_vars
    PROVE  TabsFollow'
<1> USE DEF serverVars, pageVars
<1>1. ServerTypes /\ PageTypes /\ TabsFollow
  BY DEF PageInv
<1>2. /\ registry \in Seq(Threads) /\ IsInjective(registry)
      /\ page.threads \in Seq(Threads) /\ IsInjective(page.threads)
      /\ DOMAIN page = {"threads", "active", "sending", "mounted"}
  BY <1>1 DEF ServerTypes, PageTypes
<1>3. deleting # None =>
         /\ deleting \in DeleteType /\ DOMAIN deleting = {"thread", "active", "pc"}
         /\ deleting.pc \in {"registry", "checkpoint", "answered"}
  BY <1>1 DEF PageTypes, DeleteType
<1>4. CASE UNCHANGED vars
  BY <1>1, <1>4 DEF vars, TabsFollow, Idle
<1>5. CASE Mount
  <2>1. /\ page.threads = <<>> /\ deleting' = None /\ page'.mounted
    BY <1>1, <1>2, <1>5 DEF Mount, TabsFollow, Activates
  <2>2. page'.threads = registry'
    <3>1. CASE registry # <<>>
      BY <1>2, <1>5, <3>1 DEF Mount, Activates
    <3>2. CASE registry = <<>>
      <4>1. PICK t \in Fresh : Register(t) /\ Activates(t, <<t>>)
        BY <1>5, <3>2 DEF Mount
      <4>2. <<t>> \o <<>> = <<t>>
        OBVIOUS
      <4> QED
        BY <1>2, <3>2, <4>1, <4>2 DEF Register, Activates
    <3> QED
      BY <3>1, <3>2
  <2> QED
    BY <2>1, <2>2 DEF TabsFollow
<1>6. ASSUME page.mounted, page'.mounted = page.mounted,
             UNCHANGED <<registry, deleting>>, page'.threads = page.threads
      PROVE  TabsFollow'
  BY <1>1, <1>6 DEF TabsFollow
<1>7. CASE page.mounted /\ DeleteUnregisters
  <2>1. /\ deleting # None /\ deleting.pc = "registry"
        /\ registry' = RemoveFirst(registry, deleting.thread)
        /\ deleting'.thread = deleting.thread /\ deleting'.pc = "checkpoint"
        /\ deleting' \in DeleteType /\ UNCHANGED page
    BY <1>3, <1>7 DEF DeleteUnregisters, Unregister, DeleteType
  <2> QED
    BY <1>1, <1>7, <2>1, NoneIsNothing DEF TabsFollow
<1>8. CASE page.mounted /\ DeleteForgets
  <2>1. /\ deleting # None /\ deleting.pc = "checkpoint"
        /\ deleting'.thread = deleting.thread /\ deleting'.pc = "answered"
        /\ deleting' \in DeleteType /\ UNCHANGED <<page, registry>>
    BY <1>3, <1>8 DEF DeleteForgets, DeleteType
  <2> QED
    BY <1>1, <1>8, <2>1, NoneIsNothing DEF TabsFollow
<1>9. CASE page.mounted /\ DeleteApplies
  <2>1. /\ deleting # None /\ deleting.pc = "answered" /\ deleting' = None /\ UNCHANGED registry
        /\ page'.mounted /\ page'.threads = RemoveFirst(page.threads, deleting.thread)
    BY <1>2, <1>9 DEF DeleteApplies, Activates
  <2> QED
    BY <1>1, <2>1 DEF TabsFollow
<1>10. ASSUME page.mounted, NEW t \in Threads, Create(t) PROVE TabsFollow'
  <2>1. /\ registry' = <<t>> \o registry /\ page'.threads = <<t>> \o page.threads
        /\ page'.mounted /\ UNCHANGED deleting
    BY <1>2, <1>10 DEF Create, Register, Activates
  <2>2. t \notin Range(registry) /\ t \notin Range(page.threads)
    BY <1>10, FreshIsNew DEF Create
  <2>3. deleting # None => /\ deleting.thread \in Range(page'.threads)
                           /\ RemoveFirst(page'.threads, deleting.thread)
                                 = <<t>> \o RemoveFirst(page.threads, deleting.thread)
    <3> SUFFICES ASSUME deleting # None
                 PROVE  /\ deleting.thread \in Range(page'.threads)
                        /\ RemoveFirst(page'.threads, deleting.thread)
                              = <<t>> \o RemoveFirst(page.threads, deleting.thread)
      OBVIOUS
    <3> DEFINE s == page.threads
               e == deleting.thread
    <3>1. s \in Seq(Threads) /\ IsInjective(s) /\ t \notin Range(s) /\ e \in Range(s)
      BY <1>1, <1>2, <2>2 DEF TabsFollow
    <3>2. page'.threads = <<t>> \o s
      BY <2>1
    <3> HIDE DEF s, e
    <3>3. Range(<<t>> \o s) = Range(s) \cup {t}
      BY <3>1, Fronted
    <3>4. RemoveFirst(<<t>> \o s, e) = <<t>> \o RemoveFirst(s, e)
      BY <3>1, RemovedBehind
    <3> QED
      BY <3>1, <3>2, <3>3, <3>4 DEF s, e
  <2> QED
    BY <1>1, <1>10, <2>1, <2>3 DEF TabsFollow
<1>11. ASSUME page.mounted, NEW t \in Threads, Delete(t) PROVE TabsFollow'
  <2>1. /\ deleting = None /\ deleting'.thread = t /\ deleting'.pc = "registry"
        /\ t \in Range(page.threads) /\ UNCHANGED <<page, registry>>
    BY <1>11 DEF Delete
  <2> QED
    BY <1>1, <1>11, <2>1 DEF TabsFollow
<1>12. ASSUME page.mounted, NEW t \in Threads, Select(t) PROVE TabsFollow'
  <2>1. page'.threads = page.threads /\ page'.mounted = page.mounted /\ UNCHANGED <<registry, deleting>>
    BY <1>2, <1>12 DEF Select, Activates
  <2> QED
    BY <1>6, <1>12, <2>1
<1>13. ASSUME page.mounted, NEW t \in Threads, RunMoves(t) PROVE TabsFollow'
  BY <1>1, <1>6, <1>13, RunEffect
<1>14. ASSUME page.mounted, NEW t \in Threads, SendMoves(t) \/ PostFails(t) PROVE TabsFollow'
  BY <1>6, <1>14, SendEffect
<1>15. CASE page.mounted /\ Send
  BY <1>2, <1>6, <1>15 DEF Send
<1>16. ASSUME page.mounted, NEW l \in loads, LoadThread(l) \/ LoadState(l) \/ LoadApplies(l)
       PROVE TabsFollow'
  BY <1>6, <1>16 DEF LoadThread, LoadState, LoadApplies
<1>17. ASSUME page.mounted, NEW s \in strays, StrayAnswers(s) \/ StrayApplies(s) PROVE TabsFollow'
  BY <1>6, <1>17 DEF StrayAnswers, StrayApplies
<1>18. CASE ~page.mounted
  BY <1>4, <1>5, <1>18, MountComesFirst
<1>19. CASE page.mounted
  BY <1>1, <1>4, <1>5, <1>7, <1>8, <1>9, <1>10, <1>11, <1>12, <1>13, <1>14, <1>15, <1>16, <1>17,
     <1>19, Steps
<1> QED
  BY <1>18, <1>19

(* A load begins where nothing else is under way, and what it shows is listed. *)
LEMMA Arrives ==
    ASSUME PageTypes, loads = {}, Idle', deleting' = None, ordered' => strays' = {},
           NEW threads, NEW t \in Range(threads), t # None, Activates(t, threads)
    PROVE  Waited'
<1>1. page'.active = t /\ page'.threads = threads
  BY DEF PageTypes, Activates
<1>2. loads' = {[thread |-> t, n |-> used, log |-> None, pending |-> None, todos |-> None]}
  BY DEF Activates, LoadOf
<1>3. LoadIsTrue'
  BY <1>1, <1>2 DEF LoadIsTrue
<1>4. DeletesOwn'
  BY <1>1 DEF DeletesOwn
<1>5. SendIsTrue'
  BY DEF SendIsTrue, Idle
<1>6. NothingStrays'
  BY DEF NothingStrays
<1>7. PanelIsTrue'
  BY <1>2 DEF PanelIsTrue, Shown
<1> QED
  BY <1>3, <1>4, <1>5, <1>6, <1>7 DEF Waited

LEMMA WaitedStep ==
    ASSUME PageInv, PageTypes', [PageNext]_vars, calm'
    PROVE  Waited'
<1> USE DEF serverVars, pageVars
<1>1. ServerTypes /\ PageTypes /\ TurnsAreSent /\ TabsFollow
  BY DEF PageInv
<1>2. calm => /\ LoadIsTrue /\ DeletesOwn /\ SendIsTrue /\ NothingStrays /\ PanelIsTrue
  BY DEF PageInv, Waited
<1>3. /\ DOMAIN page = {"threads", "active", "sending", "mounted"}
      /\ DOMAIN bundle = {"events", "todos", "pending"}
      /\ DOMAIN sends = Threads /\ DOMAIN pending = Threads /\ DOMAIN todos = Threads
      /\ page.threads \in Seq(Threads) /\ IsInjective(page.threads)
      /\ page.active \in Threads \cup {None}
  BY <1>1 DEF ServerTypes, PageTypes
<1>4. deleting # None =>
         /\ deleting.thread \in Threads /\ DOMAIN deleting = {"thread", "active", "pc"}
  BY <1>1 DEF PageTypes, DeleteType
<1>5. CASE UNCHANGED vars
  BY <1>2, <1>5 DEF vars, Waited, LoadIsTrue, DeletesOwn, SendIsTrue, NothingStrays, PanelIsTrue,
                    Shown, Idle
<1>6. CASE Mount
  <2>1. loads = {} /\ Idle' /\ deleting' = None /\ (ordered' => strays' = {})
    BY <1>1, <1>6 DEF Mount, TabsFollow, Idle
  <2>2. PICK t, threads : Activates(t, threads) /\ t \in Range(threads) /\ t # None
    <3>1. CASE registry # <<>>
      <4>1. registry[1] \in Range(registry) /\ registry[1] \in Threads
        BY <1>1, <3>1 DEF ServerTypes, Range
      <4> QED
        BY <1>6, <3>1, <4>1, NoneIsNothing DEF Mount
    <3>2. CASE registry = <<>>
      <4>1. PICK t \in Fresh : Activates(t, <<t>>)
        BY <1>6, <3>2 DEF Mount
      <4>2. t \in Range(<<t>>) /\ t # None
        BY FreshIsNew, NoneIsNothing DEF Range
      <4> QED
        BY <4>1, <4>2
    <3> QED
      BY <3>1, <3>2
  <2> QED
    BY <1>1, <2>1, <2>2, Arrives
<1>7. ASSUME NEW t \in Threads, Select(t) PROVE Waited'
  <2>1. loads = {} /\ Idle' /\ deleting' = None /\ (ordered' => strays' = {})
    BY <1>7 DEF Select, Settled, Idle
  <2>2. Activates(t, page.threads) /\ t \in Range(page.threads) /\ t # None
    BY <1>7, NoneIsNothing DEF Select
  <2> QED
    BY <1>1, <2>1, <2>2, Arrives
<1>8. ASSUME NEW t \in Threads, Create(t) PROVE Waited'
  <2>1. loads = {} /\ Idle' /\ deleting' = None /\ (ordered' => strays' = {})
    BY <1>8 DEF Create, Settled, Idle
  <2>2. Activates(t, <<t>> \o page.threads) /\ t # None
    BY <1>8, NoneIsNothing DEF Create
  <2>3. t \in Range(<<t>> \o page.threads)
    BY <1>3, <1>8, FreshIsNew, Fronted DEF Create
  <2> QED
    BY <1>1, <2>1, <2>2, <2>3, Arrives
<1>9. CASE DeleteUnregisters
  <2>1. calm /\ deleting # None /\ deleting' = [deleting EXCEPT !.pc = "checkpoint"]
        /\ deleting'.active = deleting.active /\ deleting'.thread = deleting.thread
        /\ deleting'.pc = "checkpoint" /\ loads = {} /\ Idle
        /\ UNCHANGED <<page, bundle, pending, todos, sends, strays, loads, ordered>>
    BY <1>2, <1>4, <1>9 DEF DeleteUnregisters, LoadIsTrue, DeletesOwn
  <2>3. deleting' # None
    <3>1. deleting' \in DeleteType
      BY <1>1, <2>1, <1>9 DEF DeleteUnregisters, PageTypes, DeleteType
    <3> QED
      BY <3>1, NoneIsNothing
  <2>4. Shown' => Shown /\ deleting.thread # page.active
    BY <2>1, <2>3 DEF Shown, Idle
  <2>5. LoadIsTrue' /\ DeletesOwn' /\ SendIsTrue' /\ NothingStrays'
    BY <1>2, <2>1 DEF LoadIsTrue, DeletesOwn, SendIsTrue, NothingStrays, Idle
  <2>6. PanelIsTrue'
    BY <1>2, <1>3, <2>1, <2>4 DEF PanelIsTrue
  <2> QED
    BY <2>5, <2>6 DEF Waited
<1>10. CASE DeleteForgets
  <2>1. calm /\ deleting # None /\ deleting.pc = "checkpoint"
        /\ deleting'.active = deleting.active /\ deleting'.thread = deleting.thread
        /\ deleting'.pc = "answered" /\ loads = {} /\ Idle
        /\ UNCHANGED <<page, bundle, sends, strays, loads, ordered>>
    BY <1>2, <1>4, <1>10 DEF DeleteForgets, LoadIsTrue, DeletesOwn
  <2>2. \A t \in Threads \ {deleting.thread} : pending'[t] = pending[t] /\ todos'[t] = todos[t]
    BY <1>3, <1>10 DEF DeleteForgets, Forget
  <2>3. deleting' # None
    <3>1. deleting' \in DeleteType
      BY <1>1, <2>1, <1>10 DEF DeleteForgets, PageTypes, DeleteType
    <3> QED
      BY <3>1, NoneIsNothing
  <2>4. Shown' => Shown /\ deleting.thread # page.active
    BY <2>1, <2>3 DEF Shown, Idle
  <2>5. LoadIsTrue' /\ DeletesOwn' /\ SendIsTrue' /\ NothingStrays'
    BY <1>2, <2>1 DEF LoadIsTrue, DeletesOwn, SendIsTrue, NothingStrays, Idle
  <2>6. PanelIsTrue'
    BY <1>2, <1>3, <2>1, <2>2, <2>4 DEF PanelIsTrue, Shown
  <2> QED
    BY <2>5, <2>6 DEF Waited
<1>11. CASE DeleteApplies
  <2> DEFINE t == deleting.thread
             next == RemoveFirst(page.threads, t)
  <2>1. /\ calm /\ deleting # None /\ deleting.pc = "answered" /\ deleting' = None
        /\ deleting.active = page.active /\ loads = {} /\ Idle /\ Idle'
        /\ ordered' = (ordered /\ strays = {})
        /\ UNCHANGED <<pending, todos, sends, strays>>
    BY <1>2, <1>11 DEF DeleteApplies, LoadIsTrue, DeletesOwn, Idle
  <2>2. next \in Seq(Threads) /\ Range(next) = Range(page.threads) \ {t} /\ t \in Threads
    BY <1>3, <1>4, <2>1, Removed
  <2>3. Fallback(next) # None => Fallback(next) \in Range(next)
    BY <2>2 DEF Fallback, Range
  <2>4. IF t = page.active /\ Fallback(next) # page.active
        THEN /\ Activates(Fallback(next), next)
             /\ bundle' = IF Fallback(next) = None THEN EmptyBundle ELSE bundle
        ELSE page' = [page EXCEPT !.threads = next] /\ UNCHANGED <<bundle, loads>>
    BY <1>11, <2>1 DEF DeleteApplies
  <2> HIDE DEF next
  <2>5. CASE t = page.active /\ Fallback(next) # None
    <3>1. Fallback(next) # page.active
      BY <2>2, <2>3, <2>5
    <3> QED
      BY <1>1, <2>1, <2>3, <2>4, <2>5, <3>1, Arrives
  <2>6. CASE t = page.active /\ Fallback(next) = None
    <3>1. t # None
      BY <2>2, NoneIsNothing
    <3>2. page'.active = None /\ loads' = {}
      BY <1>3, <2>1, <2>4, <2>6, <3>1 DEF Activates, LoadOf
    <3> QED
      BY <2>1, <3>2 DEF Waited, LoadIsTrue, DeletesOwn, SendIsTrue, NothingStrays, PanelIsTrue,
                        Shown, Idle
  <2>7. CASE t # page.active
    <3>1. page'.threads = next /\ page'.active = page.active /\ page'.mounted = page.mounted
          /\ UNCHANGED <<bundle, loads>>
      BY <1>3, <2>4, <2>7
    <3>2. page.active # None => page.active \in Range(next)
      BY <1>2, <2>1, <2>2, <2>7 DEF DeletesOwn
    <3> QED
      BY <1>2, <2>1, <2>7, <3>1, <3>2 DEF Waited, LoadIsTrue, DeletesOwn, SendIsTrue,
                                          NothingStrays, PanelIsTrue, Shown, Idle
  <2> QED
    BY <2>5, <2>6, <2>7
<1>12. ASSUME NEW t \in Threads, Delete(t) PROVE Waited'
  <2>1. calm /\ page.mounted /\ loads = {} /\ Idle /\ deleting = None
        /\ deleting'.active = page.active /\ deleting'.pc = "registry"
        /\ UNCHANGED <<page, bundle, pending, todos, sends, strays, loads, ordered>>
    BY <1>12 DEF Delete, Settled, Idle
  <2> QED
    BY <1>2, <2>1 DEF Waited, LoadIsTrue, DeletesOwn, SendIsTrue, NothingStrays, PanelIsTrue,
                      Shown, Idle
<1>13. CASE Send
  <2> DEFINE t == page.active
             new == [pc |-> "posted", message |-> Message, cut |-> FALSE, refetch |-> FALSE]
  <2>1. calm /\ page.mounted /\ loads = {} /\ Idle /\ deleting = None /\ t # None /\ t \in Threads
        /\ UNCHANGED <<pending, todos, strays, loads, deleting, ordered>>
        /\ sends' = [sends EXCEPT ![t] = new]
        /\ page' = [page EXCEPT !.sending = TRUE]
    BY <1>3, <1>13 DEF Send, Settled, Idle
  <2>2. new.message.for = {pending[t]} \ {None}
    <3>1. bundle.pending = pending[t]
      BY <1>2, <2>1 DEF PanelIsTrue, Shown
    <3> QED
      BY <1>1, <3>1, MessageIsTyped DEF PageTypes
  <2>3. sends'[t] # None /\ sends'[t] = new /\ \A u \in Threads \ {t} : sends'[u] = None
    <3>1. sends'[t] = new /\ \A u \in Threads \ {t} : sends'[u] = None
      BY <1>3, <2>1 DEF Idle
    <3>2. new # None
      BY <1>1, MessageIsTyped, NoneIsNothing DEF PageTypes, SendType
    <3> QED
      BY <3>1, <3>2
  <2>4. page'.active = t /\ page'.threads = page.threads
    BY <1>3, <2>1
  <2>5. new.pc = "posted"
    OBVIOUS
  <2> HIDE DEF new
  <2> QED
    BY <1>2, <2>1, <2>2, <2>3, <2>4, <2>5 DEF Waited, LoadIsTrue, DeletesOwn, SendIsTrue,
        NothingStrays, PanelIsTrue, Shown, Idle
<1>14. ASSUME NEW l \in loads, LoadThread(l) \/ LoadState(l) PROVE Waited'
  <2>1. calm /\ l.thread = page.active /\ loads = {l} /\ deleting = None /\ Idle
        /\ (l.log # None => l.pending = pending[l.thread])
        /\ (l.todos # None => l.todos = todos[l.thread])
        /\ UNCHANGED <<page, bundle, pending, todos, sends, strays, deleting, ordered>>
    BY <1>2, <1>14 DEF LoadThread, LoadState, LoadIsTrue
  <2>2. l = [thread |-> l.thread, n |-> l.n, log |-> l.log, pending |-> l.pending, todos |-> l.todos]
    BY <1>1 DEF PageTypes
  <2>3. PICK k : /\ loads' = (loads \ {l}) \cup {k}
                 /\ \/ k = [l EXCEPT !.log = log[l.thread], !.pending = pending[l.thread]]
                    \/ k = [l EXCEPT !.todos = todos[l.thread]]
    BY <1>14 DEF LoadThread, LoadState
  <2>4. k.thread = page.active /\ (k.log # None => k.pending = pending[k.thread])
        /\ (k.todos # None => k.todos = todos[k.thread])
    BY <2>1, <2>2, <2>3
  <2>5. loads' = {k}
    BY <2>1, <2>3
  <2> QED
    BY <1>2, <2>1, <2>4, <2>5 DEF Waited, LoadIsTrue, DeletesOwn, SendIsTrue, NothingStrays,
                                  PanelIsTrue, Shown, Idle
<1>15. ASSUME NEW l \in loads, LoadApplies(l) PROVE Waited'
  <2>1. calm /\ l.thread = page.active /\ loads' = {} /\ deleting = None /\ Idle
        /\ bundle'.pending = pending[page.active] /\ bundle'.todos = todos[page.active]
        /\ UNCHANGED <<page, pending, todos, sends, strays, deleting, ordered>>
    BY <1>2, <1>15 DEF LoadApplies, LoadIsTrue
  <2> QED
    BY <1>2, <2>1 DEF Waited, LoadIsTrue, DeletesOwn, SendIsTrue, NothingStrays, PanelIsTrue, Idle
<1>16. ASSUME NEW s \in strays, StrayAnswers(s) \/ StrayApplies(s) PROVE Waited'
  <2>1. calm /\ bundle'.pending = bundle.pending
        /\ UNCHANGED <<page, pending, todos, sends, loads, deleting, ordered>>
    BY <1>3, <1>16 DEF StrayAnswers, StrayApplies
  <2>2. ~(ordered /\ \A t \in Threads : sends[t] = None \/ sends[t].pc = "thread")
    BY <1>2, <1>16, <2>1 DEF NothingStrays
  <2>3. \A t \in Threads : sends[t] # None /\ sends[t].pc = "thread" => ~ordered
    BY <1>1, <2>2 DEF TurnsAreSent
  <2>4. LoadIsTrue' /\ DeletesOwn' /\ NothingStrays'
    BY <1>2, <2>1, <2>2 DEF LoadIsTrue, DeletesOwn, NothingStrays, Idle
  <2>5. SendIsTrue'
    BY <1>2, <2>1, <2>3 DEF SendIsTrue
  <2>6. PanelIsTrue'
    BY <1>2, <2>1, <2>2 DEF PanelIsTrue, Shown, Idle
  <2> QED
    BY <2>4, <2>5, <2>6 DEF Waited
<1>17. ASSUME NEW t \in Threads, RunMoves(t) PROVE Waited'
  <2>1. calm /\ turn[t].pc # "none" /\ (\A u \in Threads \ {t} : pending'[u] = pending[u] /\ todos'[u] = todos[u])
        /\ UNCHANGED <<page, bundle, sends, strays, loads, deleting, ordered>>
    BY <1>1, <1>17, RunEffect
  <2>2. sends[t] # None /\ sends[t].pc = "stream" /\ \A u \in Threads \ {t} : sends[u] = None
    BY <1>1, <2>1 DEF TurnsAreSent
  <2>3. loads = {} /\ ~Idle
    BY <1>2, <2>1, <2>2 DEF LoadIsTrue, Idle
  <2>4. SendIsTrue'
    BY <1>2, <2>1, <2>2 DEF SendIsTrue
  <2>5. LoadIsTrue' /\ DeletesOwn' /\ NothingStrays' /\ PanelIsTrue'
    BY <1>2, <2>1, <2>2, <2>3 DEF LoadIsTrue, DeletesOwn, NothingStrays, PanelIsTrue, Shown, Idle
  <2> QED
    BY <2>4, <2>5 DEF Waited
<1>18. ASSUME NEW t \in Threads, SendMoves(t) \/ PostFails(t) PROVE Waited'
  <2>1. /\ sends[t] # None
        /\ \A u \in Threads \ {t} : sends'[u] = sends[u]
        /\ UNCHANGED <<pending, todos, loads, deleting>>
        /\ page'.threads = page.threads /\ page'.active = page.active
        /\ page'.mounted = page.mounted
    BY <1>18, SendEffect
  <2>2. calm /\ ~StreamBreaks(t) /\ ~PostFails(t)
    BY <1>18 DEF SendMoves, Posts, StreamBreaks, PostFails, GivesUp, Receives, StreamEnds,
                 FinalRefresh, FinishSend
  <2>3. /\ t = page.active /\ loads = {} /\ deleting = None
        /\ \A u \in Threads \ {t} : sends[u] = None /\ sends'[u] = None
    BY <1>1, <1>2, <2>1, <2>2 DEF SendIsTrue, LoadIsTrue, DeletesOwn, TurnsAreSent, Idle
  <2>4. LoadIsTrue' /\ DeletesOwn'
    BY <1>2, <2>1, <2>2, <2>3 DEF LoadIsTrue, DeletesOwn
  <2>5. sends[t] \in SendType /\ DOMAIN sends[t] = {"pc", "message", "cut", "refetch"}
    BY <1>1, <2>1 DEF PageTypes, SendType
  <2>6. CASE Posts(t) \/ Receives(t) \/ StreamEnds(t)
    <3>1. Posts(t) \/ StreamEnds(t) =>
             \E pc \in {"stream", "refresh"} : sends'[t] = [sends[t] EXCEPT !.pc = pc]
      BY <1>3 DEF Posts, StreamEnds
    <3>2. \A pc \in {"stream", "refresh"} : /\ [sends[t] EXCEPT !.pc = pc] # None
                                            /\ [sends[t] EXCEPT !.pc = pc].pc = pc
      BY <2>5, SendIsTyped, NoneIsNothing
    <3>3. Receives(t) => sends'[t] # None /\ sends'[t].pc = "stream"
      BY <1>1, ReceiveEffect
    <3>4. sends'[t] # None /\ sends'[t].pc \in {"stream", "refresh"}
      BY <2>6, <3>1, <3>2, <3>3
    <3> QED
      BY <2>3, <2>1, <2>4, <3>4 DEF Waited, SendIsTrue, NothingStrays, PanelIsTrue, Shown, Idle
  <2>7. CASE FinalRefresh(t)
    <3>1. sends'[t] = [sends[t] EXCEPT !.pc = "thread"] /\ bundle'.todos = todos[t]
          /\ ordered' = (ordered /\ strays = {}) /\ UNCHANGED strays
      BY <1>3, <2>7 DEF FinalRefresh
    <3>2. sends'[t] # None /\ sends'[t].pc = "thread"
      BY <2>5, <3>1, SendIsTyped, NoneIsNothing
    <3> QED
      BY <2>3, <2>1, <2>4, <3>1, <3>2 DEF Waited, SendIsTrue, NothingStrays, PanelIsTrue, Shown, Idle
  <2>8. CASE FinishSend(t)
    <3>1. sends'[t] = None /\ bundle'.pending = pending[t] /\ bundle'.todos = bundle.todos
          /\ UNCHANGED <<strays, ordered>> /\ sends[t].pc = "thread"
      BY <1>3, <2>8 DEF FinishSend
    <3>2. ordered => bundle.todos = todos[t] /\ strays = {}
      BY <1>2, <2>1, <2>2, <2>3, <3>1 DEF SendIsTrue, NothingStrays
    <3> QED
      BY <2>3, <2>1, <2>4, <3>1, <3>2 DEF Waited, SendIsTrue, NothingStrays, PanelIsTrue, Shown, Idle
  <2> QED
    BY <1>18, <2>2, <2>6, <2>7, <2>8 DEF SendMoves
<1> QED
  BY <1>1, <1>5, <1>6, <1>7, <1>8, <1>9, <1>10, <1>11, <1>12, <1>13, <1>14, <1>15, <1>16, <1>17,
     <1>18, Steps
-----------------------------------------------------------------------------
LEMMA PageInvStep == PageInv /\ [PageNext]_vars => PageInv'
<1> SUFFICES ASSUME PageInv, [PageNext]_vars PROVE PageInv'
  OBVIOUS
<1>1. ServerTypes' /\ PageTypes' /\ TurnsAreSent' /\ TabsFollow'
  BY ServerTypesStep, PageTypesStep, TurnsAreSentStep, TabsFollowStep
<1>2. calm' => Waited'
  BY <1>1, WaitedStep
<1> QED
  BY <1>1, <1>2 DEF PageInv

LEMMA PageInvHolds == PageSpec => []PageInv
<1>1. PageInit => PageInv
  BY PageInitInv
<1>2. PageInv /\ [PageNext]_vars => PageInv'
  BY PageInvStep
<1> QED
  BY <1>1, <1>2, PTL DEF PageSpec

(* Whoever waits for the page is never left in a thread that was deleted, and
   the tabs are the threads of the registry (handleDeleteThread, the effects on
   activeId).                                                                  *)
THEOREM ActiveStaysListed == PageSpec => []ActiveIsListed
<1>1. PageInv => ActiveIsListed
  BY DEF PageInv, TabsFollow, Waited, DeletesOwn, ActiveIsListed, Settled
<1> QED
  BY <1>1, PageInvHolds, PTL

(* The panel ends on the todos of the active thread, however many turns set them
   and whichever fetch comes last (refreshState), unless a refresh that nobody
   awaits outlives its turn.                                                   *)
THEOREM PanelEndsOnTodos == PageSpec => []TodosShown
<1>1. PageInv => TodosShown
  BY DEF PageInv, Waited, PanelIsTrue, Shown, TodosShown, Settled, Idle
<1> QED
  BY <1>1, PageInvHolds, PTL

(* The server is sent a resume map exactly when a question waits, and for that
   question, by a user who waits for the page (handleSend, sse_event_stream).  *)
THEOREM AnswersAreForQuestions == PageSpec => AnswersMeetQuestion
<1> DEFINE Asks == \A t \in Threads :
                      calm /\ turn[t].pc = "none" /\ turn'[t].pc \in {"agent", "tools"} =>
                          sends[t].message.for = {pending[t]} \ {None}
<1>1. PageInv /\ [PageNext]_vars => [Asks]_vars
  <2> SUFFICES ASSUME PageInv, PageNext,
                      NEW t \in Threads, calm, turn[t].pc = "none", turn'[t].pc \in {"agent", "tools"}
               PROVE  sends[t].message.for = {pending[t]} \ {None}
    OBVIOUS
  <2>1. ServerTypes /\ PageTypes /\ SendIsTrue
    BY DEF PageInv, Waited
  <2>2. CASE Posts(t)
    BY <2>1, <2>2 DEF Posts, SendIsTrue
  <2>3. ~Posts(t) => turn'[t].pc = "none" \/ turn'[t] = turn[t]
    <3> SUFFICES ASSUME ~Posts(t) PROVE turn'[t].pc = "none" \/ turn'[t] = turn[t]
      OBVIOUS
    <3> USE DEF serverVars, pageVars
    <3>1. \A u \in Threads : RunMoves(u) => u # t /\ turn'[t] = turn[t]
      BY <2>1, RunEffect
    <3>2. \A u \in Threads \ {t} : SendMoves(u) => turn'[t] = turn[t]
      BY SendEffect
    <3>3. SendMoves(t) => turn'[t].pc = "none" \/ turn'[t] = turn[t]
      BY <2>1 DEF SendMoves, StreamBreaks, Receives, StreamEnds, FinalRefresh, FinishSend, ServerTypes, NoTurn
    <3>4. \A u \in Threads : PostFails(u) \/ Select(u) \/ Create(u) \/ Delete(u) => UNCHANGED turn
      BY DEF PostFails, Select, Create, Delete
    <3>5. Mount \/ DeleteUnregisters \/ DeleteForgets \/ DeleteApplies \/ Send => UNCHANGED turn
      BY DEF Mount, DeleteUnregisters, DeleteForgets, DeleteApplies, Send
    <3>6. \A l \in loads : LoadThread(l) \/ LoadState(l) \/ LoadApplies(l) => UNCHANGED turn
      BY DEF LoadThread, LoadState, LoadApplies
    <3>7. \A s \in strays : StrayAnswers(s) \/ StrayApplies(s) => UNCHANGED turn
      BY DEF StrayAnswers, StrayApplies
    <3> QED
      BY <2>1, <3>1, <3>2, <3>3, <3>4, <3>5, <3>6, <3>7, Steps
  <2> QED
    BY <2>2, <2>3
<1> QED
  BY <1>1, PageInvHolds, PTL DEF AnswersMeetQuestion, PageSpec
-----------------------------------------------------------------------------
(* What a response consists of, and what the page may hold of it. *)
AiType == [role : {"ai"}, id : Nat, parts : Seq(PartType), calls : Seq(CallType(CallIds))]

SpeechType(ids) == [id : ids, role : {"ai"}, type : {"reasoning", "text"}, content : Seq(Strings)]

CallEventType(ids) ==
    [id : ids, role : {"ai"}, type : {"tool_call"},
     content : [id : CallIds, name : Strings \cup {None}, args : Seq(Strings), delta : BOOLEAN]]

OutputType == [id : CallIds, role : {"tool_result"}, type : {"tool_result"}, content : Seq(Strings)]

LEMMA SeqWider ==
    ASSUME NEW A, NEW B, A \subseteq B, NEW s \in Seq(A)
    PROVE  s \in Seq(B)
  OBVIOUS

(* Parts become text and reasoning, and nothing if none of them is shown. *)
LEMMA ContentTyped ==
    ASSUME NEW parts \in Seq(PartType), NEW run
    PROVE  /\ ContentEvents(parts, run) \in Seq(SpeechType({run}))
           /\ (\A k \in DOMAIN parts : ~Speaks(parts[k])) => ContentEvents(parts, run) = <<>>
<1> DEFINE n == Len(parts)
           V == {v \in Seq(SpeechType({run})) : (\A k \in 1 .. n : ~Speaks(parts[k])) => v = <<>>}
           step(v, i) == IF parts[i].type \in {"reasoning", "text"} /\ parts[i].text # <<>>
                         THEN Append(v, Event(run, "ai", parts[i].type, parts[i].text)) ELSE v
           h == [i \in 1 .. n |-> [v \in V |-> step(v, i)]]
           Is(it) == it = [z \in SUBSET DOMAIN parts |->
                              IF z = {} THEN <<>> ELSE step(it[z \ {Max(z)}], Max(z))]
           it0 == CHOOSE it : Is(it)
<1>1. n \in Nat /\ DOMAIN parts = 1 .. n
  OBVIOUS
<1>2. <<>> \in V /\ \A i \in 1 .. n, v \in V : step(v, i) \in V /\ h[i][v] = step(v, i)
  <2>1. <<>> \in V
    OBVIOUS
  <2>2. ASSUME NEW i \in 1 .. n, NEW v \in V PROVE step(v, i) \in V
    <3>1. CASE Speaks(parts[i])
      <4> DEFINE e == Event(run, "ai", parts[i].type, parts[i].text)
      <4>1. parts[i] \in PartType
        OBVIOUS
      <4>2. e \in SpeechType({run})
        BY <3>1, <4>1 DEF Event, SpeechType, PartType, Speaks
      <4>3. step(v, i) = Append(v, e)
        BY <3>1 DEF Speaks
      <4>4. v \in Seq(SpeechType({run}))
        OBVIOUS
      <4> HIDE DEF e, step
      <4>5. Append(v, e) \in Seq(SpeechType({run}))
        BY <4>2, <4>4
      <4> QED
        BY <3>1, <4>3, <4>5
    <3>2. CASE ~Speaks(parts[i])
      <4>1. step(v, i) = v
        BY <3>2 DEF Speaks
      <4> HIDE DEF step
      <4> QED
        BY <4>1
    <3> QED
      BY <3>1, <3>2
  <2> HIDE DEF step, V
  <2> QED
    BY <2>1, <2>2
<1>3. ContentEvents(parts, run) = it0[DOMAIN parts]
  BY DEF ContentEvents, FoldLeft, MapThenFoldSet
<1>4. Maps(h, n, V)
  BY <1>2 DEF Maps
<1>5. PICK g : Makes(g, n, V, <<>>, h)
  <2> HIDE DEF h, n, V
  <2> QED
    BY <1>1, <1>2, <1>4, FoldMakes
<1>6. Is(g)
  <2> HIDE DEF h, V, n, step
  <2>1. \A z \in SUBSET (1 .. n) :
           g[z] = IF z = {} THEN <<>> ELSE step(g[z \ {Max(z)}], Max(z))
    BY <1>2, <1>5 DEF Makes
  <2> QED
    BY <1>1, <1>5, <2>1 DEF Makes
<1>7. Is(it0)
  <2> HIDE DEF Is
  <2> QED
    BY <1>6
<1>8. Unrolls(it0, n, V, <<>>, h)
  <2> HIDE DEF it0, n, V, step
  <2>1. \A z \in SUBSET (1 .. n) :
           it0[z] = IF z = {} THEN <<>> ELSE step(it0[z \ {Max(z)}], Max(z))
    BY <1>1, <1>7
  <2>2. ASSUME NEW z \in SUBSET (1 .. n), z # {}, it0[z \ {Max(z)}] \in V
        PROVE  it0[z] = h[Max(z)][it0[z \ {Max(z)}]]
    <3>1. Max(z) \in 1 .. n /\ it0[z] = step(it0[z \ {Max(z)}], Max(z))
      BY <1>1, <2>1, <2>2, GreatestIn
    <3> HIDE DEF h
    <3> QED
      BY <1>2, <2>2, <3>1
  <2>3. it0[{}] = <<>>
    BY <2>1
  <2> HIDE DEF h
  <2> QED
    BY <2>2, <2>3 DEF Unrolls
<1>9. it0[1 .. n] \in V
  <2> HIDE DEF it0, n, V, h
  <2> QED
    BY <1>1, <1>2, <1>4, <1>8, FoldStays
<1>10. ContentEvents(parts, run) \in V
  <2> HIDE DEF it0, V, n
  <2> QED
    BY <1>1, <1>3, <1>9
<1> QED
  BY <1>1, <1>10

(* Deltas of calls become call events.  One that tells of a call which changes
   state carries the id the provider has given it.                            *)
LEMMA CallChunksTyped ==
    ASSUME NEW deltas \in Seq(CallType(CallIds)), NEW run, NEW ids \in [Indexes -> CallIds],
           \A tc \in Range(deltas) : Changes(tc) => tc.id # None
    PROVE  LET told == CallChunkEvents(deltas, run, ids)
           IN  /\ told.ids \in [Indexes -> CallIds]
               /\ told.events \in Seq(CallEventType({run}))
               /\ \A k \in DOMAIN told.events : Mutates(told.events[k]) =>
                     \E tc \in Range(deltas) : Changes(tc) /\ tc.id = told.events[k].content.id
<1> DEFINE E == {e \in CallEventType({run}) : Mutates(e) =>
                    \E tc \in Range(deltas) : Changes(tc) /\ tc.id = e.content.id}
           b == [ids |-> ids, events |-> <<>>]
<1> DEFINE n == Len(deltas)
           V == [ids : [Indexes -> CallIds], events : Seq(E)]
           step(v, i) == 
              LET known == Learns(v.ids, deltas[i])
                  id == IF deltas[i].id # None THEN deltas[i].id ELSE known[deltas[i].index]
              IN  [ids |-> known,
                   events |-> IF id = None \/ (deltas[i].name = None /\ deltas[i].args = <<>>) THEN v.events
                              ELSE Append(v.events, Event(run, "ai", "tool_call",
                                     [id |-> id, name |-> deltas[i].name, args |-> deltas[i].args,
                                      delta |-> TRUE]))]
           h == [i \in 1 .. n |-> [v \in V |-> step(v, i)]]
           Is(it) == it = [z \in SUBSET DOMAIN deltas |->
                              IF z = {} THEN b ELSE step(it[z \ {Max(z)}], Max(z))]
           it0 == CHOOSE it : Is(it)
<1>1. n \in Nat /\ DOMAIN deltas = 1 .. n
  OBVIOUS
<1>2. b \in V /\ \A i \in 1 .. n, v \in V : step(v, i) \in V /\ h[i][v] = step(v, i)
  <2>1. b \in V
    <3>1. <<>> \in Seq(E)
      OBVIOUS
    <3> HIDE DEF E
    <3> QED
      BY <3>1
  <2>2. ASSUME NEW i \in 1 .. n, NEW v \in V PROVE step(v, i) \in V
    <3> DEFINE tc == deltas[i]
               known == Learns(v.ids, tc)
               id == IF tc.id # None THEN tc.id ELSE known[tc.index]
               e == Event(run, "ai", "tool_call",
                          [id |-> id, name |-> tc.name, args |-> tc.args, delta |-> TRUE])
    <3>1. tc \in CallType(CallIds) /\ tc \in Range(deltas) /\ (Changes(tc) => tc.id # None)
      BY <1>1 DEF Range
    <3>2. step(v, i) = [ids |-> known,
                        events |-> IF id = None \/ (tc.name = None /\ tc.args = <<>>) THEN v.events
                                   ELSE Append(v.events, e)]
      OBVIOUS
    <3>3. v.ids \in [Indexes -> CallIds] /\ v.events \in Seq(E)
      <4> HIDE DEF E
      <4> QED
        OBVIOUS
    <3> HIDE DEF tc, step, V
    <3>4. known \in [Indexes -> CallIds]
      BY <3>1, <3>3 DEF Learns, CallType
    <3>5. id \in CallIds
      <4> HIDE DEF known
      <4> QED
        BY <3>1, <3>4 DEF CallType
    <3>6. e \in E
      <4>1. e \in CallEventType({run})
        <5> HIDE DEF id
        <5> QED
          BY <3>1, <3>5 DEF Event, CallEventType, CallType
      <4>2. Mutates(e) => Changes(tc) /\ e.content.id = id
        <5> HIDE DEF id
        <5> QED
          BY DEF Mutates, Event, Changes
      <4>3. Changes(tc) => tc.id = id
        BY <3>1
      <4> HIDE DEF e, id
      <4> QED
        BY <3>1, <4>1, <4>2, <4>3
    <3>7. Append(v.events, e) \in Seq(E)
      <4> HIDE DEF E, e
      <4> QED
        BY <3>3, <3>6
    <3> HIDE DEF E, e, known, id
    <3> QED
      BY <3>2, <3>3, <3>4, <3>7 DEF V
  <2> HIDE DEF step, V
  <2> QED
    BY <2>1, <2>2
<1>3. CallChunkEvents(deltas, run, ids) = it0[DOMAIN deltas]
  BY DEF CallChunkEvents, FoldLeft, MapThenFoldSet
<1>4. Maps(h, n, V)
  BY <1>2 DEF Maps
<1>5. PICK g : Makes(g, n, V, b, h)
  <2> HIDE DEF h, n, V
  <2> QED
    BY <1>1, <1>2, <1>4, FoldMakes
<1>6. Is(g)
  <2> HIDE DEF h, V, n, step
  <2>1. \A z \in SUBSET (1 .. n) :
           g[z] = IF z = {} THEN b ELSE step(g[z \ {Max(z)}], Max(z))
    BY <1>2, <1>5 DEF Makes
  <2> QED
    BY <1>1, <1>5, <2>1 DEF Makes
<1>7. Is(it0)
  <2> HIDE DEF Is
  <2> QED
    BY <1>6
<1>8. Unrolls(it0, n, V, b, h)
  <2> HIDE DEF it0, n, V, step
  <2>1. \A z \in SUBSET (1 .. n) :
           it0[z] = IF z = {} THEN b ELSE step(it0[z \ {Max(z)}], Max(z))
    BY <1>1, <1>7
  <2>2. ASSUME NEW z \in SUBSET (1 .. n), z # {}, it0[z \ {Max(z)}] \in V
        PROVE  it0[z] = h[Max(z)][it0[z \ {Max(z)}]]
    <3>1. Max(z) \in 1 .. n /\ it0[z] = step(it0[z \ {Max(z)}], Max(z))
      BY <1>1, <2>1, <2>2, GreatestIn
    <3> HIDE DEF h
    <3> QED
      BY <1>2, <2>2, <3>1
  <2>3. it0[{}] = b
    BY <2>1
  <2> HIDE DEF h
  <2> QED
    BY <2>2, <2>3 DEF Unrolls
<1>9. it0[1 .. n] \in V
  <2> HIDE DEF it0, n, V, h
  <2> QED
    BY <1>1, <1>2, <1>4, <1>8, FoldStays
<1>10. CallChunkEvents(deltas, run, ids) \in V
  <2> HIDE DEF it0, V, n
  <2> QED
    BY <1>1, <1>3, <1>9
<1> DEFINE told == CallChunkEvents(deltas, run, ids)
<1>11. told.ids \in [Indexes -> CallIds] /\ told.events \in Seq(E)
  <2> HIDE DEF E, told
  <2> QED
    BY <1>10 DEF told
<1> HIDE DEF told
<1>12. told.events \in Seq(CallEventType({run}))
  <2>1. E \subseteq CallEventType({run})
    OBVIOUS
  <2> HIDE DEF E
  <2> QED
    BY <1>11, <2>1, SeqWider
<1>13. \A k \in DOMAIN told.events : told.events[k] \in E
  <2> HIDE DEF E
  <2> QED
    BY <1>11
<1> QED
  BY <1>11, <1>12, <1>13 DEF told

(* What messages_to_events can make of a checkpoint: its calls belong to no turn
   that streams.                                                              *)
HistoryTypes ==
    SpeechType({"history"} \X Nat) \cup CallEventType({"history"} \X Nat) \cup OutputType
    \cup [id : {"user"} \X Nat, role : {"human"}, type : {"text"}, content : Seq(Strings)]

LEMMA CallEventsTyped ==
    ASSUME NEW calls \in Seq(CallType(CallIds)), NEW ids, NEW run \in ids
    PROVE  CallEvents(calls, run) \in Seq(CallEventType(ids))
<1>1. ASSUME NEW k \in 1 .. Len(calls) PROVE CallEvents(calls, run)[k] \in CallEventType(ids)
  <2>1. calls[k] \in CallType(CallIds)
    OBVIOUS
  <2>2. CallEvents(calls, run)[k] = Event(run, "ai", "tool_call",
            [id |-> calls[k].id, name |-> calls[k].name, args |-> calls[k].args, delta |-> FALSE])
    BY DEF CallEvents
  <2> QED
    BY <2>1, <2>2 DEF Event, CallEventType, CallType
<1>2. DOMAIN CallEvents(calls, run) = 1 .. Len(calls) /\ Len(calls) \in Nat
      /\ CallEvents(calls, run) = [k \in 1 .. Len(calls) |-> CallEvents(calls, run)[k]]
  BY DEF CallEvents
<1> QED
  BY <1>1, <1>2

LEMMA HistoryTyped ==
    ASSUME NEW messages \in Seq(MessageTypes)
    PROVE  HistoryEvents(messages) \in Seq(HistoryTypes)
<1> DEFINE b == [run |-> 0, events |-> <<>>]
<1> DEFINE n == Len(messages)
           V == [run : Nat, events : Seq(HistoryTypes)]
           step(v, i) == 
              CASE messages[i].role = "human" ->
                     [run |-> v.run + 1,
                      events |-> Append(v.events, Event(messages[i].id, "human", "text", messages[i].content))]
                [] messages[i].role = "ai" ->
                     [v EXCEPT !.events = @ \o ContentEvents(messages[i].parts, <<"history", v.run>>)
                                            \o CallEvents(messages[i].calls, <<"history", v.run>>)]
                [] messages[i].role = "tool" ->
                     [v EXCEPT !.events = Append(@, Event(messages[i].id, "tool_result", "tool_result",
                                                          messages[i].content))]
           h == [i \in 1 .. n |-> [v \in V |-> step(v, i)]]
           Is(it) == it = [z \in SUBSET DOMAIN messages |->
                              IF z = {} THEN b ELSE step(it[z \ {Max(z)}], Max(z))]
           it0 == CHOOSE it : Is(it)
<1>1. n \in Nat /\ DOMAIN messages = 1 .. n
  OBVIOUS
<1>2. b \in V /\ \A i \in 1 .. n, v \in V : step(v, i) \in V /\ h[i][v] = step(v, i)
  <2>1. b \in V
    OBVIOUS
  <2>2. ASSUME NEW i \in 1 .. n, NEW v \in V PROVE step(v, i) \in V
    <3> DEFINE m == messages[i]
               run == <<"history", v.run>>
    <3>1. m \in MessageTypes /\ v.run \in Nat /\ v.events \in Seq(HistoryTypes)
          /\ v = [run |-> v.run, events |-> v.events]
      OBVIOUS
    <3>2. CASE m.role = "human"
      <4> DEFINE e == Event(m.id, "human", "text", m.content)
      <4>1. e \in HistoryTypes
        BY <3>1, <3>2 DEF MessageTypes, Event, HistoryTypes
      <4>2. step(v, i) = [run |-> v.run + 1, events |-> Append(v.events, e)]
        BY <3>2
      <4> HIDE DEF e, m, step
      <4> QED
        BY <3>1, <4>1, <4>2
    <3>3. CASE m.role = "ai"
      <4> DEFINE said == ContentEvents(m.parts, run)
                 told == CallEvents(m.calls, run)
      <4>1. m.parts \in Seq(PartType) /\ m.calls \in Seq(CallType(CallIds))
        BY <3>1, <3>3 DEF MessageTypes
      <4>2. run \in {"history"} \X Nat
        BY <3>1
      <4>3. step(v, i) = [v EXCEPT !.events = @ \o said \o told]
        BY <3>3
      <4> HIDE DEF m, step, run
      <4>4. said \in Seq(SpeechType({run}))
        BY <4>1, ContentTyped
      <4>5. told \in Seq(CallEventType({"history"} \X Nat))
        BY <4>1, <4>2, CallEventsTyped
      <4> HIDE DEF said, told
      <4>6. SpeechType({run}) \subseteq HistoryTypes
        BY <4>2 DEF SpeechType, HistoryTypes
      <4>7. CallEventType({"history"} \X Nat) \subseteq HistoryTypes
        BY DEF HistoryTypes
      <4>8. said \in Seq(HistoryTypes) /\ told \in Seq(HistoryTypes)
        BY <4>4, <4>5, <4>6, <4>7, SeqWider
      <4>9. v.events \o said \o told \in Seq(HistoryTypes)
        BY <3>1, <4>8
      <4>10. step(v, i) = [run |-> v.run, events |-> v.events \o said \o told]
        BY <3>1, <4>3
      <4> QED
        BY <3>1, <4>9, <4>10
    <3>4. CASE m.role = "tool"
      <4> DEFINE e == Event(m.id, "tool_result", "tool_result", m.content)
      <4>1. e \in HistoryTypes
        BY <3>1, <3>4 DEF MessageTypes, Event, HistoryTypes, OutputType
      <4>2. step(v, i) = [v EXCEPT !.events = Append(@, e)]
        BY <3>4
      <4> HIDE DEF e, m, step
      <4>3. step(v, i) = [run |-> v.run, events |-> Append(v.events, e)]
        BY <3>1, <4>2
      <4>4. Append(v.events, e) \in Seq(HistoryTypes)
        BY <3>1, <4>1
      <4> QED
        BY <3>1, <4>3, <4>4
    <3>5. m.role \in {"human", "ai", "tool"}
      BY <3>1 DEF MessageTypes
    <3> QED
      BY <3>2, <3>3, <3>4, <3>5
  <2> HIDE DEF step, V
  <2> QED
    BY <2>1, <2>2
<1>3. HistoryEvents(messages) = it0[DOMAIN messages].events
  BY DEF HistoryEvents, FoldLeft, MapThenFoldSet
<1>4. Maps(h, n, V)
  BY <1>2 DEF Maps
<1>5. PICK g : Makes(g, n, V, b, h)
  <2> HIDE DEF h, n, V
  <2> QED
    BY <1>1, <1>2, <1>4, FoldMakes
<1>6. Is(g)
  <2> HIDE DEF h, V, n, step
  <2>1. \A z \in SUBSET (1 .. n) :
           g[z] = IF z = {} THEN b ELSE step(g[z \ {Max(z)}], Max(z))
    BY <1>2, <1>5 DEF Makes
  <2> QED
    BY <1>1, <1>5, <2>1 DEF Makes
<1>7. Is(it0)
  <2> HIDE DEF Is
  <2> QED
    BY <1>6
<1>8. Unrolls(it0, n, V, b, h)
  <2> HIDE DEF it0, n, V, step
  <2>1. \A z \in SUBSET (1 .. n) :
           it0[z] = IF z = {} THEN b ELSE step(it0[z \ {Max(z)}], Max(z))
    BY <1>1, <1>7
  <2>2. ASSUME NEW z \in SUBSET (1 .. n), z # {}, it0[z \ {Max(z)}] \in V
        PROVE  it0[z] = h[Max(z)][it0[z \ {Max(z)}]]
    <3>1. Max(z) \in 1 .. n /\ it0[z] = step(it0[z \ {Max(z)}], Max(z))
      BY <1>1, <2>1, <2>2, GreatestIn
    <3> HIDE DEF h
    <3> QED
      BY <1>2, <2>2, <3>1
  <2>3. it0[{}] = b
    BY <2>1
  <2> HIDE DEF h
  <2> QED
    BY <2>2, <2>3 DEF Unrolls
<1>9. it0[1 .. n] \in V
  <2> HIDE DEF it0, n, V, h
  <2> QED
    BY <1>1, <1>2, <1>4, <1>8, FoldStays
<1>10. it0[DOMAIN messages] \in V
  <2> HIDE DEF it0, V, n
  <2> QED
    BY <1>1, <1>9
<1> HIDE DEF it0
<1> QED
  BY <1>3, <1>10
-----------------------------------------------------------------------------
(* The calls of a message, and the deltas they are made of, have the id of their
   place in the message or none.                                              *)
GivenType(t, at) == {tc \in CallType(CallIds) : tc.id \in {None, <<t, at, tc.index>>}}

IdsOf(calls) == {calls[k].id : k \in DOMAIN calls} \ {None}

(* A delta leaves the ids there are, and adds its own. *)
LEMMA MergedKeeps ==
    ASSUME NEW t \in Threads, NEW at \in Nat, NEW calls \in Seq(GivenType(t, at)),
           NEW tc \in GivenType(t, at)
    PROVE  /\ Merged(calls, tc) \in Seq(GivenType(t, at))
           /\ IdsOf(calls) \cup ({tc.id} \ {None}) \subseteq IdsOf(Merged(calls, tc))
<1> DEFINE G == GivenType(t, at)
           n == Len(calls)
           sum == Merged(calls, tc)
<1>1. n \in Nat /\ DOMAIN calls = 1 .. n /\ \A k \in 1 .. n : calls[k] \in G
  OBVIOUS
<1>2. tc \in CallType(CallIds) /\ tc.id \in {None, <<t, at, tc.index>>}
  BY DEF GivenType
<1>3. CASE \E k \in DOMAIN calls : calls[k].index = tc.index
  <2> DEFINE new(k) == IF calls[k].index # tc.index THEN calls[k]
                       ELSE [calls[k] EXCEPT !.id = IF @ = None THEN tc.id ELSE @,
                                             !.name = IF @ = None THEN tc.name ELSE @,
                                             !.args = @ \o tc.args]
  <2>1. sum = [k \in 1 .. n |-> new(k)]
    BY <1>1, <1>3 DEF Merged
  <2>2. ASSUME NEW k \in 1 .. n
        PROVE  /\ new(k) \in G
               /\ calls[k].id # None => new(k).id = calls[k].id
               /\ calls[k].index = tc.index /\ tc.id # None => new(k).id = tc.id
    <3> DEFINE c == calls[k]
    <3>1. c \in CallType(CallIds) /\ c.id \in {None, <<t, at, c.index>>}
      BY <1>1 DEF GivenType
    <3>2. CASE c.index # tc.index
      BY <1>1, <3>2
    <3>3. CASE c.index = tc.index
      <4> DEFINE d == [c EXCEPT !.id = IF @ = None THEN tc.id ELSE @,
                                !.name = IF @ = None THEN tc.name ELSE @,
                                !.args = @ \o tc.args]
      <4>1. new(k) = d
        BY <3>3
      <4> HIDE DEF c, new
      <4>2. c = [index |-> c.index, id |-> c.id, name |-> c.name, args |-> c.args]
            /\ c.index \in Indexes /\ c.id \in CallIds /\ c.name \in Strings \cup {None}
            /\ c.args \in Seq(Strings)
        BY <3>1 DEF CallType
      <4>3. tc.id \in CallIds /\ tc.name \in Strings \cup {None} /\ tc.args \in Seq(Strings)
        BY <1>2 DEF CallType
      <4>4. d = [index |-> c.index, id |-> IF c.id = None THEN tc.id ELSE c.id,
                 name |-> IF c.name = None THEN tc.name ELSE c.name, args |-> c.args \o tc.args]
        <5> DEFINE x == IF c.id = None THEN tc.id ELSE c.id
                   y == IF c.name = None THEN tc.name ELSE c.name
                   z == c.args \o tc.args
        <5>1. d = [c EXCEPT !.id = x, !.name = y, !.args = z]
          BY <4>2
        <5> HIDE DEF x, y, z, d
        <5>2. d = [index |-> c.index, id |-> x, name |-> y, args |-> z]
          BY <4>2, <5>1
        <5> QED
          BY <5>2 DEF x, y, z
      <4> HIDE DEF d
      <4>5. c.args \o tc.args \in Seq(Strings)
        BY <4>2, <4>3
      <4>6. d \in CallType(CallIds)
        BY <4>2, <4>3, <4>4, <4>5 DEF CallType
      <4>7. d.index = c.index /\ d.id = IF c.id = None THEN tc.id ELSE c.id
        BY <4>4
      <4>8. d \in G
        BY <4>6, <4>7, <3>1, <3>3, <1>2 DEF GivenType
      <4>9. tc.id # None => d.id = tc.id
        BY <4>7, <3>1, <3>3, <1>2
      <4> QED
        BY <4>1, <4>7, <4>8, <4>9 DEF c
    <3> QED
      BY <3>2, <3>3
  <2> HIDE DEF new, G, n
  <2>3. sum \in Seq(G) /\ DOMAIN sum = 1 .. n
    BY <1>1, <2>1, <2>2
  <2>4. IdsOf(calls) \subseteq IdsOf(sum)
    <3>1. \A k \in 1 .. n : calls[k].id # None => sum[k].id = calls[k].id
      BY <2>1, <2>2
    <3> QED
      BY <1>1, <2>3, <3>1 DEF IdsOf
  <2>5. tc.id # None => tc.id \in IdsOf(sum)
    <3>1. PICK k \in 1 .. n : calls[k].index = tc.index
      BY <1>1, <1>3
    <3>2. tc.id # None => sum[k].id = tc.id
      BY <2>1, <2>2, <3>1
    <3> QED
      BY <2>3, <3>2 DEF IdsOf
  <2> QED
    BY <2>3, <2>4, <2>5 DEF G
<1>4. CASE ~ \E k \in DOMAIN calls : calls[k].index = tc.index
  <2>1. sum = Append(calls, tc)
    BY <1>4 DEF Merged
  <2>2. sum \in Seq(G) /\ DOMAIN sum = 1 .. n + 1 /\ sum[n + 1] = tc
        /\ \A k \in 1 .. n : sum[k] = calls[k]
    <3> HIDE DEF G
    <3> QED
      BY <2>1 DEF G
  <2>3. IdsOf(calls) \subseteq IdsOf(sum)
    BY <1>1, <2>2 DEF IdsOf
  <2>4. tc.id # None => tc.id \in IdsOf(sum)
    <3>1. n + 1 \in DOMAIN sum
      BY <1>1, <2>2
    <3> QED
      BY <2>2, <3>1 DEF IdsOf
  <2> QED
    BY <2>2, <2>3, <2>4
<1> QED
  BY <1>3, <1>4

(* The sum of a message and its deltas has the ids of all of them. *)
LEMMA MergedAll ==
    ASSUME NEW t \in Threads, NEW at \in Nat, NEW calls \in Seq(GivenType(t, at)),
           NEW deltas \in Seq(GivenType(t, at))
    PROVE  /\ FoldLeft(Merged, calls, deltas) \in Seq(GivenType(t, at))
           /\ IdsOf(calls) \cup IdsOf(deltas) \subseteq IdsOf(FoldLeft(Merged, calls, deltas))
<1> DEFINE n == Len(deltas)
           V == Seq(GivenType(t, at))
           step(v, i) == Merged(v, deltas[i])
           h == [i \in 1 .. n |-> [v \in V |-> step(v, i)]]
           Is(it) == it = [z \in SUBSET DOMAIN deltas |->
                              IF z = {} THEN calls ELSE step(it[z \ {Max(z)}], Max(z))]
           it0 == CHOOSE it : Is(it)
<1>1. n \in Nat /\ DOMAIN deltas = 1 .. n
  OBVIOUS
<1>2. calls \in V /\ \A i \in 1 .. n, v \in V : step(v, i) \in V /\ h[i][v] = step(v, i)
  <2>1. calls \in V
    OBVIOUS
  <2>2. ASSUME NEW i \in 1 .. n, NEW v \in V PROVE step(v, i) \in V
    <3>1. deltas[i] \in GivenType(t, at)
      OBVIOUS
    <3> QED
      BY <3>1, MergedKeeps
  <2> HIDE DEF step, V
  <2> QED
    BY <2>1, <2>2
<1>3. FoldLeft(Merged, calls, deltas) = it0[DOMAIN deltas]
  BY DEF FoldLeft, MapThenFoldSet
<1>4. Maps(h, n, V)
  BY <1>2 DEF Maps
<1>5. PICK g : Makes(g, n, V, calls, h)
  <2> HIDE DEF h, n, V
  <2> QED
    BY <1>1, <1>2, <1>4, FoldMakes
<1>6. Is(g)
  <2> HIDE DEF h, V, n, step
  <2>1. \A z \in SUBSET (1 .. n) :
           g[z] = IF z = {} THEN calls ELSE step(g[z \ {Max(z)}], Max(z))
    BY <1>2, <1>5 DEF Makes
  <2> QED
    BY <1>1, <1>5, <2>1 DEF Makes
<1>7. Is(it0)
  <2> HIDE DEF Is
  <2> QED
    BY <1>6
<1>8. Unrolls(it0, n, V, calls, h)
  <2> HIDE DEF it0, n, V, step
  <2>1. \A z \in SUBSET (1 .. n) :
           it0[z] = IF z = {} THEN calls ELSE step(it0[z \ {Max(z)}], Max(z))
    BY <1>1, <1>7
  <2>2. ASSUME NEW z \in SUBSET (1 .. n), z # {}, it0[z \ {Max(z)}] \in V
        PROVE  it0[z] = h[Max(z)][it0[z \ {Max(z)}]]
    <3>1. Max(z) \in 1 .. n /\ it0[z] = step(it0[z \ {Max(z)}], Max(z))
      BY <1>1, <2>1, <2>2, GreatestIn
    <3> HIDE DEF h
    <3> QED
      BY <1>2, <2>2, <3>1
  <2>3. it0[{}] = calls
    BY <2>1
  <2> HIDE DEF h
  <2> QED
    BY <2>2, <2>3 DEF Unrolls
<1>9. PICK f : Walks(f, n, V, calls, h) /\ f[n] = it0[1 .. n]
  <2> HIDE DEF it0, n, V, h
  <2> QED
    BY <1>1, <1>2, <1>4, <1>8, FoldWalk
<1> DEFINE all == FoldLeft(Merged, calls, deltas)
           told(k) == {deltas[j].id : j \in 1 .. k} \ {None}
           T == {k \in Nat : k <= n => IdsOf(calls) \cup told(k) \subseteq IdsOf(f[k])}
<1>10. all = f[n]
  BY <1>1, <1>3, <1>9
<1>11. /\ f[0] = calls /\ f \in [0 .. n -> V]
       /\ \A k \in 0 .. n - 1 : f[k + 1] = h[k + 1][f[k]]
  BY <1>9 DEF Walks
<1> HIDE DEF all, it0, h
<1>12. 0 \in T
  BY <1>11
<1>13. ASSUME NEW k \in T PROVE k + 1 \in T
  <2> SUFFICES ASSUME k + 1 <= n
               PROVE  IdsOf(calls) \cup told(k + 1) \subseteq IdsOf(f[k + 1])
    OBVIOUS
  <2>1. k \in Nat /\ k \in 0 .. n - 1 /\ k + 1 \in 1 .. n /\ k \in 0 .. n
        /\ IdsOf(calls) \cup told(k) \subseteq IdsOf(f[k])
    OBVIOUS
  <2>2. f[k] \in Seq(GivenType(t, at))
    BY <1>11, <2>1
  <2>3. f[k + 1] = Merged(f[k], deltas[k + 1])
    BY <1>2, <1>11, <2>1
  <2>4. deltas[k + 1] \in GivenType(t, at)
    BY <2>1
  <2>5. IdsOf(f[k]) \cup ({deltas[k + 1].id} \ {None}) \subseteq IdsOf(f[k + 1])
    BY <2>2, <2>3, <2>4, MergedKeeps
  <2>6. told(k + 1) \subseteq told(k) \cup ({deltas[k + 1].id} \ {None})
    <3>1. \A j \in 1 .. k + 1 : j \in 1 .. k \/ j = k + 1
      BY <2>1
    <3> QED
      BY <3>1
  <2> HIDE DEF told
  <2> QED
    BY <2>1, <2>5, <2>6
<1>14. T = Nat
  <2>1. T \in SUBSET Nat
    OBVIOUS
  <2> HIDE DEF T
  <2> QED
    BY <1>12, <1>13, <2>1, Induction
<1>15. IdsOf(calls) \cup told(n) \subseteq IdsOf(f[n])
  <2>1. n \in T /\ n <= n
    BY <1>1, <1>14
  <2> HIDE DEF n, told
  <2> QED
    BY <2>1
<1>16. told(n) = IdsOf(deltas)
  BY <1>1 DEF IdsOf
<1>17. f[n] \in V
  <2> HIDE DEF V, n
  <2> QED
    BY <1>1, <1>11
<1> QED
  BY <1>10, <1>15, <1>16, <1>17 DEF all
-----------------------------------------------------------------------------
(* A refresh in the middle of a turn: what the response has told of calls that
   change state, and which of them are committed.                             *)
TurnType ==
    [pc : {"none", "agent", "saying", "tools", "closed", "cut", "broken"}, run : Nat, at : Nat,
     ids : [Indexes -> CallIds], said : AiType \cup {None}, rest : Seq(ChunkType(CallIds)),
     answer : Seq(Strings) \cup {None}, out : BOOLEAN]

NoticeType ==
    [id : {"interrupt"} \X Threads, role : {"ai"}, type : {"notification"}, content : Seq(Strings)]

OfTurns == Threads \X Nat

EventTypes == SpeechType(OfTurns) \cup CallEventType(OfTurns) \cup OutputType \cup NoticeType

ChatTypes ==
    /\ log \in [Threads -> Seq(MessageTypes)]
    /\ turn \in [Threads -> TurnType]
    /\ wire \in [Threads -> Seq(EventTypes)]
    /\ bundle.events \in Seq(Range(bundle.events))
    /\ \A l \in loads : l.log = None \/ l.log \in Seq(MessageTypes)
    /\ \A s \in strays : s = [thread |-> s.thread, n |-> s.n, todos |-> s.todos] /\ s.thread \in Threads

DeletedRests == deleting # None => sends[deleting.thread] = None

Committed(t, id) == \E k \in DOMAIN log[t] : log[t][k].role = "tool" /\ log[t][k].id = id

(* Of these events, the calls that change state, of one turn. *)
CallsIn(t, run, events) == {ev \in events : Mutates(ev) /\ ev.id = <<t, run>>}

ToldOf(t) == CallsIn(t, turn[t].run, Range(bundle.events) \cup Range(wire[t]))

(* The message a turn is in the middle of, and what is to come of it. *)
Utterance(t, now) ==
    /\ now.said \in AiType /\ now.said.calls \in Seq(GivenType(t, now.at))
    /\ \A k \in DOMAIN now.rest :
          /\ now.rest[k].calls \in Seq(GivenType(t, now.at))
          /\ \A tc \in Range(now.rest[k].calls) : Changes(tc) => tc.id # None
    /\ \A j, k \in DOMAIN now.rest : j < k /\ Acts(now.rest[j]) => ~HasText(now.rest[k])

(* The call belongs to that message, and the words of the message are over. *)
Saying(now, id) ==
    /\ id \in IdsOf(now.said.calls)
    /\ \A k \in DOMAIN now.rest : ~HasText(now.rest[k])

SpeaksOwn(t) == turn[t].pc = "saying" => Utterance(t, turn[t])

CallsAreLast(t) ==
    turn[t].pc = "tools" \/ pending[t] # None => log[t] # <<>> /\ Last(log[t]).role = "ai"

AsksLast(t) == turn[t].pc \in {"agent", "saying", "broken"} => pending[t] = None

WireIsOwn(t) ==
    /\ turn[t].pc = "none" => wire[t] = <<>>
    /\ \A p \in DOMAIN wire[t] : wire[t][p] \in SpeechType(OfTurns) \cup CallEventType(OfTurns) =>
          wire[t][p].id = <<t, turn[t].run>>

ShownIsOld(t) ==
    \A ev \in Range(bundle.events), r \in Nat : Mutates(ev) /\ ev.id = <<t, r>> => r <= turn[t].run

(* A call that was told is committed, or being said, or at work. *)
CallsFollow(t) ==
    \A ev \in ToldOf(t) :
        \/ Committed(t, ev.content.id)
        \/ turn[t].pc \notin {"agent", "saying", "tools"}
        \/ turn[t].pc = "saying" /\ Saying(turn[t], ev.content.id)
        \/ turn[t].pc = "tools" /\ ev.content.id \in IdsOf(Calls(t))

(* Whatever the model says in the response follows calls that are committed. *)
WordsFollow(t) ==
    \A p \in DOMAIN wire[t] : wire[t][p] \in SpeechType(OfTurns) =>
        \A ev \in CallsIn(t, turn[t].run, Range(bundle.events) \cup {wire[t][q] : q \in 1 .. p - 1}) :
            Committed(t, ev.content.id)

ThreadInv(t) ==
    /\ SpeaksOwn(t) /\ CallsAreLast(t) /\ AsksLast(t) /\ WireIsOwn(t) /\ ShownIsOld(t)
    /\ CallsFollow(t) /\ WordsFollow(t)

RefetchInv == ChatTypes /\ DeletedRests /\ \A t \in Threads : ThreadInv(t)
-----------------------------------------------------------------------------
LEMMA KindsDiffer ==
    /\ \A ev : Mutates(ev) => ev.type = "tool_call"
    /\ \A ids : \A ev \in SpeechType(ids) : ev.type \in {"reasoning", "text"} /\ ev.id \in ids
    /\ \A ids : \A ev \in CallEventType(ids) : ev.type = "tool_call" /\ ev.id \in ids
    /\ \A ev \in OutputType : ev.type = "tool_result"
    /\ \A ev \in NoticeType : ev.type = "notification"
  BY DEF Mutates, SpeechType, CallEventType, OutputType, NoticeType

(* Where the parts of a response lie that has grown by words and calls. *)
LEMMA Grown ==
    ASSUME NEW S, NEW w \in Seq(S), NEW u \in Seq(S), NEW v \in Seq(S),
           NEW s, s = w \o (u \o v)
    PROVE  /\ s \in Seq(S) /\ DOMAIN s = 1 .. Len(w) + Len(u) + Len(v)
           /\ Len(w) \in Nat /\ Len(u) \in Nat /\ Len(v) \in Nat
           /\ DOMAIN w = 1 .. Len(w) /\ DOMAIN u = 1 .. Len(u) /\ DOMAIN v = 1 .. Len(v)
           /\ \A p \in 1 .. Len(w) : s[p] = w[p]
           /\ \A p \in 1 .. Len(u) : s[Len(w) + p] = u[p]
           /\ \A p \in 1 .. Len(v) : s[Len(w) + Len(u) + p] = v[p]
           /\ \A p \in DOMAIN s : p \in 1 .. Len(w) \/ p - Len(w) \in 1 .. Len(u)
                                  \/ p - Len(w) - Len(u) \in 1 .. Len(v)
<1> DEFINE x == u \o v
<1>1. x \in Seq(S) /\ Len(x) = Len(u) + Len(v)
      /\ (\A p \in 1 .. Len(u) : x[p] = u[p])
      /\ (\A p \in 1 .. Len(v) : x[Len(u) + p] = v[p])
  OBVIOUS
<1> HIDE DEF x
<1>2. s = w \o x
  BY DEF x
<1>3. Len(w) \in Nat /\ Len(u) \in Nat /\ Len(v) \in Nat
      /\ DOMAIN w = 1 .. Len(w) /\ DOMAIN u = 1 .. Len(u) /\ DOMAIN v = 1 .. Len(v)
  OBVIOUS
<1>4. s \in Seq(S) /\ Len(s) = Len(w) + Len(x) /\ DOMAIN s = 1 .. Len(s)
      /\ (\A p \in 1 .. Len(w) : s[p] = w[p])
      /\ (\A p \in 1 .. Len(x) : s[Len(w) + p] = x[p])
  <2>1. x \in Seq(S)
    BY <1>1
  <2>2. s \in Seq(S) /\ Len(s) = Len(w) + Len(x)
    BY <1>2, <2>1
  <2>3. \A p \in 1 .. Len(w) : s[p] = w[p]
    BY <1>2, <2>1
  <2>4. \A p \in 1 .. Len(x) : s[Len(w) + p] = x[p]
    BY <1>2, <2>1
  <2> QED
    BY <2>2, <2>3, <2>4
<1>5. \A p \in 1 .. Len(u) : s[Len(w) + p] = u[p]
  BY <1>1, <1>3, <1>4
<1>6. \A p \in 1 .. Len(v) : s[Len(w) + Len(u) + p] = v[p]
  <2> SUFFICES ASSUME NEW p \in 1 .. Len(v) PROVE s[Len(w) + Len(u) + p] = v[p]
    OBVIOUS
  <2>1. Len(u) + p \in 1 .. Len(x) /\ Len(w) + (Len(u) + p) = Len(w) + Len(u) + p
    BY <1>1, <1>3
  <2> QED
    BY <1>1, <1>4, <2>1
<1> QED
  BY <1>1, <1>3, <1>4, <1>5, <1>6

(* The message grows by a chunk. *)
LEMMA SumTyped ==
    ASSUME NEW t \in Threads, NEW at \in Nat, NEW m \in AiType, m.calls \in Seq(GivenType(t, at)),
           NEW chunk \in ChunkType(CallIds), chunk.calls \in Seq(GivenType(t, at))
    PROVE  /\ WithChunk(m, chunk) \in AiType /\ WithChunk(m, chunk).calls \in Seq(GivenType(t, at))
           /\ IdsOf(m.calls) \cup IdsOf(chunk.calls) \subseteq IdsOf(WithChunk(m, chunk).calls)
<1> DEFINE calls == FoldLeft(Merged, m.calls, chunk.calls)
           parts == m.parts \o chunk.parts
<1>1. m = [role |-> m.role, id |-> m.id, parts |-> m.parts, calls |-> m.calls] /\ m.role = "ai"
      /\ m.id \in Nat /\ m.parts \in Seq(PartType) /\ chunk.parts \in Seq(PartType)
  BY DEF AiType, ChunkType
<1>2. calls \in Seq(GivenType(t, at))
      /\ IdsOf(m.calls) \cup IdsOf(chunk.calls) \subseteq IdsOf(calls)
  BY MergedAll
<1>3. parts \in Seq(PartType)
  BY <1>1
<1>4. WithChunk(m, chunk) = [m EXCEPT !.parts = parts, !.calls = calls]
  BY <1>1 DEF WithChunk
<1> HIDE DEF calls, parts
<1>5. WithChunk(m, chunk) = [role |-> m.role, id |-> m.id, parts |-> parts, calls |-> calls]
  BY <1>1, <1>4
<1>6. calls \in Seq(CallType(CallIds))
  <2>1. GivenType(t, at) \subseteq CallType(CallIds)
    BY DEF GivenType
  <2> QED
    BY <1>2, <2>1, SeqWider
<1> QED
  BY <1>1, <1>2, <1>3, <1>5, <1>6 DEF AiType

(* What the message will be when its next chunk has come. *)
Heard(now, ids) ==
    [now EXCEPT !.rest = Tail(@), !.ids = ids, !.said = WithChunk(@, Head(now.rest))]

LEMMA HeardTyped ==
    ASSUME NEW t \in Threads, NEW now \in TurnType, Utterance(t, now), now.rest # <<>>,
           NEW ids \in [Indexes -> CallIds], NEW new, new = Heard(now, ids)
    PROVE  /\ new \in TurnType /\ new.pc = now.pc /\ new.run = now.run /\ new.at = now.at
           /\ Utterance(t, new)
           /\ \A id : Saying(now, id) => Saying(new, id)
           /\ Acts(Head(now.rest)) => \A id \in IdsOf(Head(now.rest).calls) : Saying(new, id)
<1> DEFINE chunk == Head(now.rest)
           rest == Tail(now.rest)
           said == WithChunk(now.said, chunk)
<1>1. /\ now = [pc |-> now.pc, run |-> now.run, at |-> now.at, ids |-> now.ids, said |-> now.said,
                rest |-> now.rest, answer |-> now.answer, out |-> now.out]
      /\ now.at \in Nat /\ now.rest \in Seq(ChunkType(CallIds))
  BY DEF TurnType
<1>2. now.said \in AiType /\ now.said.calls \in Seq(GivenType(t, now.at))
  BY DEF Utterance
<1>3. Len(now.rest) \in Nat /\ Len(now.rest) >= 1 /\ DOMAIN now.rest = 1 .. Len(now.rest)
      /\ chunk = now.rest[1] /\ chunk \in ChunkType(CallIds)
  BY <1>1
<1>4. rest \in Seq(ChunkType(CallIds)) /\ DOMAIN rest = 1 .. Len(now.rest) - 1
      /\ \A k \in DOMAIN rest : k + 1 \in DOMAIN now.rest /\ rest[k] = now.rest[k + 1]
  BY <1>1, <1>3
<1>5. chunk.calls \in Seq(GivenType(t, now.at))
  BY <1>3 DEF Utterance
<1> HIDE DEF chunk, rest
<1>6. /\ said \in AiType /\ said.calls \in Seq(GivenType(t, now.at))
      /\ IdsOf(now.said.calls) \cup IdsOf(chunk.calls) \subseteq IdsOf(said.calls)
  BY <1>1, <1>2, <1>3, <1>5, SumTyped
<1> HIDE DEF said
<1>7. new = [now EXCEPT !.rest = rest, !.ids = ids, !.said = said]
  BY <1>1 DEF Heard, rest, said, chunk
<1>8. new = [pc |-> now.pc, run |-> now.run, at |-> now.at, ids |-> ids, said |-> said,
             rest |-> rest, answer |-> now.answer, out |-> now.out]
  BY <1>1, <1>7
<1>9. new \in TurnType /\ new.pc = now.pc /\ new.run = now.run /\ new.at = now.at
      /\ new.said = said /\ new.rest = rest
  BY <1>4, <1>6, <1>8 DEF TurnType
<1>10. Utterance(t, new)
  <2>1. ASSUME NEW k \in DOMAIN rest
        PROVE  /\ rest[k].calls \in Seq(GivenType(t, now.at))
               /\ \A tc \in Range(rest[k].calls) : Changes(tc) => tc.id # None
    BY <1>4 DEF Utterance
  <2>2. ASSUME NEW j \in DOMAIN rest, NEW k \in DOMAIN rest, j < k, Acts(rest[j])
        PROVE  ~HasText(rest[k])
    <3>1. j + 1 \in DOMAIN now.rest /\ k + 1 \in DOMAIN now.rest /\ j + 1 < k + 1
          /\ rest[j] = now.rest[j + 1] /\ rest[k] = now.rest[k + 1]
      BY <1>3, <1>4, <2>2
    <3> QED
      BY <2>2, <3>1 DEF Utterance
  <2> QED
    BY <1>6, <1>9, <2>1, <2>2 DEF Utterance
<1>11. ASSUME NEW id, Saying(now, id) PROVE Saying(new, id)
  BY <1>4, <1>6, <1>9, <1>11 DEF Saying
<1>12. ASSUME Acts(chunk), NEW id \in IdsOf(chunk.calls) PROVE Saying(new, id)
  <2>1. \A k \in DOMAIN rest : 1 \in DOMAIN now.rest /\ 1 < k + 1
    BY <1>3, <1>4
  <2>2. \A k \in DOMAIN rest : ~HasText(rest[k])
    BY <1>3, <1>4, <1>12, <2>1 DEF Utterance
  <2> QED
    BY <1>6, <1>9, <1>12, <2>2 DEF Saying
<1> QED
  BY <1>9, <1>10, <1>11, <1>12 DEF chunk
-----------------------------------------------------------------------------
(* A step of one turn leaves the other threads alone. *)
OthersRest(t) == \A u \in Threads \ {t} : UNCHANGED <<turn[u], pending[u], log[u], wire[u]>>

ServerTyped ==
    /\ log \in [Threads -> Seq(MessageTypes)]
    /\ turn \in [Threads -> TurnType]
    /\ wire \in [Threads -> Seq(EventTypes)]

(* Every call that was told is committed, or part of the message being said. *)
ToldBy(t, now) == \A ev \in ToldOf(t) : Committed(t, ev.content.id) \/ Saying(now, ev.content.id)

(* A chunk of a message comes: its words only when the calls told so far are
   committed, its calls as part of the message.                               *)
LEMMA SaysEffect ==
    ASSUME ServerTyped, NEW t \in Threads, ThreadInv(t), NEW now \in TurnType, now.pc = "saying",
           now.run = turn[t].run, Utterance(t, now), now.rest # <<>>, pending[t] = None,
           ToldBy(t, now), Says(t, now), UNCHANGED bundle
    PROVE  ServerTyped' /\ OthersRest(t) /\ ThreadInv(t)'
<1> DEFINE chunk == Head(now.rest)
           run == <<t, now.run>>
           told == CallChunkEvents(chunk.calls, run, now.ids)
           calls == told.events
           words == ContentEvents(chunk.parts, run)
           new == Heard(now, told.ids)
           w == wire[t]
           n == Len(w)
           s == w \o (words \o calls)
<1>1. /\ now.rest \in Seq(ChunkType(CallIds)) /\ now.ids \in [Indexes -> CallIds] /\ now.run \in Nat
      /\ now = [pc |-> now.pc, run |-> now.run, at |-> now.at, ids |-> now.ids, said |-> now.said,
                rest |-> now.rest, answer |-> now.answer, out |-> now.out]
  BY DEF TurnType
<1>2. chunk \in ChunkType(CallIds) /\ chunk = now.rest[1] /\ 1 \in DOMAIN now.rest
  BY <1>1
<1>3. chunk.role = "ai" /\ chunk.parts \in Seq(PartType) /\ chunk.calls \in Seq(CallType(CallIds))
  BY <1>2 DEF ChunkType
<1>4. \A tc \in Range(chunk.calls) : Changes(tc) => tc.id # None
  BY <1>2 DEF Utterance
<1>5. ChunkEvents(chunk, run, now.ids) = [ids |-> told.ids, events |-> words \o calls]
  BY <1>3 DEF ChunkEvents
<1>6. /\ turn' = [turn EXCEPT ![t] = new] /\ wire' = [wire EXCEPT ![t] = s]
      /\ UNCHANGED <<log, pending>>
  <2> DEFINE e == ChunkEvents(chunk, run, now.ids)
  <2>1. /\ turn' = [turn EXCEPT ![t] = Heard(now, e.ids)]
        /\ wire' = [wire EXCEPT ![t] = w \o e.events] /\ UNCHANGED <<log, pending>>
    BY DEF Says, Heard
  <2>2. e.ids = told.ids /\ e.events = words \o calls
    <3> HIDE DEF chunk, run, told, words, calls
    <3> QED
      BY <1>5
  <2> HIDE DEF e, told, words, calls
  <2> QED
    BY <2>1, <2>2
<1> HIDE DEF chunk
<1>7. /\ told.ids \in [Indexes -> CallIds] /\ calls \in Seq(CallEventType({run}))
      /\ \A k \in DOMAIN calls : Mutates(calls[k]) =>
            \E tc \in Range(chunk.calls) : Changes(tc) /\ tc.id = calls[k].content.id
  BY <1>1, <1>3, <1>4, CallChunksTyped
<1>8. words \in Seq(SpeechType({run})) /\ (~HasText(chunk) => words = <<>>)
  BY <1>3, ContentTyped DEF HasText
<1> HIDE DEF told, words, calls
<1>9. /\ new \in TurnType /\ new.pc = "saying" /\ new.run = turn[t].run /\ new.at = now.at
      /\ Utterance(t, new)
      /\ \A id : Saying(now, id) => Saying(new, id)
      /\ Acts(chunk) => \A id \in IdsOf(chunk.calls) : Saying(new, id)
  BY <1>7, HeardTyped DEF chunk
<1> HIDE DEF new
<1>10. run \in OfTurns
  BY <1>1 DEF OfTurns
<1>11. words \in Seq(EventTypes) /\ calls \in Seq(EventTypes)
  <2>1. SpeechType({run}) \subseteq EventTypes /\ CallEventType({run}) \subseteq EventTypes
    BY <1>10 DEF EventTypes, SpeechType, CallEventType
  <2> QED
    BY <1>7, <1>8, <2>1, SeqWider
<1>12. w \in Seq(EventTypes)
  BY DEF ServerTyped
<1> HIDE DEF w, run
<1>13. /\ s \in Seq(EventTypes) /\ DOMAIN s = 1 .. n + Len(words) + Len(calls)
       /\ n \in Nat /\ Len(words) \in Nat /\ Len(calls) \in Nat
       /\ DOMAIN w = 1 .. n /\ DOMAIN words = 1 .. Len(words) /\ DOMAIN calls = 1 .. Len(calls)
       /\ \A p \in 1 .. n : s[p] = w[p]
       /\ \A p \in 1 .. Len(words) : s[n + p] = words[p]
       /\ \A p \in 1 .. Len(calls) : s[n + Len(words) + p] = calls[p]
       /\ \A p \in DOMAIN s : p \in 1 .. n \/ p - n \in 1 .. Len(words)
                              \/ p - n - Len(words) \in 1 .. Len(calls)
  BY <1>11, <1>12, Grown
<1> HIDE DEF s, n
<1>14. ServerTyped' /\ OthersRest(t)
  BY <1>6, <1>9, <1>13 DEF ServerTyped, OthersRest
<1>15. turn'[t] = new /\ wire'[t] = s /\ log'[t] = log[t] /\ pending'[t] = pending[t]
       /\ bundle' = bundle /\ wire[t] = w
  BY <1>6 DEF ServerTyped, w
<1>16. ASSUME NEW p \in DOMAIN s
       PROVE  \/ p \in DOMAIN w /\ s[p] = w[p]
              \/ p > n /\ p - n \in DOMAIN words /\ s[p] \in SpeechType({run}) /\ words # <<>>
              \/ /\ s[p] \in CallEventType({run})
                 /\ \E k \in DOMAIN calls : s[p] = calls[k]
  <2>1. CASE p \in 1 .. n
    BY <2>1, <1>13
  <2>2. CASE p - n \in 1 .. Len(words)
    <3>1. s[p] = words[p - n] /\ p > n
      BY <2>2, <1>13
    <3> QED
      BY <2>2, <3>1, <1>8, <1>13
  <2>3. CASE p - n - Len(words) \in 1 .. Len(calls)
    <3>1. s[p] = calls[p - n - Len(words)]
      BY <2>3, <1>13
    <3> QED
      BY <2>3, <3>1, <1>7, <1>13
  <2> QED
    BY <2>1, <2>2, <2>3, <1>13
<1>17. WireIsOwn(t)'
  <2>1. ASSUME NEW p \in DOMAIN s, s[p] \in SpeechType(OfTurns) \cup CallEventType(OfTurns)
        PROVE  s[p].id = <<t, turn[t].run>>
    <3>1. p \in DOMAIN w /\ s[p] = w[p] => s[p].id = <<t, turn[t].run>>
      BY <1>15, <2>1 DEF ThreadInv, WireIsOwn
    <3> QED
      BY <1>16, <2>1, <3>1, KindsDiffer DEF run
  <2> QED
    BY <1>9, <1>15, <2>1 DEF WireIsOwn
<1>18. SpeaksOwn(t)' /\ CallsAreLast(t)' /\ AsksLast(t)' /\ ShownIsOld(t)'
  <2>1. SpeaksOwn(t)'
    BY <1>9, <1>15 DEF SpeaksOwn, Utterance
  <2>2. CallsAreLast(t)' /\ AsksLast(t)' /\ ShownIsOld(t)'
    BY <1>9, <1>15 DEF ThreadInv, CallsAreLast, AsksLast, ShownIsOld
  <2> QED
    BY <2>1, <2>2
<1>19. ASSUME NEW ev \in ToldOf(t)'
       PROVE  \/ ev \in ToldOf(t)
              \/ \E k \in DOMAIN calls : ev = calls[k]
  <2>1. Mutates(ev) /\ ev.id = <<t, turn[t].run>> /\ ev \in Range(bundle.events) \cup Range(s)
    BY <1>9, <1>15 DEF ToldOf, CallsIn, Mutates
  <2>2. ev \in Range(bundle.events) \cup Range(w) => ev \in ToldOf(t)
    BY <1>15, <2>1 DEF ToldOf, CallsIn
  <2>3. CASE ev \in Range(s)
    <3>1. PICK p \in DOMAIN s : ev = s[p]
      BY <2>3 DEF Range
    <3>2. ev \notin SpeechType({run})
      BY <2>1, KindsDiffer
    <3>3. p \in DOMAIN w /\ s[p] = w[p] => ev \in Range(w)
      BY <3>1 DEF Range
    <3> QED
      BY <1>16, <2>2, <3>1, <3>2, <3>3
  <2> QED
    BY <2>1, <2>2, <2>3
<1>20. CallsFollow(t)'
  <2> SUFFICES ASSUME NEW ev \in ToldOf(t)'
               PROVE  Committed(t, ev.content.id)' \/ Saying(new, ev.content.id)
    BY <1>9, <1>15 DEF CallsFollow, Saying
  <2>1. CASE ev \in ToldOf(t)
    BY <2>1, <1>9, <1>15 DEF ToldBy, Committed
  <2>2. CASE \E k \in DOMAIN calls : ev = calls[k]
    <3>1. PICK tc \in Range(chunk.calls) : Changes(tc) /\ tc.id = ev.content.id
      BY <2>2, <1>7 DEF ToldOf, CallsIn, Mutates
    <3>2. Acts(chunk) /\ tc.id \in IdsOf(chunk.calls)
      BY <1>4, <3>1 DEF Acts, IdsOf, Range
    <3> QED
      BY <1>9, <3>1, <3>2
  <2> QED
    BY <1>19, <2>1, <2>2
<1>21. WordsFollow(t)'
  <2> SUFFICES ASSUME NEW p \in DOMAIN s, s[p] \in SpeechType(OfTurns),
                      NEW ev \in CallsIn(t, turn[t].run, Range(bundle.events) \cup {s[q] : q \in 1 .. p - 1})
               PROVE  Committed(t, ev.content.id)
    BY <1>9, <1>15 DEF WordsFollow, Committed, CallsIn, Mutates
  <2>1. CASE p \in DOMAIN w /\ s[p] = w[p]
    <3>1. \A q \in 1 .. p - 1 : s[q] = w[q]
      BY <2>1, <1>13
    <3>2. ev \in CallsIn(t, turn[t].run, Range(bundle.events) \cup {w[q] : q \in 1 .. p - 1})
      BY <3>1 DEF CallsIn
    <3> QED
      BY <2>1, <3>2, <1>15 DEF ThreadInv, WordsFollow
  <2>2. CASE p > n /\ p - n \in DOMAIN words /\ words # <<>>
    <3>1. HasText(now.rest[1])
      BY <2>2, <1>2, <1>8
    <3>2. ev \in ToldOf(t)
      <4>1. Mutates(ev) /\ ev.id = <<t, turn[t].run>>
        BY DEF CallsIn
      <4>2. ASSUME NEW q \in 1 .. p - 1, ev = s[q] PROVE ev \in Range(w)
        <5>1. q \in DOMAIN s /\ ~(q - n - Len(words) \in 1 .. Len(calls))
          BY <2>2, <1>13
        <5>2. q \in 1 .. n \/ q - n \in 1 .. Len(words)
          BY <5>1, <1>13
        <5>3. CASE q \in 1 .. n
          BY <4>2, <5>3, <1>13 DEF Range
        <5>4. CASE q - n \in 1 .. Len(words)
          <6> DEFINE i == q - n
          <6>0. i \in 1 .. Len(words) /\ n + i = q
            BY <5>4, <1>13
          <6> HIDE DEF i
          <6>1. s[q] = words[q - n]
            <7>1. s[n + i] = words[i]
              BY <6>0, <1>13
            <7> QED
              BY <6>0, <7>1 DEF i
          <6>2. s[q] \in SpeechType({run})
            BY <5>4, <6>1, <1>8, <1>13
          <6> QED
            BY <4>1, <4>2, <6>2, KindsDiffer
        <5> QED
          BY <5>2, <5>3, <5>4
      <4> QED
        BY <4>1, <4>2, <1>15 DEF ToldOf, CallsIn
    <3>3. ~Saying(now, ev.content.id)
      BY <3>1, <1>2 DEF Saying
    <3> QED
      BY <3>2, <3>3 DEF ToldBy
  <2>3. CASE s[p] \in CallEventType({run})
    BY <2>3, KindsDiffer
  <2> QED
    BY <1>16, <2>1, <2>2, <2>3
<1> QED
  BY <1>14, <1>17, <1>18, <1>20, <1>21 DEF ThreadInv
-----------------------------------------------------------------------------
(* What a model says, with the ids the provider gives to its calls. *)
LEMMA WordedTyped ==
    ASSUME NEW t \in Threads, NEW at \in Nat, NEW script \in Scripts, SaysBeforeCalls,
           NEW rest, rest = Worded(script, t, at)
    PROVE  /\ rest \in Seq(ChunkType(CallIds)) /\ rest # <<>>
           /\ \A k \in DOMAIN rest :
                 /\ rest[k].calls \in Seq(GivenType(t, at))
                 /\ \A tc \in Range(rest[k].calls) : Changes(tc) => tc.id # None
           /\ \A j, k \in DOMAIN rest : j < k /\ Acts(rest[j]) => ~HasText(rest[k])
<1> DEFINE n == Len(script)
           call(k, j) == [script[k].calls[j] EXCEPT !.id =
                             IF script[k].calls[j].id = None THEN None
                             ELSE <<t, at, script[k].calls[j].index>>]
           calls(k) == [j \in DOMAIN script[k].calls |-> call(k, j)]
<1>1. /\ script \in Seq(ChunkType({"new", None})) /\ script # <<>>
      /\ \A k \in DOMAIN script : \A tc \in Range(script[k].calls) : tc.name # None => tc.id # None
  BY ServerAssumption
<1>2. n \in Nat /\ DOMAIN script = 1 .. n /\ n # 0
  BY <1>1
<1>3. rest = [k \in 1 .. n |-> [script[k] EXCEPT !.calls = calls(k)]]
  <2>1. rest = [k \in DOMAIN script |-> [script[k] EXCEPT !.calls = calls(k)]]
    BY DEF Worded
  <2> HIDE DEF calls, n
  <2> QED
    BY <1>2, <2>1
<1>4. ASSUME NEW k \in 1 .. n
      PROVE  /\ script[k].parts \in Seq(PartType)
             /\ script[k] = [role |-> script[k].role, parts |-> script[k].parts, calls |-> script[k].calls]
             /\ script[k].role = "ai" /\ script[k].calls \in Seq(CallType({"new", None}))
  <2>1. script[k] \in ChunkType({"new", None})
    BY <1>1, <1>2
  <2> QED
    BY <2>1 DEF ChunkType
<1>5. ASSUME NEW k \in 1 .. n, NEW j \in DOMAIN script[k].calls
      PROVE  /\ call(k, j) \in GivenType(t, at) /\ call(k, j).name = script[k].calls[j].name
             /\ Changes(call(k, j)) => call(k, j).id # None
  <2> DEFINE tc == script[k].calls[j]
  <2>1. tc \in CallType({"new", None}) /\ tc \in Range(script[k].calls)
    <3> DEFINE all == script[k].calls
    <3>1. all \in Seq(CallType({"new", None})) /\ j \in DOMAIN all
      BY <1>4
    <3> HIDE DEF all
    <3>2. all[j] \in CallType({"new", None}) /\ all[j] \in Range(all)
      BY <3>1 DEF Range
    <3> QED
      BY <3>2 DEF all
  <2>2. tc = [index |-> tc.index, id |-> tc.id, name |-> tc.name, args |-> tc.args]
        /\ tc.index \in Indexes /\ tc.name \in Strings \cup {None} /\ tc.args \in Seq(Strings)
    BY <2>1 DEF CallType
  <2>3. tc.name # None => tc.id # None
    BY <1>1, <1>2, <2>1
  <2> DEFINE id == IF tc.id = None THEN None ELSE <<t, at, tc.index>>
  <2>4. call(k, j) = [tc EXCEPT !.id = id]
    OBVIOUS
  <2>5. id \in CallIds /\ id \in {None, <<t, at, tc.index>>}
    BY <2>2 DEF CallIds
  <2>6. tc.id # None => id # None
    BY <2>2, ServerAssumption
  <2> HIDE DEF tc, id, call
  <2>7. call(k, j) = [index |-> tc.index, id |-> id, name |-> tc.name, args |-> tc.args]
    BY <2>2, <2>4
  <2>8. Changes(tc) => tc.name # None
    <3>1. STATE_MUTATING \subseteq Strings
      BY DEF STATE_MUTATING, Strings
    <3> QED
      BY <3>1, ServerAssumption DEF Changes
  <2>9. call(k, j) \in CallType(CallIds)
    BY <2>2, <2>5, <2>7 DEF CallType
  <2>10. call(k, j).name = tc.name /\ call(k, j).id = id /\ call(k, j).index = tc.index
    BY <2>7
  <2>11. Changes(call(k, j)) => call(k, j).id # None
    BY <2>3, <2>6, <2>8, <2>10 DEF Changes
  <2>12. call(k, j) \in GivenType(t, at)
    BY <2>5, <2>9, <2>10 DEF GivenType
  <2> QED
    BY <2>10, <2>11, <2>12 DEF tc
<1> HIDE DEF call
<1>6. ASSUME NEW k \in 1 .. n
      PROVE  /\ calls(k) \in Seq(GivenType(t, at)) /\ DOMAIN calls(k) = DOMAIN script[k].calls
             /\ \A j \in DOMAIN script[k].calls : calls(k)[j] = call(k, j)
  <2>1. DOMAIN script[k].calls = 1 .. Len(script[k].calls) /\ Len(script[k].calls) \in Nat
    BY <1>4
  <2> QED
    BY <1>5, <2>1
<1> HIDE DEF calls
<1>7. ASSUME NEW k \in 1 .. n
      PROVE  /\ rest[k] \in ChunkType(CallIds) /\ rest[k].parts = script[k].parts
             /\ rest[k].calls = calls(k)
  <2>1. rest[k] = [script[k] EXCEPT !.calls = calls(k)]
    BY <1>3
  <2>2. rest[k] = [role |-> script[k].role, parts |-> script[k].parts, calls |-> calls(k)]
    BY <1>4, <2>1
  <2>3. calls(k) \in Seq(CallType(CallIds))
    <3>1. GivenType(t, at) \subseteq CallType(CallIds)
      BY DEF GivenType
    <3> QED
      BY <1>6, <3>1, SeqWider
  <2> DEFINE parts == script[k].parts
             all == calls(k)
  <2>4. rest[k] = [role |-> "ai", parts |-> parts, calls |-> all]
    BY <1>4, <2>2
  <2>5. parts \in Seq(PartType)
    BY <1>4
  <2> HIDE DEF parts, all
  <2> QED
    BY <2>3, <2>4, <2>5 DEF ChunkType, parts, all
<1>8. rest \in Seq(ChunkType(CallIds)) /\ DOMAIN rest = 1 .. n /\ rest # <<>>
  <2>1. DOMAIN rest = 1 .. n /\ rest = [k \in 1 .. n |-> rest[k]]
    BY <1>3
  <2> QED
    BY <1>2, <1>7, <2>1
<1>9. ASSUME NEW k \in DOMAIN rest
      PROVE  /\ rest[k].calls \in Seq(GivenType(t, at))
             /\ \A tc \in Range(rest[k].calls) : Changes(tc) => tc.id # None
  BY <1>5, <1>6, <1>7, <1>8 DEF Range
<1>10. ASSUME NEW j \in DOMAIN rest, NEW k \in DOMAIN rest, j < k, Acts(rest[j])
       PROVE  ~HasText(rest[k])
  <2>1. PICK i \in DOMAIN script[j].calls : Changes(call(j, i))
    BY <1>6, <1>7, <1>8, <1>10 DEF Acts, Range
  <2>2. Changes(script[j].calls[i]) /\ script[j].calls[i] \in Range(script[j].calls)
    BY <1>5, <1>8, <2>1 DEF Changes, Range
  <2>3. ~HasText(script[k])
    BY <1>2, <1>8, <1>10, <2>2 DEF SaysBeforeCalls, Acts
  <2> QED
    BY <1>7, <1>8, <2>3 DEF HasText
<1> QED
  BY <1>8, <1>9, <1>10

LEMMA BlankTyped ==
    ASSUME NEW at \in Nat
    PROVE  Blank(at) \in AiType /\ Blank(at).calls = <<>>
  BY DEF Blank, AiType

(* The model begins to speak when the calls that were told are committed. *)
LEMMA SpeakEffect ==
    ASSUME ServerTyped, NEW t \in Threads, ThreadInv(t), SaysBeforeCalls, NEW script \in Scripts,
           Speak(t, script), UNCHANGED bundle
    PROVE  ServerTyped' /\ OthersRest(t) /\ ThreadInv(t)'
<1> DEFINE at == turn[t].at + 1
           rest == Worded(script, t, at)
           now == [turn[t] EXCEPT !.pc = "saying", !.at = at, !.said = Blank(at), !.rest = rest]
<1>1. turn[t] \in TurnType /\ turn[t].pc = "agent" /\ at \in Nat
  BY DEF ServerTyped, Speak, TurnType
<1>2. Says(t, now)
  BY DEF Speak
<1>3. /\ rest \in Seq(ChunkType(CallIds)) /\ rest # <<>>
      /\ \A k \in DOMAIN rest :
            /\ rest[k].calls \in Seq(GivenType(t, at))
            /\ \A tc \in Range(rest[k].calls) : Changes(tc) => tc.id # None
      /\ \A j, k \in DOMAIN rest : j < k /\ Acts(rest[j]) => ~HasText(rest[k])
  <2> HIDE DEF at
  <2> QED
    BY <1>1, WordedTyped
<1>4. Blank(at) \in AiType /\ Blank(at).calls = <<>>
  <2> HIDE DEF at
  <2> QED
    BY <1>1, BlankTyped
<1> HIDE DEF at, rest
<1>5. /\ now \in TurnType /\ now.pc = "saying" /\ now.run = turn[t].run /\ now.at = at
      /\ now.rest = rest /\ now.said = Blank(at)
  BY <1>1, <1>3, <1>4 DEF TurnType
<1> HIDE DEF now
<1>6. Utterance(t, now)
  <2>1. now.said \in AiType /\ now.said.calls = <<>>
    BY <1>4, <1>5
  <2>2. now.said.calls \in Seq(GivenType(t, now.at))
    BY <2>1
  <2> QED
    BY <1>3, <1>5, <2>1, <2>2 DEF Utterance
<1>7. ToldBy(t, now)
  BY <1>1 DEF ThreadInv, CallsFollow, ToldBy
<1>8. pending[t] = None
  BY <1>1 DEF ThreadInv, AsksLast
<1> QED
  BY <1>2, <1>3, <1>5, <1>6, <1>7, <1>8, SaysEffect

LEMMA ArrivesEffect ==
    ASSUME ServerTyped, NEW t \in Threads, ThreadInv(t), ChunkArrives(t), UNCHANGED bundle
    PROVE  ServerTyped' /\ OthersRest(t) /\ ThreadInv(t)'
<1>1. turn[t] \in TurnType /\ turn[t].pc = "saying" /\ turn[t].rest # <<>> /\ Says(t, turn[t])
  BY DEF ServerTyped, ChunkArrives
<1>2. Utterance(t, turn[t]) /\ pending[t] = None
  BY <1>1 DEF ThreadInv, SpeaksOwn, AsksLast
<1>3. ToldBy(t, turn[t])
  BY <1>1 DEF ThreadInv, CallsFollow, ToldBy
<1> QED
  BY <1>1, <1>2, <1>3, SaysEffect
-----------------------------------------------------------------------------
(* What tools have answered stays in the thread. *)
ResultsStay(t) ==
    \A k \in DOMAIN log[t] : log[t][k].role = "tool" =>
        \E j \in DOMAIN log'[t] : log'[t][j].role = "tool" /\ log'[t][j].id = log[t][k].id

(* The response tells of nothing but outputs and the end. *)
OutputsOnly(t, v) ==
    /\ UNCHANGED bundle /\ turn'[t].run = turn[t].run
    /\ v \in Seq(OutputType \cup NoticeType) /\ wire'[t] = wire[t] \o v

LEMMA QuietKeeps ==
    ASSUME ServerTyped, NEW t \in Threads, ThreadInv(t), turn'[t].pc # "none",
           NEW v, OutputsOnly(t, v), ResultsStay(t)
    PROVE  /\ WireIsOwn(t)' /\ ShownIsOld(t)' /\ WordsFollow(t)'
           /\ \A ev \in ToldOf(t)' : ev \in ToldOf(t)
           /\ \A id : Committed(t, id) => Committed(t, id)'
<1> DEFINE w == wire[t]
           s == w \o v
           E == EventTypes \cup OutputType \cup NoticeType
<1>1. w \in Seq(EventTypes) /\ v \in Seq(OutputType \cup NoticeType)
  BY DEF ServerTyped, OutputsOnly
<1>2. bundle' = bundle /\ turn'[t].run = turn[t].run /\ wire'[t] = s /\ wire[t] = w
  BY DEF OutputsOnly
<1> HIDE DEF w
<1>3. /\ Len(w) \in Nat /\ Len(v) \in Nat /\ DOMAIN w = 1 .. Len(w) /\ DOMAIN v = 1 .. Len(v)
      /\ DOMAIN s = 1 .. Len(w) + Len(v)
      /\ \A p \in 1 .. Len(w) : s[p] = w[p]
      /\ \A p \in 1 .. Len(v) : s[Len(w) + p] = v[p]
  <2>1. w \in Seq(E) /\ v \in Seq(E)
    <3>1. EventTypes \subseteq E /\ OutputType \cup NoticeType \subseteq E
      OBVIOUS
    <3> HIDE DEF E
    <3> QED
      BY <1>1, <3>1, SeqWider
  <2> HIDE DEF E
  <2>2. s \in Seq(E) /\ Len(s) = Len(w) + Len(v)
    BY <2>1
  <2>3. \A p \in 1 .. Len(w) : s[p] = w[p]
    BY <2>1
  <2>4. \A p \in 1 .. Len(v) : s[Len(w) + p] = v[p]
    BY <2>1
  <2>5. Len(w) \in Nat /\ Len(v) \in Nat /\ DOMAIN w = 1 .. Len(w) /\ DOMAIN v = 1 .. Len(v)
    BY <2>1
  <2>6. DOMAIN s = 1 .. Len(s)
    BY <2>2
  <2> HIDE DEF s
  <2> QED
    BY <2>2, <2>3, <2>4, <2>5, <2>6
<1> HIDE DEF s
<1>4. ASSUME NEW p \in DOMAIN s
      PROVE  (p \in DOMAIN w /\ s[p] = w[p]) \/ s[p] \in OutputType \cup NoticeType
  <2>1. CASE p \in 1 .. Len(w)
    BY <2>1, <1>3
  <2>2. CASE p \notin 1 .. Len(w)
    <3>1. p - Len(w) \in 1 .. Len(v) /\ Len(w) + (p - Len(w)) = p
      BY <2>2, <1>3
    <3>2. s[p] = v[p - Len(w)]
      BY <3>1, <1>3
    <3>3. v[p - Len(w)] \in OutputType \cup NoticeType
      BY <3>1, <1>1, <1>3
    <3> QED
      BY <3>2, <3>3
  <2> QED
    BY <2>1, <2>2
<1>5. ASSUME NEW id, Committed(t, id) PROVE Committed(t, id)'
  BY <1>5 DEF Committed, ResultsStay
<1>6. WireIsOwn(t)'
  <2>1. ASSUME NEW p \in DOMAIN s, s[p] \in SpeechType(OfTurns) \cup CallEventType(OfTurns)
        PROVE  s[p].id = <<t, turn[t].run>>
    BY <1>2, <1>4, <2>1, KindsDiffer DEF ThreadInv, WireIsOwn
  <2> QED
    BY <1>2, <2>1 DEF WireIsOwn
<1>7. ShownIsOld(t)'
  BY <1>2 DEF ThreadInv, ShownIsOld
<1>8. ASSUME NEW ev \in ToldOf(t)' PROVE ev \in ToldOf(t)
  <2>1. Mutates(ev) /\ ev.id = <<t, turn[t].run>> /\ ev \in Range(bundle.events) \cup Range(s)
    BY <1>2 DEF ToldOf, CallsIn, Mutates
  <2>2. ev \in Range(s) => ev \in Range(w)
    BY <1>4, <2>1, KindsDiffer DEF Range
  <2> QED
    BY <1>2, <2>1, <2>2 DEF ToldOf, CallsIn
<1>9. WordsFollow(t)'
  <2> SUFFICES ASSUME NEW p \in DOMAIN s, s[p] \in SpeechType(OfTurns),
                      NEW ev \in CallsIn(t, turn[t].run, Range(bundle.events) \cup {s[q] : q \in 1 .. p - 1})
               PROVE  Committed(t, ev.content.id)
    BY <1>2, <1>5 DEF WordsFollow, CallsIn, Mutates
  <2>1. p \in DOMAIN w /\ s[p] = w[p]
    BY <1>4, KindsDiffer
  <2>2. \A q \in 1 .. p - 1 : s[q] = w[q]
    BY <2>1, <1>3
  <2>3. ev \in CallsIn(t, turn[t].run, Range(bundle.events) \cup {w[q] : q \in 1 .. p - 1})
    BY <2>2 DEF CallsIn
  <2> QED
    BY <2>1, <2>3, <1>2 DEF ThreadInv, WordsFollow
<1> QED
  BY <1>5, <1>6, <1>7, <1>8, <1>9

(* The same when nothing is told. *)
LEMMA SilentKeeps ==
    ASSUME ServerTyped, NEW t \in Threads, ThreadInv(t), turn'[t].pc # "none",
           bundle' = bundle, turn'[t].run = turn[t].run, wire'[t] = wire[t], ResultsStay(t)
    PROVE  /\ WireIsOwn(t)' /\ ShownIsOld(t)' /\ WordsFollow(t)'
           /\ \A ev \in ToldOf(t)' : ev \in ToldOf(t)
           /\ \A id : Committed(t, id) => Committed(t, id)'
<1>1. wire[t] \in Seq(EventTypes)
  BY DEF ServerTyped
<1>2. OutputsOnly(t, <<>>)
  BY <1>1 DEF OutputsOnly
<1> QED
  BY <1>2, QuietKeeps

LEMMA AiIsMessage == AiType \subseteq MessageTypes /\ \A m \in MessageTypes : m.role = "ai" => m \in AiType
  BY DEF AiType, MessageTypes

(* The calls of the last message. *)
LEMMA LastCalls ==
    ASSUME ServerTyped, NEW t \in Threads, log[t] # <<>>, Last(log[t]).role = "ai"
    PROVE  /\ log[t] \in Seq(MessageTypes) /\ Len(log[t]) \in Nat /\ Len(log[t]) >= 1
           /\ Last(log[t]) = log[t][Len(log[t])] /\ Last(log[t]) \in AiType
           /\ Calls(t) \in Seq(CallType(CallIds))
<1> DEFINE s == log[t]
<1>1. s \in Seq(MessageTypes) /\ s # <<>>
  BY DEF ServerTyped
<1> HIDE DEF s
<1>2. Len(s) \in Nat /\ Len(s) >= 1 /\ Last(s) = s[Len(s)] /\ s[Len(s)] \in MessageTypes
  BY <1>1 DEF Last
<1>3. Last(s) \in AiType
  BY <1>2, AiIsMessage DEF s
<1>4. Last(s).calls \in Seq(CallType(CallIds))
  BY <1>3 DEF AiType
<1> QED
  BY <1>1, <1>2, <1>3, <1>4 DEF s, Calls

(* Messages are appended to a thread. *)
LEMMA Appended ==
    ASSUME ServerTyped, NEW t \in Threads, NEW v \in Seq(MessageTypes),
           log' = [log EXCEPT ![t] = log[t] \o v]
    PROVE  /\ log' \in [Threads -> Seq(MessageTypes)] /\ \A u \in Threads \ {t} : log'[u] = log[u]
           /\ ResultsStay(t)
           /\ \A k \in DOMAIN v : \E j \in DOMAIN log'[t] : log'[t][j] = v[k]
<1> DEFINE w == log[t]
           s == w \o v
<1>1. w \in Seq(MessageTypes) /\ log \in [Threads -> Seq(MessageTypes)]
  BY DEF ServerTyped
<1> HIDE DEF w
<1>2. s \in Seq(MessageTypes) /\ Len(s) = Len(w) + Len(v)
  BY <1>1
<1>3. (\A p \in 1 .. Len(w) : s[p] = w[p]) /\ (\A p \in 1 .. Len(v) : s[Len(w) + p] = v[p])
  BY <1>1
<1>4. Len(w) \in Nat /\ Len(v) \in Nat /\ DOMAIN w = 1 .. Len(w) /\ DOMAIN v = 1 .. Len(v)
      /\ DOMAIN s = 1 .. Len(s)
  BY <1>1, <1>2
<1>5. log'[t] = s /\ w = log[t]
  BY <1>1 DEF w
<1> HIDE DEF s
<1>6. \A k \in DOMAIN w : k \in DOMAIN s /\ s[k] = w[k]
  BY <1>2, <1>3, <1>4
<1>7. ResultsStay(t)
  BY <1>5, <1>6 DEF ResultsStay
<1>8. \A k \in DOMAIN v : Len(w) + k \in DOMAIN s /\ s[Len(w) + k] = v[k]
  BY <1>2, <1>3, <1>4
<1> QED
  BY <1>1, <1>2, <1>5, <1>7, <1>8 DEF s, w

LEMMA NothingAppended ==
    ASSUME NEW t \in Threads, log'[t] = log[t]
    PROVE  ResultsStay(t)
  BY DEF ResultsStay

(* The message is committed, and its calls are at work. *)
LEMMA CommitEffect ==
    ASSUME ServerTyped, NEW t \in Threads, ThreadInv(t), MessageCommits(t), UNCHANGED bundle
    PROVE  ServerTyped' /\ OthersRest(t) /\ ThreadInv(t)'
<1> DEFINE m == turn[t].said
           pc == IF m.calls = <<>> THEN "closed" ELSE "tools"
<1>1. /\ turn[t].pc = "saying" /\ turn[t].rest = <<>> /\ turn[t] \in TurnType
      /\ log' = [log EXCEPT ![t] = Append(@, m)]
      /\ turn' = [turn EXCEPT ![t].pc = pc, ![t].out = FALSE]
      /\ UNCHANGED <<pending, wire>>
  BY DEF MessageCommits, ServerTyped
<1>2. Utterance(t, turn[t]) /\ pending[t] = None
  BY <1>1 DEF ThreadInv, SpeaksOwn, AsksLast
<1>3. m \in AiType /\ m \in MessageTypes /\ m.role = "ai"
  BY <1>2, AiIsMessage DEF Utterance, AiType
<1> HIDE DEF m
<1>4. log[t] \in Seq(MessageTypes) /\ log \in [Threads -> Seq(MessageTypes)]
      /\ turn \in [Threads -> TurnType] /\ wire \in [Threads -> Seq(EventTypes)]
  BY DEF ServerTyped
<1>5. log' = [log EXCEPT ![t] = log[t] \o <<m>>] /\ <<m>> \in Seq(MessageTypes)
  <2> DEFINE s == log[t]
  <2>1. s \in Seq(MessageTypes) /\ log' = [log EXCEPT ![t] = Append(s, m)]
    BY <1>1, <1>4
  <2> HIDE DEF s
  <2>2. Append(s, m) = s \o <<m>> /\ <<m>> \in Seq(MessageTypes)
    BY <1>3, <2>1
  <2>3. log' = [log EXCEPT ![t] = s \o <<m>>]
    BY <2>1, <2>2
  <2> QED
    BY <2>2, <2>3 DEF s
<1>6. /\ log' \in [Threads -> Seq(MessageTypes)] /\ \A u \in Threads \ {t} : log'[u] = log[u]
      /\ ResultsStay(t)
  BY <1>5, Appended
<1>7. pc \in {"closed", "tools"}
  OBVIOUS
<1> HIDE DEF pc
<1>8. /\ turn' \in [Threads -> TurnType] /\ turn'[t].pc = pc /\ turn'[t].run = turn[t].run
      /\ \A u \in Threads \ {t} : turn'[u] = turn[u]
  BY <1>1, <1>4, <1>7 DEF TurnType
<1>9. ServerTyped' /\ OthersRest(t)
  BY <1>1, <1>4, <1>6, <1>8 DEF ServerTyped, OthersRest
<1>10. /\ WireIsOwn(t)' /\ ShownIsOld(t)' /\ WordsFollow(t)'
       /\ \A ev \in ToldOf(t)' : ev \in ToldOf(t)
       /\ \A id : Committed(t, id) => Committed(t, id)'
  BY <1>1, <1>6, <1>7, <1>8, SilentKeeps
<1>11. log'[t] # <<>> /\ Last(log'[t]) = m
  <2> DEFINE s == log[t]
  <2>1. s \in Seq(MessageTypes) /\ log'[t] = Append(s, m)
    BY <1>1, <1>4
  <2> HIDE DEF s
  <2>2. Append(s, m) # <<>> /\ Append(s, m)[Len(Append(s, m))] = m
    BY <2>1, <1>3
  <2> QED
    BY <2>1, <2>2 DEF Last
<1>12. CallsAreLast(t)'
  BY <1>3, <1>11 DEF CallsAreLast
<1>13. SpeaksOwn(t)' /\ AsksLast(t)'
  BY <1>7, <1>8 DEF SpeaksOwn, AsksLast
<1>14. CallsFollow(t)'
  <2> SUFFICES ASSUME NEW ev \in ToldOf(t)'
               PROVE  \/ Committed(t, ev.content.id)'
                      \/ pc = "closed"
                      \/ pc = "tools" /\ ev.content.id \in IdsOf(m.calls)
    BY <1>8, <1>11 DEF CallsFollow, Calls
  <2>1. Committed(t, ev.content.id) \/ Saying(turn[t], ev.content.id)
    BY <1>1, <1>10 DEF ThreadInv, CallsFollow
  <2>2. Saying(turn[t], ev.content.id) => ev.content.id \in IdsOf(m.calls) /\ m.calls # <<>>
    BY DEF Saying, m, IdsOf
  <2> QED
    BY <1>10, <2>1, <2>2 DEF pc
<1> QED
  BY <1>9, <1>10, <1>12, <1>13, <1>14 DEF ThreadInv

LEMMA FailsEffect ==
    ASSUME ServerTyped, NEW t \in Threads, ThreadInv(t), Fails(t), UNCHANGED bundle
    PROVE  ServerTyped' /\ OthersRest(t) /\ ThreadInv(t)'
<1>1. /\ turn[t].pc \in {"agent", "saying"} /\ turn[t] \in TurnType
      /\ turn' = [turn EXCEPT ![t].pc = "broken"] /\ UNCHANGED <<log, pending, wire>>
      /\ turn \in [Threads -> TurnType]
  BY DEF Fails, ServerTyped
<1>2. /\ turn' \in [Threads -> TurnType] /\ turn'[t].pc = "broken" /\ turn'[t].run = turn[t].run
      /\ \A u \in Threads \ {t} : turn'[u] = turn[u]
  BY <1>1 DEF TurnType
<1>3. ServerTyped' /\ OthersRest(t)
  BY <1>1, <1>2 DEF ServerTyped, OthersRest
<1>4. ResultsStay(t)
  BY <1>1, NothingAppended
<1>5. WireIsOwn(t)' /\ ShownIsOld(t)' /\ WordsFollow(t)'
  BY <1>1, <1>2, <1>4, SilentKeeps
<1>6. pending[t] = None
  BY <1>1 DEF ThreadInv, AsksLast
<1>7. SpeaksOwn(t)' /\ CallsAreLast(t)' /\ AsksLast(t)' /\ CallsFollow(t)'
  BY <1>1, <1>2, <1>6 DEF SpeaksOwn, CallsAreLast, AsksLast, CallsFollow
<1> QED
  BY <1>3, <1>5, <1>7 DEF ThreadInv
-----------------------------------------------------------------------------
(* A tool writes while it runs. *)
LEMMA PrintEffect ==
    ASSUME ServerTyped, NEW t \in Threads, ThreadInv(t), ToolPrints(t), UNCHANGED bundle
    PROVE  ServerTyped' /\ OthersRest(t) /\ ThreadInv(t)'
<1>1. /\ turn[t].pc = "tools" /\ turn[t] \in TurnType /\ UNCHANGED <<log, pending>>
      /\ turn' = [turn EXCEPT ![t].out = TRUE]
      /\ turn \in [Threads -> TurnType] /\ wire \in [Threads -> Seq(EventTypes)]
  BY DEF ToolPrints, ServerTyped
<1>2. log[t] # <<>> /\ Last(log[t]).role = "ai"
  BY <1>1 DEF ThreadInv, CallsAreLast
<1>3. PICK k \in Named(t, "bash") :
         wire' = [wire EXCEPT ![t] = @ \o ChunkEvents(
                    [role |-> "tool", id |-> Calls(t)[k].id, content |-> <<"out">>],
                    turn[t].run, turn[t].ids).events]
  BY DEF ToolPrints
<1> DEFINE id == Calls(t)[k].id
           v == <<Event(id, "tool_result", "tool_result", <<"out">>)>>
<1>4. id \in CallIds
  <2> DEFINE calls == Calls(t)
  <2>1. calls \in Seq(CallType(CallIds)) /\ k \in DOMAIN calls
    BY <1>2, <1>3, LastCalls DEF Named
  <2> HIDE DEF calls
  <2>2. calls[k] \in CallType(CallIds)
    BY <2>1
  <2> QED
    BY <2>2 DEF calls, CallType
<1>5. wire' = [wire EXCEPT ![t] = wire[t] \o v]
  BY <1>3 DEF ChunkEvents
<1> HIDE DEF id
<1>6. v \in Seq(OutputType)
  <2>1. <<"out">> \in Seq(Strings)
    BY DEF Strings
  <2>2. Event(id, "tool_result", "tool_result", <<"out">>) \in OutputType
    BY <1>4, <2>1 DEF Event, OutputType
  <2> QED
    BY <2>2
<1> HIDE DEF v
<1>7. v \in Seq(EventTypes) /\ v \in Seq(OutputType \cup NoticeType)
  <2>1. OutputType \subseteq EventTypes /\ OutputType \subseteq OutputType \cup NoticeType
    BY DEF EventTypes
  <2> QED
    BY <1>6, <2>1, SeqWider
<1>8. /\ turn' \in [Threads -> TurnType] /\ turn'[t].pc = "tools" /\ turn'[t].run = turn[t].run
      /\ \A u \in Threads \ {t} : turn'[u] = turn[u]
  BY <1>1 DEF TurnType
<1>9. /\ wire' \in [Threads -> Seq(EventTypes)] /\ wire'[t] = wire[t] \o v
      /\ \A u \in Threads \ {t} : wire'[u] = wire[u]
  <2>1. wire[t] \o v \in Seq(EventTypes)
    BY <1>1, <1>7
  <2> QED
    BY <1>1, <1>5, <2>1
<1>10. ServerTyped' /\ OthersRest(t)
  BY <1>1, <1>8, <1>9 DEF ServerTyped, OthersRest
<1>11. OutputsOnly(t, v) /\ ResultsStay(t) /\ turn'[t].pc # "none"
  BY <1>1, <1>7, <1>8, <1>9, NothingAppended DEF OutputsOnly
<1>12. /\ WireIsOwn(t)' /\ ShownIsOld(t)' /\ WordsFollow(t)'
       /\ \A ev \in ToldOf(t)' : ev \in ToldOf(t)
       /\ \A i : Committed(t, i) => Committed(t, i)'
  BY <1>11, QuietKeeps
<1>13. SpeaksOwn(t)' /\ CallsAreLast(t)' /\ AsksLast(t)'
  BY <1>1, <1>2, <1>8 DEF SpeaksOwn, CallsAreLast, AsksLast
<1>14. CallsFollow(t)'
  BY <1>1, <1>8, <1>12 DEF ThreadInv, CallsFollow, Calls
<1> QED
  BY <1>10, <1>12, <1>13, <1>14 DEF ThreadInv

(* The answers of tools to the calls of the last message. *)
LEMMA RepliesTyped ==
    ASSUME ServerTyped, NEW t \in Threads, log[t] # <<>>, Last(log[t]).role = "ai",
           NEW contents, \A k \in DOMAIN Calls(t) : contents[k] \in Seq(Strings),
           NEW v, v = [k \in DOMAIN Calls(t) |-> Reply(t, k, contents[k])]
    PROVE  /\ v \in Seq(MessageTypes) /\ DOMAIN v = DOMAIN Calls(t)
           /\ \A k \in DOMAIN v : v[k].role = "tool" /\ v[k].id = Calls(t)[k].id
<1> DEFINE calls == Calls(t)
<1>1. calls \in Seq(CallType(CallIds))
  BY LastCalls
<1>2. DOMAIN v = DOMAIN calls /\ v = [k \in DOMAIN calls |-> v[k]]
      /\ \A k \in DOMAIN calls : v[k] = [role |-> "tool", id |-> calls[k].id, content |-> contents[k]]
  BY DEF Reply
<1>3. \A k \in DOMAIN calls : contents[k] \in Seq(Strings)
  OBVIOUS
<1> HIDE DEF calls
<1>4. DOMAIN calls = 1 .. Len(calls) /\ Len(calls) \in Nat
  BY <1>1
<1>5. ASSUME NEW k \in DOMAIN calls PROVE v[k] \in MessageTypes
  <2>1. calls[k].id \in CallIds
    <3>1. calls[k] \in CallType(CallIds)
      BY <1>1
    <3> QED
      BY <3>1 DEF CallType
  <2> DEFINE id == calls[k].id
             content == contents[k]
  <2>2. v[k] = [role |-> "tool", id |-> id, content |-> content]
    BY <1>2
  <2>3. content \in Seq(Strings)
    BY <1>3
  <2> HIDE DEF id, content
  <2>4. v[k] \in [role : {"tool"}, id : CallIds, content : Seq(Strings)]
    BY <2>1, <2>2, <2>3 DEF id
  <2> QED
    BY <2>4 DEF MessageTypes
<1>6. v \in Seq(MessageTypes)
  BY <1>2, <1>4, <1>5
<1>7. ASSUME NEW k \in DOMAIN calls PROVE v[k].role = "tool" /\ v[k].id = calls[k].id
  <2> DEFINE id == calls[k].id
             content == contents[k]
  <2>1. v[k] = [role |-> "tool", id |-> id, content |-> content]
    BY <1>2
  <2> HIDE DEF id, content
  <2>2. v[k].role = "tool" /\ v[k].id = id
    BY <2>1
  <2> QED
    BY <2>2 DEF id
<1> QED
  BY <1>2, <1>6, <1>7 DEF calls

(* The tools have ended: the calls are committed, or a question waits. *)
LEMMA ToolsEffect ==
    ASSUME ServerTyped, NEW t \in Threads, ThreadInv(t), DOMAIN pending = Threads,
           ToolsEnd(t), UNCHANGED bundle
    PROVE  ServerTyped' /\ OthersRest(t) /\ ThreadInv(t)'
<1>1. /\ turn[t].pc = "tools" /\ turn[t] \in TurnType /\ UNCHANGED wire
      /\ turn \in [Threads -> TurnType] /\ wire \in [Threads -> Seq(EventTypes)]
      /\ log \in [Threads -> Seq(MessageTypes)]
  BY DEF ToolsEnd, ServerTyped
<1>2. log[t] # <<>> /\ Last(log[t]).role = "ai"
  BY <1>1 DEF ThreadInv, CallsAreLast
<1>3. CASE Named(t, "Ask") # {} /\ turn[t].answer = None
  <2>1. /\ pending' = [pending EXCEPT ![t] = turn[t].at] /\ log' = log
        /\ turn' = [turn EXCEPT ![t].pc = "closed"]
    BY <1>3 DEF ToolsEnd
  <2>2. /\ turn' \in [Threads -> TurnType] /\ turn'[t].pc = "closed" /\ turn'[t].run = turn[t].run
        /\ \A u \in Threads \ {t} : turn'[u] = turn[u]
    BY <1>1, <2>1 DEF TurnType
  <2>3. \A u \in Threads \ {t} : pending'[u] = pending[u]
    BY <2>1
  <2>4. ServerTyped' /\ OthersRest(t)
    BY <1>1, <2>1, <2>2, <2>3 DEF ServerTyped, OthersRest
  <2>5. ResultsStay(t)
    BY <2>1, NothingAppended
  <2>6. WireIsOwn(t)' /\ ShownIsOld(t)' /\ WordsFollow(t)'
    BY <1>1, <2>2, <2>5, SilentKeeps
  <2>7. SpeaksOwn(t)' /\ CallsAreLast(t)' /\ AsksLast(t)' /\ CallsFollow(t)'
    BY <1>2, <2>1, <2>2 DEF SpeaksOwn, CallsAreLast, AsksLast, CallsFollow
  <2> QED
    BY <2>4, <2>6, <2>7 DEF ThreadInv
<1>4. CASE ~(Named(t, "Ask") # {} /\ turn[t].answer = None)
  <2> DEFINE contents == [k \in DOMAIN Calls(t) |->
                 IF Calls(t)[k].name = "Ask" THEN turn[t].answer
                 ELSE IF Calls(t)[k].name = "bash" THEN <<"out">> ELSE <<"done">>]
             v == [k \in DOMAIN Calls(t) |-> Reply(t, k, contents[k])]
  <2>1. /\ log' = [log EXCEPT ![t] = @ \o v]
        /\ pending' = [pending EXCEPT ![t] = None]
        /\ turn' = [turn EXCEPT ![t].pc = "agent", ![t].answer = None]
    BY <1>4 DEF ToolsEnd
  <2>2. ASSUME NEW k \in DOMAIN Calls(t) PROVE contents[k] \in Seq(Strings)
    <3>1. <<"out">> \in Seq(Strings) /\ <<"done">> \in Seq(Strings)
      BY DEF Strings
    <3>2. Calls(t)[k].name = "Ask" => turn[t].answer # None
      BY <1>4 DEF Named
    <3>3. turn[t].answer # None => turn[t].answer \in Seq(Strings)
      BY <1>1 DEF TurnType
    <3> QED
      BY <3>1, <3>2, <3>3
  <2> HIDE DEF contents
  <2>3. /\ v \in Seq(MessageTypes) /\ DOMAIN v = DOMAIN Calls(t)
        /\ \A k \in DOMAIN v : v[k].role = "tool" /\ v[k].id = Calls(t)[k].id
    BY <1>2, <2>2, RepliesTyped
  <2> HIDE DEF v
  <2>4. log' = [log EXCEPT ![t] = log[t] \o v]
    BY <2>1
  <2>5. /\ log' \in [Threads -> Seq(MessageTypes)] /\ \A u \in Threads \ {t} : log'[u] = log[u]
        /\ ResultsStay(t)
        /\ \A k \in DOMAIN v : \E j \in DOMAIN log'[t] : log'[t][j] = v[k]
    BY <2>3, <2>4, Appended
  <2>6. /\ turn' \in [Threads -> TurnType] /\ turn'[t].pc = "agent" /\ turn'[t].run = turn[t].run
        /\ \A u \in Threads \ {t} : turn'[u] = turn[u]
    BY <1>1, <2>1 DEF TurnType
  <2>7. (\A u \in Threads \ {t} : pending'[u] = pending[u])
    BY <2>1
  <2>8. ServerTyped' /\ OthersRest(t)
    BY <1>1, <2>5, <2>6, <2>7 DEF ServerTyped, OthersRest
  <2>9. /\ WireIsOwn(t)' /\ ShownIsOld(t)' /\ WordsFollow(t)'
        /\ \A ev \in ToldOf(t)' : ev \in ToldOf(t)
        /\ \A id : Committed(t, id) => Committed(t, id)'
    BY <1>1, <2>5, <2>6, SilentKeeps
  <2>10. pending'[t] = None
    BY <2>1
  <2>11. SpeaksOwn(t)' /\ CallsAreLast(t)' /\ AsksLast(t)'
    BY <2>6, <2>10 DEF SpeaksOwn, CallsAreLast, AsksLast
  <2>12. ASSUME NEW id \in IdsOf(Calls(t)) PROVE Committed(t, id)'
    <3>1. PICK k \in DOMAIN v : v[k].role = "tool" /\ v[k].id = id
      BY <2>3, <2>12 DEF IdsOf
    <3> QED
      BY <2>5, <3>1 DEF Committed
  <2>13. CallsFollow(t)'
    BY <1>1, <2>9, <2>12 DEF ThreadInv, CallsFollow
  <2> QED
    BY <2>8, <2>9, <2>11, <2>13 DEF ThreadInv
<1> QED
  BY <1>3, <1>4
-----------------------------------------------------------------------------
(* The message that says the user has stopped the turn. *)
Marks(m) == [m EXCEPT !.parts = Append(@, [type |-> "text", text |-> Marker])]

LEMMA MarksTyped ==
    ASSUME NEW m \in AiType
    PROVE  Marks(m) \in AiType /\ Marks(m) \in MessageTypes
<1> DEFINE part == [type |-> "text", text |-> Marker]
           parts == Append(m.parts, part)
<1>1. m = [role |-> m.role, id |-> m.id, parts |-> m.parts, calls |-> m.calls] /\ m.role = "ai"
      /\ m.id \in Nat /\ m.parts \in Seq(PartType) /\ m.calls \in Seq(CallType(CallIds))
  BY DEF AiType
<1>2. part \in PartType
  <2>1. Marker \in Seq(Strings)
    BY DEF Marker, Strings
  <2>2. "text" \in Strings
    BY DEF Strings
  <2> QED
    BY <2>1, <2>2 DEF PartType
<1> HIDE DEF part
<1>3. parts \in Seq(PartType)
  BY <1>1, <1>2
<1>4. Marks(m) = [m EXCEPT !.parts = parts]
  BY <1>1 DEF Marks, part
<1> HIDE DEF parts
<1>5. Marks(m) = [role |-> m.role, id |-> m.id, parts |-> parts, calls |-> m.calls]
  BY <1>1, <1>4
<1>6. Marks(m) \in AiType
  BY <1>1, <1>3, <1>5 DEF AiType
<1> QED
  BY <1>6, AiIsMessage

(* A message that takes the place of one of the model leaves the answers. *)
LEMMA Replaced ==
    ASSUME ServerTyped, NEW t \in Threads, NEW i \in DOMAIN log[t], log[t][i].role = "ai",
           NEW m \in MessageTypes, log' = [log EXCEPT ![t] = [log[t] EXCEPT ![i] = m]]
    PROVE  /\ log' \in [Threads -> Seq(MessageTypes)] /\ \A u \in Threads \ {t} : log'[u] = log[u]
           /\ ResultsStay(t)
<1> DEFINE w == log[t]
           s == [w EXCEPT ![i] = m]
<1>1. w \in Seq(MessageTypes) /\ log \in [Threads -> Seq(MessageTypes)] /\ i \in DOMAIN w
      /\ w[i].role = "ai" /\ log' = [log EXCEPT ![t] = s]
  BY DEF ServerTyped
<1> HIDE DEF w
<1>2. s \in Seq(MessageTypes) /\ DOMAIN s = DOMAIN w /\ \A k \in DOMAIN w : k # i => s[k] = w[k]
  BY <1>1
<1> HIDE DEF s
<1>3. log'[t] = s /\ log' \in [Threads -> Seq(MessageTypes)] /\ \A u \in Threads \ {t} : log'[u] = log[u]
  BY <1>1, <1>2
<1>4. \A k \in DOMAIN w : w[k].role = "tool" => k \in DOMAIN s /\ s[k] = w[k]
  BY <1>1, <1>2
<1>5. ResultsStay(t)
  BY <1>3, <1>4 DEF ResultsStay, w
<1> QED
  BY <1>3, <1>5

(* Whichever way the checkpoint is repaired, the answers of tools are kept. *)
LEMMA PatchEffect ==
    ASSUME ServerTyped, NEW t \in Threads, log' = [log EXCEPT ![t] = Patched(t)]
    PROVE  /\ log' \in [Threads -> Seq(MessageTypes)] /\ \A u \in Threads \ {t} : log'[u] = log[u]
           /\ ResultsStay(t)
<1> DEFINE w == log[t]
           whole == w # <<>> /\ Last(w).role = "ai"
           said == turn[t].said
           at == turn[t].at
           I == {i \in 1 .. Len(w) : w[i].role = "ai" /\ w[i].id = at}
           there == IF I # {} THEN Min(I) ELSE 0
<1>1. Patched(t) =
         IF whole /\ Calls(t) # <<>> THEN w \o [k \in DOMAIN Calls(t) |-> Reply(t, k, Marker)]
         ELSE IF whole THEN [w EXCEPT ![Len(w)] = Marks(Blank(w[Len(w)].id))]
         ELSE IF said = None THEN Append(w, Marks(Blank(at + 1)))
         ELSE IF there # 0 THEN [w EXCEPT ![there] = Marks(said)]
         ELSE Append(w, Marks(said))
  BY DEF Patched, Marks, SelectInSeq
<1>2. turn[t] \in TurnType /\ w \in Seq(MessageTypes) /\ Len(w) \in Nat /\ DOMAIN w = 1 .. Len(w)
  BY DEF ServerTyped
<1>3. at \in Nat /\ (said = None \/ said \in AiType)
  BY <1>2 DEF TurnType
<1> DEFINE Goal == /\ log' \in [Threads -> Seq(MessageTypes)] /\ \A u \in Threads \ {t} : log'[u] = log[u]
                   /\ ResultsStay(t)
<1>4. ASSUME NEW m \in MessageTypes, Patched(t) = Append(w, m) PROVE Goal
  <2> HIDE DEF w
  <2>1. Append(w, m) = w \o <<m>> /\ <<m>> \in Seq(MessageTypes)
    BY <1>2
  <2>2. log' = [log EXCEPT ![t] = w \o <<m>>]
    BY <1>4, <2>1
  <2>3. log' = [log EXCEPT ![t] = log[t] \o <<m>>]
    BY <2>2 DEF w
  <2> QED
    BY <2>1, <2>3, Appended
<1>5. CASE whole /\ Calls(t) # <<>>
  <2> DEFINE contents == [k \in DOMAIN Calls(t) |-> Marker]
             v == [k \in DOMAIN Calls(t) |-> Reply(t, k, contents[k])]
  <2>1. Patched(t) = w \o v
    BY <1>1, <1>5
  <2>2. \A k \in DOMAIN Calls(t) : contents[k] \in Seq(Strings)
    BY DEF Marker, Strings
  <2> HIDE DEF contents
  <2>3. v \in Seq(MessageTypes)
    BY <1>5, <2>2, RepliesTyped
  <2> HIDE DEF v
  <2> QED
    BY <2>1, <2>3, Appended
<1>6. CASE whole /\ Calls(t) = <<>>
  <2> DEFINE i == Len(w)
             m == Marks(Blank(w[i].id))
  <2>1. i \in DOMAIN w /\ w[i].role = "ai" /\ w[i] \in AiType
    BY <1>2, <1>6, LastCalls
  <2>2. w[i].id \in Nat
    BY <2>1 DEF AiType
  <2>3. m \in MessageTypes
    BY <2>2, BlankTyped, MarksTyped
  <2>4. Patched(t) = [w EXCEPT ![i] = m]
    BY <1>1, <1>6
  <2> HIDE DEF i, m
  <2> QED
    BY <2>1, <2>3, <2>4, Replaced
<1>7. CASE ~whole /\ said = None
  <2> DEFINE m == Marks(Blank(at + 1))
  <2>1. m \in MessageTypes
    BY <1>3, BlankTyped, MarksTyped
  <2>2. Patched(t) = Append(w, m)
    BY <1>1, <1>7
  <2> HIDE DEF m, w
  <2> QED
    BY <2>1, <2>2, <1>4
<1>8. CASE ~whole /\ said # None /\ there # 0
  <2>1. there \in 1 .. Len(w) /\ w[there].role = "ai"
    <3>1. I \in SUBSET (1 .. Len(w)) /\ I # {}
      BY <1>8
    <3>2. Min(I) \in I
      <4> HIDE DEF I
      <4> QED
        BY <1>2, <3>1, LeastIn
    <3> QED
      BY <1>8, <3>2
  <2>2. Marks(said) \in MessageTypes
    BY <1>3, <1>8, MarksTyped
  <2>3. Patched(t) = [w EXCEPT ![there] = Marks(said)]
    BY <1>1, <1>8
  <2> DEFINE m == Marks(said)
  <2> HIDE DEF there, m
  <2> QED
    BY <1>2, <2>1, <2>2, <2>3, Replaced DEF m
<1>9. CASE ~whole /\ said # None /\ there = 0
  <2> DEFINE m == Marks(said)
  <2>1. m \in MessageTypes
    BY <1>3, <1>9, MarksTyped
  <2>2. Patched(t) = Append(w, m)
    BY <1>1, <1>9
  <2> HIDE DEF m, w
  <2> QED
    BY <2>1, <2>2, <1>4
<1> QED
  BY <1>5, <1>6, <1>7, <1>8, <1>9

(* The turn is stopped. *)
LEMMA CutEffect ==
    ASSUME ServerTyped, NEW t \in Threads, ThreadInv(t), DOMAIN pending = Threads,
           Cut(t), UNCHANGED bundle
    PROVE  ServerTyped' /\ OthersRest(t) /\ ThreadInv(t)'
<1> DEFINE v == <<Event(<<"interrupt", t>>, "ai", "notification", Marker)>>
<1>1. /\ turn \in [Threads -> TurnType] /\ wire \in [Threads -> Seq(EventTypes)]
      /\ turn[t] \in TurnType
      /\ log' = [log EXCEPT ![t] = Patched(t)] /\ pending' = [pending EXCEPT ![t] = None]
      /\ turn' = [turn EXCEPT ![t].pc = "cut", ![t].at = @ + 1]
      /\ wire' = [wire EXCEPT ![t] = Append(@, Event(<<"interrupt", t>>, "ai", "notification", Marker))]
  BY DEF Cut, ServerTyped
<1>2. /\ log' \in [Threads -> Seq(MessageTypes)] /\ \A u \in Threads \ {t} : log'[u] = log[u]
      /\ ResultsStay(t)
  BY <1>1, PatchEffect
<1>3. /\ turn' \in [Threads -> TurnType] /\ turn'[t].pc = "cut" /\ turn'[t].run = turn[t].run
      /\ \A u \in Threads \ {t} : turn'[u] = turn[u]
  <2> DEFINE now == turn[t]
             new == [now EXCEPT !.pc = "cut", !.at = now.at + 1]
  <2>1. turn' = [turn EXCEPT ![t] = new] /\ now \in TurnType
    BY <1>1
  <2> HIDE DEF now
  <2>2. now.at + 1 \in Nat
    BY <2>1 DEF TurnType
  <2>3. new \in TurnType /\ new.pc = "cut" /\ new.run = now.run
    BY <2>1, <2>2 DEF TurnType
  <2> HIDE DEF new
  <2> QED
    BY <1>1, <2>1, <2>3 DEF now
<1>4. pending'[t] = None /\ \A u \in Threads \ {t} : pending'[u] = pending[u]
  BY <1>1
<1>5. v \in Seq(NoticeType)
  <2>1. Marker \in Seq(Strings)
    BY DEF Marker, Strings
  <2>2. Event(<<"interrupt", t>>, "ai", "notification", Marker) \in NoticeType
    BY <2>1 DEF Event, NoticeType
  <2> QED
    BY <2>2
<1>6. v \in Seq(EventTypes) /\ v \in Seq(OutputType \cup NoticeType)
  <2>1. NoticeType \subseteq EventTypes /\ NoticeType \subseteq OutputType \cup NoticeType
    BY DEF EventTypes
  <2> HIDE DEF v
  <2> QED
    BY <1>5, <2>1, SeqWider
<1>7. wire' = [wire EXCEPT ![t] = wire[t] \o v]
  <2> DEFINE w == wire[t]
             e == Event(<<"interrupt", t>>, "ai", "notification", Marker)
  <2>1. w \in Seq(EventTypes) /\ wire' = [wire EXCEPT ![t] = Append(w, e)] /\ v = <<e>>
        /\ e \in EventTypes
    <3>1. v[1] \in EventTypes
      BY <1>6
    <3> QED
      BY <1>1, <3>1
  <2> HIDE DEF w, e, v
  <2>2. Append(w, e) = w \o <<e>>
    BY <2>1
  <2> QED
    BY <2>1, <2>2 DEF w
<1> HIDE DEF v
<1>8. /\ wire' \in [Threads -> Seq(EventTypes)] /\ wire'[t] = wire[t] \o v
      /\ \A u \in Threads \ {t} : wire'[u] = wire[u]
  <2>1. wire[t] \o v \in Seq(EventTypes)
    BY <1>1, <1>6
  <2> QED
    BY <1>1, <1>7, <2>1
<1>9. ServerTyped' /\ OthersRest(t)
  BY <1>2, <1>3, <1>4, <1>8 DEF ServerTyped, OthersRest
<1>10. OutputsOnly(t, v) /\ turn'[t].pc # "none"
  BY <1>3, <1>6, <1>8 DEF OutputsOnly
<1>11. WireIsOwn(t)' /\ ShownIsOld(t)' /\ WordsFollow(t)'
  BY <1>2, <1>10, QuietKeeps
<1>12. SpeaksOwn(t)' /\ CallsAreLast(t)' /\ AsksLast(t)' /\ CallsFollow(t)'
  BY <1>3, <1>4 DEF SpeaksOwn, CallsAreLast, AsksLast, CallsFollow
<1> QED
  BY <1>9, <1>11, <1>12 DEF ThreadInv
-----------------------------------------------------------------------------
(* What comes to be shown tells of no new call of a turn on this thread. *)
TellsNothing(u) ==
    \A ev \in Range(bundle'.events) : Mutates(ev) =>
        ev \in Range(bundle.events) \/ \A r \in Nat : ev.id # <<u, r>>

(* A thread that nothing happens to. *)
LEMMA Undisturbed ==
    ASSUME ServerTyped, NEW u \in Threads, ThreadInv(u), TellsNothing(u),
           UNCHANGED <<turn[u], pending[u], log[u], wire[u]>>
    PROVE  ThreadInv(u)'
<1>1. turn[u].run \in Nat
  BY DEF ServerTyped, TurnType
<1>2. ASSUME NEW events, NEW ev \in CallsIn(u, turn[u].run, Range(bundle'.events) \cup events)
      PROVE  ev \in CallsIn(u, turn[u].run, Range(bundle.events) \cup events)
  <2>1. Mutates(ev) /\ ev.id = <<u, turn[u].run>> /\ ev \in Range(bundle'.events) \cup events
    BY <1>2 DEF CallsIn
  <2>2. ev \in Range(bundle'.events) => ev \in Range(bundle.events)
    BY <1>1, <2>1 DEF TellsNothing
  <2> QED
    BY <2>1, <2>2 DEF CallsIn
<1>3. SpeaksOwn(u)' /\ CallsAreLast(u)' /\ AsksLast(u)' /\ WireIsOwn(u)'
  BY DEF ThreadInv, SpeaksOwn, CallsAreLast, AsksLast, WireIsOwn, Utterance
<1>4. ShownIsOld(u)'
  <2> SUFFICES ASSUME NEW ev \in Range(bundle'.events), NEW r \in Nat, Mutates(ev), ev.id = <<u, r>>
               PROVE  r <= turn[u].run
    BY DEF ShownIsOld, Mutates
  <2>1. ev \in Range(bundle.events)
    BY DEF TellsNothing
  <2> QED
    BY <2>1 DEF ThreadInv, ShownIsOld
<1>5. CallsFollow(u)'
  <2> SUFFICES ASSUME NEW ev \in ToldOf(u)'
               PROVE  \/ Committed(u, ev.content.id)
                      \/ turn[u].pc \notin {"agent", "saying", "tools"}
                      \/ turn[u].pc = "saying" /\ Saying(turn[u], ev.content.id)
                      \/ turn[u].pc = "tools" /\ ev.content.id \in IdsOf(Calls(u))
    BY DEF CallsFollow, Committed, Saying, Calls
  <2>1. ev \in CallsIn(u, turn[u].run, Range(bundle'.events) \cup Range(wire[u]))
    BY DEF ToldOf, CallsIn, Mutates
  <2>2. ev \in ToldOf(u)
    BY <1>2, <2>1 DEF ToldOf
  <2> QED
    BY <2>2 DEF ThreadInv, CallsFollow
<1>6. WordsFollow(u)'
  <2> SUFFICES ASSUME NEW p \in DOMAIN wire[u], wire[u][p] \in SpeechType(OfTurns),
                      NEW ev \in CallsIn(u, turn[u].run,
                                         Range(bundle'.events) \cup {wire[u][q] : q \in 1 .. p - 1})
               PROVE  Committed(u, ev.content.id)
    BY DEF WordsFollow, Committed, CallsIn, Mutates
  <2>1. ev \in CallsIn(u, turn[u].run, Range(bundle.events) \cup {wire[u][q] : q \in 1 .. p - 1})
    <3> DEFINE events == {wire[u][q] : q \in 1 .. p - 1}
    <3>1. ev \in CallsIn(u, turn[u].run, Range(bundle'.events) \cup events)
      OBVIOUS
    <3> HIDE DEF events
    <3>2. ev \in CallsIn(u, turn[u].run, Range(bundle.events) \cup events)
      BY <1>2, <3>1
    <3> QED
      BY <3>2 DEF events
  <2> QED
    BY <2>1 DEF ThreadInv, WordsFollow
<1> QED
  BY <1>3, <1>4, <1>5, <1>6 DEF ThreadInv

(* A turn that begins has told of nothing. *)
LEMMA PostEffect ==
    ASSUME ServerTyped, NEW t \in Threads, ThreadInv(t), NEW message \in MessageType,
           Begin(t, message), UNCHANGED bundle
    PROVE  ServerTyped' /\ OthersRest(t) /\ ThreadInv(t)'
<1> DEFINE pc == IF pending[t] = None THEN "agent" ELSE "tools"
           answer == IF pending[t] = None THEN None ELSE message.content
           new == [NoTurn EXCEPT !.run = turn[t].run + 1, !.at = turn[t].at, !.pc = pc, !.answer = answer]
           m == [role |-> "human", id |-> <<"user", turn[t].run>>, content |-> message.content]
<1>1. /\ turn[t].pc = "none" /\ turn' = [turn EXCEPT ![t] = new]
      /\ log' = IF pending[t] # None THEN log ELSE [log EXCEPT ![t] = Append(@, m)]
      /\ UNCHANGED <<pending, wire>>
  BY DEF Begin
<1>2. /\ turn \in [Threads -> TurnType] /\ wire \in [Threads -> Seq(EventTypes)]
      /\ log \in [Threads -> Seq(MessageTypes)] /\ turn[t] \in TurnType
      /\ turn[t].run \in Nat /\ turn[t].at \in Nat
  BY DEF ServerTyped, TurnType
<1>3. message.content \in Seq(Strings)
  <2>1. <<"hello">> \in Seq(Strings) /\ <<"answer">> \in Seq(Strings)
    BY DEF Strings
  <2> QED
    BY <2>1 DEF MessageType
<1>4. pc \in {"agent", "tools"} /\ answer \in Seq(Strings) \cup {None}
      /\ (pc = "agent" => pending[t] = None) /\ (pending[t] = None => pc = "agent")
  BY <1>3
<1> HIDE DEF pc, answer
<1>5. new = [pc |-> pc, run |-> turn[t].run + 1, at |-> turn[t].at, ids |-> [i \in Indexes |-> None],
             said |-> None, rest |-> <<>>, answer |-> answer, out |-> FALSE]
  <2> DEFINE ids == [i \in Indexes |-> None]
             run == turn[t].run + 1
             at == turn[t].at
  <2>1. NoTurn = [pc |-> "none", run |-> 0, at |-> 0, ids |-> ids, said |-> None, rest |-> <<>>,
                  answer |-> None, out |-> FALSE]
    BY DEF NoTurn
  <2>2. new = [NoTurn EXCEPT !.run = run, !.at = at, !.pc = pc, !.answer = answer]
    OBVIOUS
  <2> HIDE DEF ids, run, at, new
  <2>3. new = [pc |-> pc, run |-> run, at |-> at, ids |-> ids, said |-> None, rest |-> <<>>,
               answer |-> answer, out |-> FALSE]
    BY <2>1, <2>2
  <2> QED
    BY <2>3 DEF ids, run, at
<1>6. new \in TurnType /\ new.pc = pc /\ new.run = turn[t].run + 1
  <2> DEFINE ids == [i \in Indexes |-> None]
             run == turn[t].run + 1
             at == turn[t].at
  <2>1. ids \in [Indexes -> CallIds] /\ run \in Nat /\ at \in Nat
    BY <1>2 DEF CallIds
  <2>2. new = [pc |-> pc, run |-> run, at |-> at, ids |-> ids,
               said |-> None, rest |-> <<>>, answer |-> answer, out |-> FALSE]
    BY <1>5
  <2> HIDE DEF new, ids, at
  <2> QED
    BY <1>4, <2>1, <2>2 DEF TurnType
<1> HIDE DEF new
<1>7. /\ turn' \in [Threads -> TurnType] /\ turn'[t].pc = pc /\ turn'[t].run = turn[t].run + 1
      /\ \A u \in Threads \ {t} : turn'[u] = turn[u]
  BY <1>1, <1>2, <1>6
<1>8. m \in MessageTypes
  <2>1. m \in [role : {"human"}, id : {"user"} \X Nat, content : Seq(Strings)]
    BY <1>2, <1>3
  <2> QED
    BY <2>1 DEF MessageTypes
<1> HIDE DEF m
<1>9. log' \in [Threads -> Seq(MessageTypes)] /\ (\A u \in Threads \ {t} : log'[u] = log[u])
      /\ (pending[t] # None => log'[t] = log[t])
  <2> DEFINE w == log[t]
  <2>1. Append(w, m) \in Seq(MessageTypes)
    BY <1>2, <1>8
  <2> HIDE DEF w
  <2>2. log' = log \/ log' = [log EXCEPT ![t] = Append(w, m)]
    BY <1>1 DEF w
  <2> QED
    BY <1>1, <1>2, <2>1, <2>2
<1>10. ServerTyped' /\ OthersRest(t)
  BY <1>1, <1>2, <1>7, <1>9 DEF ServerTyped, OthersRest
<1>11. wire'[t] = <<>>
  BY <1>1 DEF ThreadInv, WireIsOwn
<1>12. WireIsOwn(t)' /\ WordsFollow(t)'
  BY <1>11 DEF WireIsOwn, WordsFollow
<1>13. ASSUME NEW ev \in Range(bundle.events), NEW r \in Nat, Mutates(ev), ev.id = <<t, r>>
       PROVE  r <= turn[t].run
  BY <1>13 DEF ThreadInv, ShownIsOld
<1>14. ShownIsOld(t)'
  BY <1>2, <1>7, <1>13 DEF ShownIsOld, Mutates
<1>15. ToldOf(t)' = {}
  <2> SUFFICES ASSUME NEW ev \in ToldOf(t)' PROVE FALSE
    OBVIOUS
  <2>1. Range(wire'[t]) = {}
    BY <1>11 DEF Range
  <2>2. Mutates(ev) /\ ev.id = <<t, turn[t].run + 1>> /\ ev \in Range(bundle.events)
    BY <1>7, <2>1 DEF ToldOf, CallsIn, Mutates
  <2>3. turn[t].run + 1 \in Nat
    BY <1>2
  <2> DEFINE next == turn[t].run + 1
  <2>4. ev \in Range(bundle.events) /\ Mutates(ev) /\ ev.id = <<t, next>> /\ next \in Nat
    BY <2>2, <2>3
  <2>5. ~(next <= turn[t].run)
    BY <1>2
  <2> HIDE DEF next
  <2> QED
    BY <1>13, <2>4, <2>5
<1>16. CallsFollow(t)'
  BY <1>15 DEF CallsFollow
<1>17. SpeaksOwn(t)' /\ AsksLast(t)'
  BY <1>1, <1>4, <1>7 DEF SpeaksOwn, AsksLast
<1>18. CallsAreLast(t)'
  BY <1>1, <1>4, <1>7, <1>9 DEF CallsAreLast, ThreadInv
<1> QED
  BY <1>10, <1>12, <1>14, <1>16, <1>17, <1>18 DEF ThreadInv

(* A response that is over. *)
LEMMA OverEffect ==
    ASSUME ServerTyped, NEW t \in Threads, ThreadInv(t), turn' = [turn EXCEPT ![t].pc = "none"],
           wire' = [wire EXCEPT ![t] = <<>>], UNCHANGED <<log, pending, bundle>>
    PROVE  ServerTyped' /\ OthersRest(t) /\ ThreadInv(t)'
<1>1. /\ turn \in [Threads -> TurnType] /\ wire \in [Threads -> Seq(EventTypes)]
      /\ log \in [Threads -> Seq(MessageTypes)]
  BY DEF ServerTyped
<1>2. /\ turn' \in [Threads -> TurnType] /\ turn'[t].pc = "none" /\ turn'[t].run = turn[t].run
      /\ \A u \in Threads \ {t} : turn'[u] = turn[u]
  BY <1>1 DEF TurnType
<1>3. /\ wire' \in [Threads -> Seq(EventTypes)] /\ wire'[t] = <<>>
      /\ \A u \in Threads \ {t} : wire'[u] = wire[u]
  BY <1>1
<1>4. ServerTyped' /\ OthersRest(t)
  BY <1>1, <1>2, <1>3 DEF ServerTyped, OthersRest
<1>5. WireIsOwn(t)' /\ WordsFollow(t)'
  BY <1>3 DEF WireIsOwn, WordsFollow
<1>6. SpeaksOwn(t)' /\ AsksLast(t)' /\ CallsFollow(t)'
  BY <1>2 DEF SpeaksOwn, AsksLast, CallsFollow
<1>7. CallsAreLast(t)' /\ ShownIsOld(t)'
  BY <1>2 DEF ThreadInv, CallsAreLast, ShownIsOld
<1> QED
  BY <1>4, <1>5, <1>6, <1>7 DEF ThreadInv

(* A thread that is forgotten has no turn. *)
LEMMA ForgetEffect ==
    ASSUME ServerTyped, NEW t \in Threads, ThreadInv(t), turn[t].pc = "none", DOMAIN pending = Threads,
           Forget(t), UNCHANGED <<turn, wire, bundle>>
    PROVE  ServerTyped' /\ OthersRest(t) /\ ThreadInv(t)'
<1>1. log \in [Threads -> Seq(MessageTypes)] /\ log' = [log EXCEPT ![t] = <<>>]
      /\ pending' = [pending EXCEPT ![t] = None]
  BY DEF ServerTyped, Forget
<1>2. log' \in [Threads -> Seq(MessageTypes)] /\ pending'[t] = None
      /\ \A u \in Threads \ {t} : log'[u] = log[u] /\ pending'[u] = pending[u]
  BY <1>1
<1>3. ServerTyped' /\ OthersRest(t)
  BY <1>2 DEF ServerTyped, OthersRest
<1>4. wire'[t] = <<>>
  BY DEF ThreadInv, WireIsOwn
<1>5. WireIsOwn(t)' /\ WordsFollow(t)'
  BY <1>4 DEF WireIsOwn, WordsFollow
<1>6. SpeaksOwn(t)' /\ AsksLast(t)' /\ CallsFollow(t)' /\ CallsAreLast(t)'
  BY <1>2 DEF SpeaksOwn, AsksLast, CallsFollow, CallsAreLast
<1>7. ShownIsOld(t)'
  BY DEF ThreadInv, ShownIsOld
<1> QED
  BY <1>3, <1>5, <1>6, <1>7 DEF ThreadInv
-----------------------------------------------------------------------------
LEMMA SeqIsMap ==
    ASSUME NEW S, NEW s \in Seq(S)
    PROVE  DOMAIN s = 1 .. Len(s) /\ Len(s) \in Nat /\ s = [i \in 1 .. Len(s) |-> s[i]]
  OBVIOUS

LEMMA RangeGrows ==
    ASSUME NEW S, NEW s \in Seq(S), NEW e, NEW all, all = Append(s, e)
    PROVE  s \in Seq(Range(s)) /\ all \in Seq(Range(all)) /\ Range(all) = Range(s) \cup {e}
<1>1. Len(s) \in Nat /\ DOMAIN s = 1 .. Len(s) /\ s = [i \in 1 .. Len(s) |-> s[i]]
  OBVIOUS
<1>2. s \in Seq(Range(s))
  BY <1>1 DEF Range
<1>3. s \in Seq(S \cup {e})
  OBVIOUS
<1>4. /\ all \in Seq(S \cup {e}) /\ Len(all) = Len(s) + 1
      /\ \A i \in 1 .. Len(s) + 1 : all[i] = IF i = Len(s) + 1 THEN e ELSE s[i]
  BY <1>3
<1>5. DOMAIN all = 1 .. Len(s) + 1 /\ all = [i \in 1 .. Len(s) + 1 |-> all[i]]
  <2>1. DOMAIN all = 1 .. Len(all) /\ all = [i \in 1 .. Len(all) |-> all[i]]
    <3> DEFINE T == S \cup {e}
    <3>1. all \in Seq(T)
      BY <1>4
    <3> HIDE DEF T
    <3> QED
      BY <3>1, SeqIsMap
  <2> QED
    BY <1>4, <2>1
<1>6. all \in Seq(Range(all))
  BY <1>1, <1>5 DEF Range
<1>7. Range(all) = Range(s) \cup {e}
  <2>1. ASSUME NEW x \in Range(all) PROVE x \in Range(s) \cup {e}
    <3>1. PICK i \in 1 .. Len(s) + 1 : x = all[i]
      BY <1>5, <2>1 DEF Range
    <3>2. i = Len(s) + 1 \/ i \in 1 .. Len(s)
      BY <1>1
    <3> QED
      BY <1>1, <1>4, <3>1, <3>2 DEF Range
  <2>2. ASSUME NEW x \in Range(s) PROVE x \in Range(all)
    <3>1. PICK i \in 1 .. Len(s) : x = s[i]
      BY <1>1, <2>2 DEF Range
    <3>2. i \in 1 .. Len(s) + 1 /\ all[i] = x
      BY <1>1, <1>4, <3>1
    <3> QED
      BY <1>5, <3>2 DEF Range
  <2>3. e \in Range(all)
    <3>1. Len(s) + 1 \in 1 .. Len(s) + 1 /\ all[Len(s) + 1] = e
      BY <1>1, <1>4
    <3> QED
      BY <1>5, <3>1 DEF Range
  <2> QED
    BY <2>1, <2>2, <2>3
<1> QED
  BY <1>2, <1>6, <1>7

(* An event is read, and shown: what was told is the same. *)
LEMMA ReadEffect ==
    ASSUME ServerTyped, NEW t \in Threads, ThreadInv(t), wire[t] # <<>>,
           bundle.events \in Seq(Range(bundle.events)),
           bundle'.events = Append(bundle.events, Head(wire[t])),
           wire' = [wire EXCEPT ![t] = Tail(@)], UNCHANGED <<turn, log, pending>>
    PROVE  /\ ServerTyped' /\ OthersRest(t) /\ ThreadInv(t)'
           /\ bundle'.events \in Seq(Range(bundle'.events))
           /\ \A u \in Threads \ {t} : TellsNothing(u)
<1> DEFINE w == wire[t]
           e == Head(w)
           rest == Tail(w)
           shown == Range(bundle.events)
<1>1. /\ w \in Seq(EventTypes) /\ wire \in [Threads -> Seq(EventTypes)]
      /\ turn[t].run \in Nat
  BY DEF ServerTyped, TurnType
<1>2. wire[t] = w /\ w # <<>> /\ wire' = [wire EXCEPT ![t] = rest]
      /\ turn' = turn /\ log' = log /\ pending' = pending /\ bundle'.events = Append(bundle.events, e)
  OBVIOUS
<1> HIDE DEF w
<1>3. /\ Len(w) \in Nat /\ Len(w) >= 1 /\ DOMAIN w = 1 .. Len(w) /\ e = w[1] /\ e \in EventTypes
      /\ 1 \in DOMAIN w
  BY <1>1, <1>2
<1>4. /\ rest \in Seq(EventTypes) /\ DOMAIN rest = 1 .. Len(w) - 1
      /\ \A p \in DOMAIN rest : p + 1 \in DOMAIN w /\ rest[p] = w[p + 1]
  BY <1>1, <1>2, <1>3
<1> HIDE DEF e, rest
<1>5. bundle'.events \in Seq(Range(bundle'.events)) /\ Range(bundle'.events) = shown \cup {e}
  <2> DEFINE events == bundle.events
             all == bundle'.events
  <2>1. events \in Seq(Range(events)) /\ all = Append(events, e)
    BY <1>2
  <2> HIDE DEF events, all
  <2> QED
    BY <2>1, RangeGrows DEF events, all
<1>6. wire' \in [Threads -> Seq(EventTypes)] /\ wire'[t] = rest
      /\ \A u \in Threads \ {t} : wire'[u] = wire[u]
  BY <1>1, <1>2, <1>4
<1>7. ServerTyped' /\ OthersRest(t)
  BY <1>6 DEF ServerTyped, OthersRest
<1>8. ASSUME Mutates(e) PROVE e.id = <<t, turn[t].run>>
  <2>1. e \in CallEventType(OfTurns)
    BY <1>3, <1>8, KindsDiffer DEF EventTypes
  <2> QED
    BY <1>2, <1>3, <2>1 DEF ThreadInv, WireIsOwn
<1> HIDE DEF shown
<1>9. ASSUME NEW u \in Threads \ {t} PROVE TellsNothing(u)
  <2> SUFFICES ASSUME NEW ev \in Range(bundle'.events), Mutates(ev), ev \notin shown,
                      NEW r \in Nat, ev.id = <<u, r>>
               PROVE  FALSE
    BY DEF TellsNothing, shown
  <2>1. ev = e
    BY <1>5
  <2> QED
    BY <1>8, <2>1
<1>10. Range(w) = {e} \cup Range(rest)
  <2>1. ASSUME NEW x \in Range(w) PROVE x \in {e} \cup Range(rest)
    <3>1. PICK p \in 1 .. Len(w) : x = w[p]
      BY <1>3, <2>1 DEF Range
    <3>2. CASE p = 1
      BY <1>3, <3>1, <3>2
    <3>3. CASE p # 1
      <4>1. p - 1 \in DOMAIN rest /\ p - 1 + 1 = p
        BY <1>3, <1>4, <3>3
      <4>2. rest[p - 1] = x
        BY <1>4, <3>1, <4>1
      <4> QED
        BY <4>1, <4>2 DEF Range
    <3> QED
      BY <3>2, <3>3
  <2>2. ASSUME NEW x \in Range(rest) PROVE x \in Range(w)
    BY <1>4, <2>2 DEF Range
  <2> QED
    BY <1>3, <2>1, <2>2 DEF Range
<1>11. ASSUME NEW ev \in ToldOf(t)' PROVE ev \in ToldOf(t)
  <2>1. Mutates(ev) /\ ev.id = <<t, turn[t].run>> /\ ev \in (shown \cup {e}) \cup Range(rest)
    BY <1>5, <1>6 DEF ToldOf, CallsIn, Mutates
  <2> QED
    BY <1>2, <1>10, <2>1 DEF ToldOf, CallsIn, shown
<1>12. SpeaksOwn(t)' /\ CallsAreLast(t)' /\ AsksLast(t)'
  BY DEF ThreadInv, SpeaksOwn, CallsAreLast, AsksLast, Utterance
<1>13. WireIsOwn(t)'
  <2>1. turn[t].pc # "none"
    BY <1>2 DEF ThreadInv, WireIsOwn
  <2>2. ASSUME NEW p \in DOMAIN rest, rest[p] \in SpeechType(OfTurns) \cup CallEventType(OfTurns)
        PROVE  rest[p].id = <<t, turn[t].run>>
    BY <1>2, <1>4, <2>2 DEF ThreadInv, WireIsOwn
  <2> QED
    BY <1>6, <2>1, <2>2 DEF WireIsOwn
<1>14. ShownIsOld(t)'
  <2> SUFFICES ASSUME NEW ev \in shown \cup {e}, NEW r \in Nat, Mutates(ev), ev.id = <<t, r>>
               PROVE  r <= turn[t].run
    BY <1>5 DEF ShownIsOld, Mutates
  <2>1. CASE ev \in shown
    BY <2>1 DEF ThreadInv, ShownIsOld, shown
  <2>2. CASE ev = e
    BY <1>1, <1>8, <2>2
  <2> QED
    BY <2>1, <2>2
<1>15. CallsFollow(t)'
  <2> SUFFICES ASSUME NEW ev \in ToldOf(t)'
               PROVE  \/ Committed(t, ev.content.id)
                      \/ turn[t].pc \notin {"agent", "saying", "tools"}
                      \/ turn[t].pc = "saying" /\ Saying(turn[t], ev.content.id)
                      \/ turn[t].pc = "tools" /\ ev.content.id \in IdsOf(Calls(t))
    BY DEF CallsFollow, Committed, Saying, Calls
  <2> QED
    BY <1>11 DEF ThreadInv, CallsFollow
<1>16. WordsFollow(t)'
  <2> SUFFICES ASSUME NEW p \in DOMAIN wire'[t], wire'[t][p] \in SpeechType(OfTurns),
                      NEW ev \in CallsIn(t, turn'[t].run,
                                         Range(bundle'.events) \cup {wire'[t][q] : q \in 1 .. p - 1})
               PROVE  Committed(t, ev.content.id)
    BY <1>2 DEF WordsFollow, Committed, CallsIn, Mutates
  <2>0. p \in DOMAIN rest /\ rest[p] \in SpeechType(OfTurns)
        /\ ev \in CallsIn(t, turn[t].run, Range(bundle'.events) \cup {rest[q] : q \in 1 .. p - 1})
    <3>1. wire'[t] = rest /\ turn'[t].run = turn[t].run
      BY <1>2, <1>6
    <3>2. p \in DOMAIN rest /\ rest[p] \in SpeechType(OfTurns)
      BY <3>1
    <3>3. {wire'[t][q] : q \in 1 .. p - 1} = {rest[q] : q \in 1 .. p - 1}
      BY <3>1
    <3> QED
      BY <3>1, <3>2, <3>3
  <2>1. p + 1 \in DOMAIN w /\ w[p + 1] \in SpeechType(OfTurns) /\ p \in 1 .. Len(w) - 1
    BY <1>4, <2>0
  <2>2. ASSUME NEW q \in 1 .. p - 1 PROVE q + 1 \in 1 .. p /\ rest[q] = w[q + 1]
    <3>1. q \in 1 .. Len(w) - 1 /\ q + 1 \in 1 .. p
      BY <1>3, <2>1
    <3> QED
      BY <1>4, <3>1
  <2>3. 1 \in 1 .. p
    BY <1>3, <2>1
  <2>4. Mutates(ev) /\ ev.id = <<t, turn[t].run>>
        /\ ev \in (shown \cup {e}) \cup {rest[q] : q \in 1 .. p - 1}
    BY <1>5, <2>0 DEF CallsIn
  <2>5. ev \in Range(bundle.events) \cup {w[q] : q \in 1 .. p}
    BY <1>3, <2>2, <2>3, <2>4 DEF shown
  <2>6. p + 1 - 1 = p
    BY <2>1
  <2>7. \A n \in DOMAIN w : w[n] \in SpeechType(OfTurns) =>
           \A ev1 \in CallsIn(t, turn[t].run, Range(bundle.events) \cup {w[q] : q \in 1 .. n - 1}) :
              Committed(t, ev1.content.id)
    BY <1>2 DEF ThreadInv, WordsFollow
  <2> DEFINE n == p + 1
  <2>8. n \in DOMAIN w /\ w[n] \in SpeechType(OfTurns) /\ n - 1 = p
    BY <2>1, <2>6
  <2> HIDE DEF n
  <2>9. ev \in CallsIn(t, turn[t].run, Range(bundle.events) \cup {w[q] : q \in 1 .. n - 1})
    BY <2>4, <2>5, <2>8 DEF CallsIn
  <2> QED
    BY <2>7, <2>8, <2>9
<1> QED
  BY <1>5, <1>7, <1>9, <1>11, <1>12, <1>13, <1>14, <1>15, <1>16 DEF ThreadInv
-----------------------------------------------------------------------------
ShownTyped == bundle.events \in Seq(Range(bundle.events))

ThreadsKeep == ServerTyped' /\ ShownTyped' /\ \A u \in Threads : ThreadInv(u)'

(* What happens to one thread at most. *)
LEMMA OneThread ==
    ASSUME ServerTyped, \A u \in Threads : ThreadInv(u), NEW t \in Threads,
           ServerTyped', OthersRest(t), ThreadInv(t)', ShownTyped',
           \A u \in Threads \ {t} : TellsNothing(u)
    PROVE  ThreadsKeep
<1>1. ASSUME NEW u \in Threads \ {t} PROVE ThreadInv(u)'
  BY Undisturbed DEF OthersRest
<1> QED
  BY <1>1 DEF ThreadsKeep

LEMMA SameShown ==
    ASSUME bundle'.events = bundle.events, ShownTyped
    PROVE  ShownTyped' /\ \A u \in Threads : TellsNothing(u)
  BY DEF ShownTyped, TellsNothing

LEMMA NoThread ==
    ASSUME ServerTyped, \A u \in Threads : ThreadInv(u), UNCHANGED <<turn, pending, log, wire>>,
           ShownTyped', \A u \in Threads : TellsNothing(u)
    PROVE  ThreadsKeep
<1>1. ServerTyped'
  BY DEF ServerTyped
<1>2. ASSUME NEW u \in Threads PROVE ThreadInv(u)'
  BY Undisturbed
<1> QED
  BY <1>1, <1>2 DEF ThreadsKeep

(* The history of a thread tells of no turn. *)
LEMMA HistoryTellsNothing ==
    ASSUME NEW messages \in Seq(MessageTypes), bundle'.events = HistoryEvents(messages)
    PROVE  ShownTyped' /\ \A u \in Threads : TellsNothing(u)
<1> DEFINE s == bundle'.events
<1>1. s \in Seq(HistoryTypes)
  BY HistoryTyped
<1>2. s \in Seq(Range(s)) /\ \A ev \in Range(s) : ev \in HistoryTypes
  <2> HIDE DEF s
  <2>1. DOMAIN s = 1 .. Len(s) /\ s = [i \in 1 .. Len(s) |-> s[i]] /\ Len(s) \in Nat
    BY <1>1, SeqIsMap
  <2>2. \A i \in 1 .. Len(s) : s[i] \in Range(s)
    BY <2>1 DEF Range
  <2>3. s \in Seq(Range(s))
    BY <2>1, <2>2
  <2>4. \A i \in DOMAIN s : s[i] \in HistoryTypes
    BY <1>1
  <2> QED
    BY <2>3, <2>4 DEF Range
<1>3. ASSUME NEW ev \in HistoryTypes, Mutates(ev), NEW u \in Threads, NEW r \in Nat PROVE ev.id # <<u, r>>
  <2>1. ev.type = "tool_call"
    BY <1>3, KindsDiffer
  <2>2. ev \in CallEventType({"history"} \X Nat)
    BY <2>1, KindsDiffer DEF HistoryTypes
  <2>3. ev.id \in {"history"} \X Nat
    BY <2>2, KindsDiffer
  <2> QED
    BY <2>3, ServerAssumption
<1> QED
  BY <1>2, <1>3 DEF ShownTyped, TellsNothing

LEMMA NothingShown ==
    ASSUME bundle' = EmptyBundle
    PROVE  ShownTyped' /\ \A u \in Threads : TellsNothing(u)
<1>1. bundle'.events = <<>> /\ Range(<<>>) = {}
  BY DEF EmptyBundle, Range
<1> QED
  BY <1>1 DEF ShownTyped, TellsNothing

(* The user's own message. *)
LEMMA LocalTellsNothing ==
    ASSUME ShownTyped, NEW e, e.type = "text", bundle'.events = Append(bundle.events, e)
    PROVE  ShownTyped' /\ \A u \in Threads : TellsNothing(u)
<1> DEFINE s == bundle.events
           all == bundle'.events
<1>1. s \in Seq(Range(s)) /\ all = Append(s, e)
  BY DEF ShownTyped
<1>2. all \in Seq(Range(all)) /\ Range(all) = Range(s) \cup {e}
  <2> HIDE DEF s, all
  <2> QED
    BY <1>1, RangeGrows
<1>3. ~Mutates(e)
  BY DEF Mutates
<1> QED
  BY <1>2, <1>3 DEF ShownTyped, TellsNothing

(* What the server does of itself. *)
LEMMA RunKeeps ==
    ASSUME ServerTyped, ShownTyped, \A u \in Threads : ThreadInv(u), DOMAIN pending = Threads,
           SaysBeforeCalls, NEW t \in Threads, RunMoves(t)
    PROVE  ThreadsKeep
<1>1. bundle' = bundle /\ ThreadInv(t)
  BY DEF RunMoves, pageVars
<1>2. ServerTyped' /\ OthersRest(t) /\ ThreadInv(t)'
  <2>1. CASE ChunkArrives(t)
    BY <1>1, <2>1, ArrivesEffect
  <2>2. CASE MessageCommits(t)
    BY <1>1, <2>2, CommitEffect
  <2>3. CASE ToolPrints(t)
    BY <1>1, <2>3, PrintEffect
  <2>4. CASE ToolsEnd(t)
    BY <1>1, <2>4, ToolsEffect
  <2>5. CASE Fails(t)
    BY <1>1, <2>5, FailsEffect
  <2>6. CASE Cut(t)
    BY <1>1, <2>6, CutEffect
  <2>7. ASSUME NEW s \in Scripts, Speak(t, s) PROVE ServerTyped' /\ OthersRest(t) /\ ThreadInv(t)'
    BY <1>1, <2>7, SpeakEffect
  <2> QED
    BY <2>1, <2>2, <2>3, <2>4, <2>5, <2>6, <2>7 DEF RunMoves, ServerStep, Refuses
<1> QED
  BY <1>1, <1>2, SameShown, OneThread

(* What a send does. *)
LEMMA SendKeeps ==
    ASSUME PageInv, ServerTyped, ShownTyped, \A u \in Threads : ThreadInv(u), NEW t \in Threads,
           SendMoves(t) \/ PostFails(t)
    PROVE  ThreadsKeep
<1> USE DEF serverVars
<1>1. PageTypes /\ ThreadInv(t) /\ log[t] \in Seq(MessageTypes)
  BY DEF PageInv, ServerTyped
<1>2. bundle = [events |-> bundle.events, todos |-> bundle.todos, pending |-> bundle.pending]
  BY <1>1 DEF PageTypes
<1>3. CASE Posts(t)
  <2>1. sends[t] \in SendType
    BY <1>1, <1>3 DEF Posts, PageTypes
  <2>2. sends[t].message \in MessageType /\ Begin(t, sends[t].message) /\ bundle' = bundle
    BY <1>3, <2>1 DEF Posts, SendType
  <2>3. ServerTyped' /\ OthersRest(t) /\ ThreadInv(t)'
    BY <1>1, <2>2, PostEffect
  <2> QED
    BY <2>2, <2>3, SameShown, OneThread
<1>4. CASE StreamBreaks(t)
  <2>1. turn' = [turn EXCEPT ![t].pc = "none"] /\ wire' = [wire EXCEPT ![t] = <<>>]
        /\ UNCHANGED <<log, pending, bundle>>
    BY <1>4 DEF StreamBreaks, GivesUp
  <2>2. ServerTyped' /\ OthersRest(t) /\ ThreadInv(t)'
    BY <1>1, <2>1, OverEffect
  <2> QED
    BY <2>1, <2>2, SameShown, OneThread
<1>5. CASE StreamEnds(t)
  <2>1. turn' = [turn EXCEPT ![t].pc = "none"] /\ wire' = wire /\ wire[t] = <<>>
        /\ UNCHANGED <<log, pending, bundle>>
    BY <1>5 DEF StreamEnds
  <2>2. wire' = [wire EXCEPT ![t] = <<>>]
    BY <2>1 DEF ServerTyped
  <2>3. ServerTyped' /\ OthersRest(t) /\ ThreadInv(t)'
    BY <1>1, <2>1, <2>2, OverEffect
  <2> QED
    BY <2>1, <2>3, SameShown, OneThread
<1>6. CASE Receives(t)
  <2>1. /\ wire[t] # <<>> /\ wire' = [wire EXCEPT ![t] = Tail(@)]
        /\ bundle' = [bundle EXCEPT !.events = Append(@, Head(wire[t]))]
        /\ UNCHANGED <<turn, log, pending>>
    BY <1>6 DEF Receives
  <2>2. bundle'.events = Append(bundle.events, Head(wire[t]))
    BY <1>2, <2>1
  <2>3. /\ ServerTyped' /\ OthersRest(t) /\ ThreadInv(t)'
        /\ bundle'.events \in Seq(Range(bundle'.events))
        /\ \A u \in Threads \ {t} : TellsNothing(u)
    BY <1>1, <2>1, <2>2, ReadEffect DEF ShownTyped
  <2> QED
    BY <2>3, OneThread DEF ShownTyped
<1>7. CASE FinalRefresh(t) \/ PostFails(t)
  <2>1. UNCHANGED <<turn, pending, log, wire>>
    BY <1>7 DEF FinalRefresh, PostFails, GivesUp
  <2>2. bundle'.events = bundle.events
    BY <1>2, <1>7 DEF FinalRefresh, PostFails, GivesUp
  <2> QED
    BY <2>1, <2>2, SameShown, NoThread
<1>8. CASE FinishSend(t)
  <2> DEFINE events == IF sends[t].cut THEN HistoryEvents(log[t]) ELSE bundle.events
             asks == pending[t]
  <2>1. UNCHANGED <<turn, pending, log, wire>>
        /\ bundle' = [bundle EXCEPT !.events = events, !.pending = asks]
    BY <1>8 DEF FinishSend
  <2>2. bundle'.events = events
    <3> HIDE DEF events, asks
    <3> QED
      BY <1>2, <2>1
  <2>3. ShownTyped' /\ \A u \in Threads : TellsNothing(u)
    <3>1. CASE sends[t].cut
      BY <1>1, <2>2, <3>1, HistoryTellsNothing
    <3>2. CASE ~sends[t].cut
      BY <2>2, <3>2, SameShown
    <3> QED
      BY <3>1, <3>2
  <2> QED
    BY <2>1, <2>3, NoThread
<1> QED
  BY <1>3, <1>4, <1>5, <1>6, <1>7, <1>8 DEF SendMoves
(* What the user and the page's fetches do. *)
LEMMA PageKeeps ==
    ASSUME PageInv, RefetchInv,
           \/ Mount \/ DeleteUnregisters \/ DeleteForgets \/ DeleteApplies \/ Send
           \/ \E l \in loads : LoadThread(l) \/ LoadState(l) \/ LoadApplies(l)
           \/ \E s \in strays : StrayAnswers(s) \/ StrayApplies(s)
           \/ \E t \in Threads : Select(t) \/ Create(t) \/ Delete(t)
    PROVE  ThreadsKeep
<1> USE DEF serverVars
<1>1. /\ ServerTyped /\ ShownTyped /\ \A u \in Threads : ThreadInv(u)
      /\ \A l \in loads : l.log = None \/ l.log \in Seq(MessageTypes)
  BY DEF RefetchInv, ChatTypes, ServerTyped, ShownTyped
<1>2. ServerTypes /\ PageTypes /\ TurnsAreSent /\ DeletedRests
  BY DEF PageInv, RefetchInv
<1>3. bundle = [events |-> bundle.events, todos |-> bundle.todos, pending |-> bundle.pending]
  BY <1>2 DEF PageTypes
<1>4. CASE DeleteForgets
  <2>1. deleting # None /\ deleting.thread \in Threads
    BY <1>2, <1>4 DEF DeleteForgets, PageTypes, DeleteType
  <2>2. PICK t \in Threads : t = deleting.thread
    BY <2>1
  <2>3. turn[t].pc = "none" /\ Forget(t) /\ UNCHANGED <<turn, wire, bundle>>
    BY <1>2, <1>4, <2>1, <2>2 DEF DeletedRests, TurnsAreSent, DeleteForgets
  <2>4. DOMAIN pending = Threads /\ ThreadInv(t)
    BY <1>1, <1>2, <2>2 DEF ServerTypes
  <2>5. ServerTyped' /\ OthersRest(t) /\ ThreadInv(t)'
    BY <1>1, <2>1, <2>2, <2>3, <2>4, ForgetEffect
  <2>6. ShownTyped' /\ \A u \in Threads : TellsNothing(u)
    BY <1>1, <2>3, SameShown
  <2> QED
    BY <1>1, <2>2, <2>5, <2>6, OneThread
<1>5. ASSUME UNCHANGED <<turn, pending, log, wire>>, bundle'.events = bundle.events PROVE ThreadsKeep
  BY <1>1, <1>5, SameShown, NoThread
<1>6. ASSUME UNCHANGED <<turn, pending, log, wire>>, bundle' = EmptyBundle PROVE ThreadsKeep
  BY <1>1, <1>6, NothingShown, NoThread
<1>7. CASE Mount \/ DeleteUnregisters
  <2>1. UNCHANGED <<turn, pending, log, wire, bundle>>
    BY <1>7 DEF Mount, DeleteUnregisters
  <2> QED
    BY <1>5, <2>1
<1>8. CASE DeleteApplies
  <2>1. UNCHANGED <<turn, pending, log, wire>> /\ (bundle' = bundle \/ bundle' = EmptyBundle)
    BY <1>8 DEF DeleteApplies
  <2> QED
    BY <1>5, <1>6, <2>1
<1>9. CASE Send
  <2> DEFINE content == Message.content
             e == Event(<<"local", used["turns"]>>, "human", "text", content)
  <2>1. UNCHANGED <<turn, pending, log, wire>>
        /\ bundle' = [bundle EXCEPT !.pending = None, !.events = Append(@, e)]
    BY <1>9 DEF Send
  <2> HIDE DEF content
  <2>2. e.type = "text"
    BY DEF Event
  <2> HIDE DEF e
  <2>3. bundle'.events = Append(bundle.events, e)
    BY <1>3, <2>1
  <2>4. ShownTyped' /\ \A u \in Threads : TellsNothing(u)
    BY <1>1, <2>2, <2>3, LocalTellsNothing
  <2> QED
    BY <1>1, <2>1, <2>4, NoThread
<1>10. ASSUME NEW l \in loads, LoadThread(l) \/ LoadState(l) PROVE ThreadsKeep
  <2>1. UNCHANGED <<turn, pending, log, wire, bundle>>
    BY <1>10 DEF LoadThread, LoadState
  <2> QED
    BY <1>5, <2>1
<1>11. ASSUME NEW l \in loads, LoadApplies(l) PROVE ThreadsKeep
  <2>1. l.log # None /\ UNCHANGED <<turn, pending, log, wire>>
        /\ bundle' = [events |-> HistoryEvents(l.log), todos |-> l.todos, pending |-> l.pending]
    BY <1>11 DEF LoadApplies
  <2>2. l.log \in Seq(MessageTypes) /\ bundle'.events = HistoryEvents(l.log)
    BY <1>1, <2>1
  <2>3. ShownTyped' /\ \A u \in Threads : TellsNothing(u)
    BY <2>2, HistoryTellsNothing
  <2> QED
    BY <1>1, <2>1, <2>3, NoThread
<1>12. ASSUME NEW s \in strays, StrayAnswers(s) \/ StrayApplies(s) PROVE ThreadsKeep
  <2>1. UNCHANGED <<turn, pending, log, wire>>
    BY <1>12 DEF StrayAnswers, StrayApplies
  <2>2. bundle'.events = bundle.events
    BY <1>3, <1>12 DEF StrayAnswers, StrayApplies
  <2> QED
    BY <1>5, <2>1, <2>2
<1>13. ASSUME NEW t \in Threads, Select(t) \/ Create(t) \/ Delete(t) PROVE ThreadsKeep
  <2>1. UNCHANGED <<turn, pending, log, wire>> /\ (bundle' = bundle \/ bundle' = EmptyBundle)
    BY <1>13 DEF Select, Create, Delete
  <2> QED
    BY <1>5, <1>6, <2>1
<1> QED
  BY <1>4, <1>7, <1>8, <1>9, <1>10, <1>11, <1>12, <1>13

FetchesTyped ==
    /\ \A l \in loads : l.log = None \/ l.log \in Seq(MessageTypes)
    /\ \A s \in strays : s = [thread |-> s.thread, n |-> s.n, todos |-> s.todos] /\ s.thread \in Threads

(* A fetch of the thread brings messages. *)
LEMMA LoadsKeep ==
    ASSUME PageInv, RefetchInv, PageNext
    PROVE  \A l \in loads' : l.log = None \/ l.log \in Seq(MessageTypes)
<1> USE DEF serverVars, pageVars
<1>1. PageTypes /\ ServerTyped /\ \A l \in loads : l.log = None \/ l.log \in Seq(MessageTypes)
  BY DEF PageInv, RefetchInv, ChatTypes, ServerTyped
<1> DEFINE Goal == \A l \in loads' : l.log = None \/ l.log \in Seq(MessageTypes)
<1>2. loads' \subseteq loads => Goal
  BY <1>1
<1>3. ASSUME NEW t, NEW threads, Activates(t, threads) PROVE Goal
  BY <1>1, <1>3 DEF Activates, LoadOf
<1>4. ASSUME NEW l \in loads, LoadThread(l) PROVE Goal
  <2> DEFINE all == log[l.thread]
             asks == pending[l.thread]
             k == [l EXCEPT !.log = all, !.pending = asks]
  <2>1. loads' = (loads \ {l}) \cup {k}
    BY <1>4 DEF LoadThread
  <2>2. all \in Seq(MessageTypes)
    BY <1>1 DEF PageTypes, ServerTyped
  <2>3. l = [thread |-> l.thread, n |-> l.n, log |-> l.log, pending |-> l.pending, todos |-> l.todos]
    BY <1>1 DEF PageTypes
  <2> HIDE DEF all, asks
  <2>4. k.log = all
    BY <2>3
  <2> QED
    BY <1>1, <2>1, <2>2, <2>4
<1>5. ASSUME NEW l \in loads, LoadState(l) PROVE Goal
  <2> DEFINE v == todos[l.thread]
             k == [l EXCEPT !.todos = v]
  <2>1. loads' = (loads \ {l}) \cup {k}
    BY <1>5 DEF LoadState
  <2>2. l = [thread |-> l.thread, n |-> l.n, log |-> l.log, pending |-> l.pending, todos |-> l.todos]
    BY <1>1 DEF PageTypes
  <2> HIDE DEF v
  <2>3. k.log = l.log
    BY <2>2
  <2> QED
    BY <1>1, <2>1, <2>3
<1>6. ASSUME NEW l \in loads, LoadApplies(l) PROVE Goal
  BY <1>1, <1>6 DEF LoadApplies
<1>7. Mount => Goal
  BY <1>3 DEF Mount
<1>8. DeleteApplies => Goal
  BY <1>2, <1>3 DEF DeleteApplies
<1>9. DeleteUnregisters \/ DeleteForgets \/ Send => Goal
  BY <1>2 DEF DeleteUnregisters, DeleteForgets, Send
<1>10. \A s \in strays : StrayAnswers(s) \/ StrayApplies(s) => Goal
  BY <1>2 DEF StrayAnswers, StrayApplies
<1>11. \A t \in Threads : RunMoves(t) => Goal
  BY <1>2 DEF RunMoves
<1>12. \A t \in Threads : SendMoves(t) \/ PostFails(t) => Goal
  BY <1>2, SendEffect
<1>13. \A t \in Threads : Select(t) \/ Create(t) \/ Delete(t) => Goal
  BY <1>2, <1>3 DEF Select, Create, Delete
<1> QED
  BY <1>1, <1>4, <1>5, <1>6, <1>7, <1>8, <1>9, <1>10, <1>11, <1>12, <1>13, Steps

(* A refresh is of a thread, and a new one is from a response. *)
LEMMA StraysKeep ==
    ASSUME PageInv, RefetchInv, PageNext
    PROVE  /\ \A s \in strays' : s = [thread |-> s.thread, n |-> s.n, todos |-> s.todos] /\ s.thread \in Threads
           /\ \A s \in strays' \ strays : s.todos = None =>
                 \E t \in Threads : Receives(t) /\ Resumes(Head(wire[t]))
                                    /\ s.thread = t /\ s.n = Head(wire[t]).id
<1> USE DEF serverVars, pageVars
<1>1. /\ PageTypes /\ ServerTypes
      /\ \A s \in strays : s = [thread |-> s.thread, n |-> s.n, todos |-> s.todos] /\ s.thread \in Threads
  BY DEF PageInv, RefetchInv, ChatTypes
<1> DEFINE Typed == \A s \in strays' : s = [thread |-> s.thread, n |-> s.n, todos |-> s.todos]
                                       /\ s.thread \in Threads
           FromResponse(s) == \E t \in Threads : Receives(t) /\ Resumes(Head(wire[t]))
                                                 /\ s.thread = t /\ s.n = Head(wire[t]).id
           Goal == Typed /\ \A s \in strays' \ strays : s.todos = None => FromResponse(s)
<1> HIDE DEF FromResponse
<1>2. strays' \subseteq strays => Goal
  BY <1>1
<1>3. ASSUME NEW s \in strays, StrayAnswers(s) PROVE Goal
  <2> DEFINE v == todos[s.thread]
             k == [s EXCEPT !.todos = v]
  <2>1. strays' = (strays \ {s}) \cup {k}
    BY <1>3 DEF StrayAnswers
  <2>2. s = [thread |-> s.thread, n |-> s.n, todos |-> s.todos] /\ s.thread \in Threads
    BY <1>1
  <2>3. v \in Nat /\ v # None
    BY <1>1, <2>2, NoneIsNothing DEF ServerTypes
  <2> HIDE DEF v
  <2>4. k = [thread |-> s.thread, n |-> s.n, todos |-> v]
    BY <2>2
  <2> HIDE DEF k
  <2>5. k = [thread |-> k.thread, n |-> k.n, todos |-> k.todos] /\ k.thread \in Threads /\ k.todos # None
    BY <2>2, <2>3, <2>4
  <2> QED
    BY <1>1, <2>1, <2>5
<1>4. ASSUME NEW s \in strays, StrayApplies(s) PROVE Goal
  BY <1>2, <1>4 DEF StrayApplies
<1>5. ASSUME NEW t \in Threads, Receives(t) PROVE Goal
  <2> DEFINE n == Head(wire[t]).id
             k == [thread |-> t, n |-> n, todos |-> None]
  <2>1. strays' = strays \/ (strays' = strays \cup {k} /\ Resumes(Head(wire[t])))
    BY <1>5 DEF Receives
  <2>2. Resumes(Head(wire[t])) => FromResponse(k)
    BY <1>5 DEF FromResponse
  <2> HIDE DEF n
  <2>3. k = [thread |-> k.thread, n |-> k.n, todos |-> k.todos] /\ k.thread \in Threads
    OBVIOUS
  <2> HIDE DEF k
  <2> QED
    BY <1>1, <2>1, <2>2, <2>3
<1>6. Mount \/ DeleteUnregisters \/ DeleteForgets \/ DeleteApplies \/ Send => Goal
  BY <1>2 DEF Mount, DeleteUnregisters, DeleteForgets, DeleteApplies, Send
<1>7. \A l \in loads : LoadThread(l) \/ LoadState(l) \/ LoadApplies(l) => Goal
  BY <1>2 DEF LoadThread, LoadState, LoadApplies
<1>8. \A t \in Threads : RunMoves(t) => Goal
  BY <1>2 DEF RunMoves
<1>9. \A t \in Threads : Posts(t) \/ StreamBreaks(t) \/ StreamEnds(t) \/ FinalRefresh(t) \/ FinishSend(t)
                         \/ PostFails(t) => Goal
  BY <1>2 DEF Posts, StreamBreaks, StreamEnds, FinalRefresh, FinishSend, PostFails, GivesUp
<1>10. \A t \in Threads : Select(t) \/ Create(t) \/ Delete(t) => Goal
  BY <1>2 DEF Select, Create, Delete
<1> QED
  BY <1>1, <1>3, <1>4, <1>5, <1>6, <1>7, <1>8, <1>9, <1>10, Steps DEF SendMoves, FromResponse

(* Nothing is sent on a thread while it is deleted. *)
LEMMA DeletedRestsKeep ==
    ASSUME PageInv, DeletedRests, PageNext
    PROVE  DeletedRests'
<1> USE DEF serverVars, pageVars
<1>1. PageTypes /\ ServerTypes
  BY DEF PageInv
<1>2. ASSUME UNCHANGED sends, UNCHANGED deleting \/ deleting' = None PROVE DeletedRests'
  BY <1>2 DEF DeletedRests
<1>3. CASE Mount \/ DeleteApplies
  BY <1>2, <1>3 DEF Mount, DeleteApplies
<1>4. CASE DeleteUnregisters \/ DeleteForgets
  <2>1. PICK pc \in {"checkpoint", "answered"} : deleting' = [deleting EXCEPT !.pc = pc]
    BY <1>4 DEF DeleteUnregisters, DeleteForgets
  <2>2. deleting # None /\ UNCHANGED sends
    BY <1>4 DEF DeleteUnregisters, DeleteForgets
  <2>3. deleting'.thread = deleting.thread
    BY <1>1, <2>1, <2>2 DEF PageTypes, DeleteType
  <2> QED
    BY <2>2, <2>3 DEF DeletedRests
<1>5. CASE Send
  <2>1. page.active # None /\ (deleting # None => deleting.thread # page.active) /\ deleting' = deleting
    BY <1>5 DEF Send
  <2>2. \A u \in Threads \ {page.active} : sends'[u] = sends[u]
    BY <1>1, <1>5 DEF Send, PageTypes
  <2>3. deleting # None => deleting.thread \in Threads
    BY <1>1 DEF PageTypes, DeleteType
  <2> QED
    BY <2>1, <2>2, <2>3 DEF DeletedRests
<1>6. ASSUME NEW t \in Threads, SendMoves(t) \/ PostFails(t) PROVE DeletedRests'
  <2>1. sends[t] # None /\ deleting' = deleting /\ \A u \in Threads \ {t} : sends'[u] = sends[u]
    BY <1>6, SendEffect
  <2>2. deleting # None => deleting.thread \in Threads
    BY <1>1 DEF PageTypes, DeleteType
  <2> QED
    BY <2>1, <2>2 DEF DeletedRests
<1>7. ASSUME NEW t \in Threads, RunMoves(t) \/ Select(t) \/ Create(t) PROVE DeletedRests'
  BY <1>2, <1>7 DEF RunMoves, Select, Create
<1>8. ASSUME NEW t \in Threads, Delete(t) PROVE DeletedRests'
  BY <1>8 DEF Delete, DeletedRests
<1>9. ASSUME NEW l \in loads, LoadThread(l) \/ LoadState(l) \/ LoadApplies(l) PROVE DeletedRests'
  BY <1>2, <1>9 DEF LoadThread, LoadState, LoadApplies
<1>10. ASSUME NEW s \in strays, StrayAnswers(s) \/ StrayApplies(s) PROVE DeletedRests'
  BY <1>2, <1>10 DEF StrayAnswers, StrayApplies
<1> QED
  BY <1>1, <1>3, <1>4, <1>5, <1>6, <1>7, <1>8, <1>9, <1>10, Steps
-----------------------------------------------------------------------------
LEMMA RefetchInit == PageInit => RefetchInv
<1> SUFFICES ASSUME PageInit PROVE RefetchInv
  OBVIOUS
<1>1. PICK earlier \in Earlier : ServerInit(earlier)
  BY DEF PageInit
<1>2. /\ log \in [Threads -> Seq(MessageTypes)]
      /\ \A t \in Threads : pending[t] # None => log[t] # <<>> /\ Last(log[t]).role = "ai"
      /\ turn = [t \in Threads |-> [NoTurn EXCEPT !.run = Len(log[t]), !.at = Len(log[t])]]
      /\ wire = [t \in Threads |-> <<>>]
  BY <1>1, PageAssumption DEF ServerInit
<1>3. bundle.events = <<>> /\ Range(bundle.events) = {} /\ strays = {} /\ loads = {} /\ deleting = None
  BY DEF PageInit, EmptyBundle, Range
<1>4. ASSUME NEW t \in Threads PROVE turn[t] \in TurnType /\ turn[t].pc = "none"
  <2> DEFINE s == log[t]
             n == Len(s)
             ids == [i \in Indexes |-> None]
             new == [NoTurn EXCEPT !.run = n, !.at = n]
  <2>1. s \in Seq(MessageTypes) /\ turn[t] = new
    BY <1>2
  <2> HIDE DEF s
  <2>2. n \in Nat
    BY <2>1
  <2>3. NoTurn = [pc |-> "none", run |-> 0, at |-> 0, ids |-> ids, said |-> None, rest |-> <<>>,
                  answer |-> None, out |-> FALSE]
    BY DEF NoTurn
  <2>4. ids \in [Indexes -> CallIds]
    BY DEF CallIds
  <2>5. new = [NoTurn EXCEPT !.run = n, !.at = n]
    OBVIOUS
  <2> HIDE DEF n, ids, new
  <2>6. new = [pc |-> "none", run |-> n, at |-> n, ids |-> ids, said |-> None, rest |-> <<>>,
               answer |-> None, out |-> FALSE]
    BY <2>3, <2>5
  <2> QED
    BY <2>1, <2>2, <2>4, <2>6 DEF TurnType
<1>5. turn \in [Threads -> TurnType] /\ wire \in [Threads -> Seq(EventTypes)]
  <2> DEFINE f(t) == [NoTurn EXCEPT !.run = Len(log[t]), !.at = Len(log[t])]
  <2>0. turn = [t \in Threads |-> f(t)]
    BY <1>2, Zenon
  <2> HIDE DEF f
  <2>1. turn = [t \in Threads |-> turn[t]]
    BY <2>0
  <2>2. turn \in [Threads -> TurnType]
    BY <1>4, <2>1
  <2>3. wire = [t \in Threads |-> <<>>]
    BY <1>2, Zenon
  <2>4. <<>> \in Seq(EventTypes)
    OBVIOUS
  <2>5. wire \in [Threads -> Seq(EventTypes)]
    BY <2>3, <2>4
  <2> QED
    BY <2>2, <2>5
<1>6. ChatTypes /\ DeletedRests
  <2>1. bundle.events \in Seq(Range(bundle.events))
    BY <1>3
  <2>2. log \in [Threads -> Seq(MessageTypes)]
    BY <1>2
  <2> QED
    BY <1>3, <1>5, <2>1, <2>2 DEF ChatTypes, DeletedRests
<1>7. ASSUME NEW t \in Threads PROVE ThreadInv(t)
  <2>1. turn[t].pc = "none" /\ wire[t] = <<>>
    BY <1>2, <1>4
  <2>2. pending[t] # None => log[t] # <<>> /\ Last(log[t]).role = "ai"
    BY <1>2
  <2>3. DOMAIN wire[t] = {}
    BY <2>1
  <2>4. SpeaksOwn(t) /\ CallsAreLast(t) /\ AsksLast(t)
    BY <2>1, <2>2 DEF SpeaksOwn, CallsAreLast, AsksLast
  <2>5. WireIsOwn(t) /\ WordsFollow(t)
    BY <2>1, <2>3 DEF WireIsOwn, WordsFollow
  <2>6. ShownIsOld(t) /\ CallsFollow(t)
    BY <1>3, <2>1 DEF ShownIsOld, CallsFollow
  <2> QED
    BY <2>4, <2>5, <2>6 DEF ThreadInv
<1> QED
  BY <1>6, <1>7 DEF RefetchInv

LEMMA RefetchInvStep ==
    ASSUME SaysBeforeCalls, PageInv, RefetchInv, [PageNext]_vars
    PROVE  RefetchInv'
<1>1. CASE PageNext
  <2>1. /\ ServerTyped /\ ShownTyped /\ (\A u \in Threads : ThreadInv(u)) /\ DOMAIN pending = Threads
        /\ PageTypes /\ DeletedRests
    BY DEF PageInv, RefetchInv, ChatTypes, ServerTyped, ShownTyped, ServerTypes
  <2>2. ThreadsKeep
    <3>1. \A t \in Threads : RunMoves(t) => ThreadsKeep
      BY <2>1, RunKeeps
    <3>2. \A t \in Threads : SendMoves(t) \/ PostFails(t) => ThreadsKeep
      BY <2>1, SendKeeps
    <3> HIDE DEF ThreadsKeep
    <3> QED
      BY <1>1, <2>1, <3>1, <3>2, PageKeeps, Steps
  <2>3. DeletedRests'
    BY <1>1, <2>1, DeletedRestsKeep
  <2>4. /\ \A l \in loads' : l.log = None \/ l.log \in Seq(MessageTypes)
        /\ \A s \in strays' : s = [thread |-> s.thread, n |-> s.n, todos |-> s.todos] /\ s.thread \in Threads
    BY <1>1, LoadsKeep, StraysKeep
  <2> QED
    BY <2>2, <2>3, <2>4 DEF ThreadsKeep, RefetchInv, ChatTypes, ServerTyped, ShownTyped
<1>2. CASE UNCHANGED vars
  <2>1. UNCHANGED <<turn, pending, log, wire, bundle, loads, strays, deleting, sends>>
    BY <1>2 DEF vars, serverVars, pageVars
  <2>2. ServerTyped /\ ShownTyped /\ \A u \in Threads : ThreadInv(u)
    BY DEF RefetchInv, ChatTypes, ServerTyped, ShownTyped
  <2>3. ThreadsKeep
    BY <2>1, <2>2, SameShown, NoThread
  <2>4. DeletedRests'
    BY <2>1 DEF RefetchInv, DeletedRests
  <2>5. /\ \A l \in loads' : l.log = None \/ l.log \in Seq(MessageTypes)
        /\ \A s \in strays' : s = [thread |-> s.thread, n |-> s.n, todos |-> s.todos] /\ s.thread \in Threads
    BY <2>1 DEF RefetchInv, ChatTypes
  <2> QED
    BY <2>3, <2>4, <2>5 DEF ThreadsKeep, RefetchInv, ChatTypes, ServerTyped, ShownTyped
<1> QED
  BY <1>1, <1>2

(* Where words come next in the response, the calls that are shown are committed. *)
LEMMA WordsComeAfter ==
    ASSUME ServerTyped, NEW t \in Threads, ThreadInv(t), wire[t] # <<>>, Resumes(Head(wire[t])),
           Head(wire[t]).type # "notification",
           NEW ev \in Range(bundle.events), Mutates(ev), ev.id = Head(wire[t]).id
    PROVE  Committed(t, ev.content.id)
<1> DEFINE w == wire[t]
           e == Head(w)
<1>1. w \in Seq(EventTypes) /\ w # <<>>
  BY DEF ServerTyped
<1>2. w = wire[t] /\ Resumes(e) /\ e.type # "notification" /\ ev.id = e.id
  OBVIOUS
<1> HIDE DEF w
<1>3. e = w[1] /\ 1 \in DOMAIN w /\ e \in EventTypes
  BY <1>1
<1> HIDE DEF e
<1>4. e \in SpeechType(OfTurns)
  <2>1. e \notin CallEventType(OfTurns) /\ e \notin NoticeType
    BY <1>2, KindsDiffer DEF Resumes
  <2>2. e \notin OutputType
    BY <1>2 DEF Resumes, OutputType
  <2> QED
    BY <1>3, <2>1, <2>2 DEF EventTypes
<1>5. e.id = <<t, turn[t].run>>
  BY <1>2, <1>3, <1>4 DEF ThreadInv, WireIsOwn
<1>6. ev \in CallsIn(t, turn[t].run, Range(bundle.events) \cup {w[q] : q \in 1 .. 1 - 1})
  BY <1>2, <1>5 DEF CallsIn
<1> QED
  BY <1>2, <1>3, <1>4, <1>6 DEF ThreadInv, WordsFollow

(* Of a model that says what it has to say before it calls tools: when the page
   refetches the state in the middle of a turn, every call shown that changes
   state is committed (App.jsx, shouldRefetch), however the turn is cut, broken
   off or answered later and whatever thread the user looks at.               *)
THEOREM RefetchFollowsCommit == SaysBeforeCalls => (PageSpec => RefetchSeesCommit)
<1> SUFFICES ASSUME SaysBeforeCalls PROVE PageSpec => RefetchSeesCommit
  OBVIOUS
<1> DEFINE Sees == \A s \in strays' \ strays : s.todos = None =>
                      \A k \in DOMAIN bundle.events :
                         LET ev == bundle.events[k]
                         IN  (Mutates(ev) /\ ev.id = s.n) =>
                                 \E j \in DOMAIN log[s.thread] :
                                    /\ log[s.thread][j].role = "tool"
                                    /\ log[s.thread][j].id = ev.content.id
<1>1. PageInv /\ RefetchInv /\ [PageNext]_vars => [Sees]_vars
  <2> SUFFICES ASSUME PageInv, RefetchInv, PageNext, NEW s \in strays' \ strays, s.todos = None,
                      NEW k \in DOMAIN bundle.events,
                      Mutates(bundle.events[k]), bundle.events[k].id = s.n
               PROVE  \E j \in DOMAIN log[s.thread] :
                         /\ log[s.thread][j].role = "tool"
                         /\ log[s.thread][j].id = bundle.events[k].content.id
    BY Zenon
  <2>1. PICK t \in Threads : Receives(t) /\ Resumes(Head(wire[t]))
                             /\ s.thread = t /\ s.n = Head(wire[t]).id
    BY StraysKeep
  <2>2. ServerTyped /\ ThreadInv(t) /\ wire[t] # <<>>
    BY <2>1 DEF RefetchInv, ChatTypes, ServerTyped, Receives
  <2>3. bundle.events[k] \in Range(bundle.events)
    BY DEF Range
  <2>4. Head(wire[t]).type # "notification"
    BY <2>1 DEF Receives
  <2>5. Committed(t, bundle.events[k].content.id)
    BY <2>1, <2>2, <2>3, <2>4, WordsComeAfter
  <2> QED
    BY <2>1, <2>5 DEF Committed
<1>2. PageInv /\ RefetchInv /\ [PageNext]_vars => RefetchInv'
  BY RefetchInvStep
<1> QED
  BY <1>1, <1>2, RefetchInit, PageInvHolds, PTL DEF RefetchSeesCommit, PageSpec
=============================================================================
