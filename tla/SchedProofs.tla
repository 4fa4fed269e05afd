---------------------------- MODULE SchedProofs -----------------------------
(***************************************************************************)
(* Proofs about Sched for every number of tasks and every timer divisor:   *)
(* although the timer rotates the ready list between any two accesses of   *)
(* fork's add_task to it, no task is lost, the children keep their order,  *)
(* and no walk runs in a circle.                                           *)
(***************************************************************************)
EXTENDS Sched, WellFoundedInduction, TLAPS

-----------------------------------------------------------------------------
(* The inductive invariant.                                                *)

Lost == -1      \* place of the first task when the list is without it

IsEnd(x) == x \in {NULL, Wild}

\* From h on, n is the list of the children a .. k in this order, with the
\* first task behind child z, in front of all of them if z = a - 1.
Chain(h, n, a, k, z) ==
    /\ a \in 1 .. k + 1
    /\ z \in (a - 1) .. k \cup {Lost}
    /\ z = a - 1 => h = Init0
    /\ z # a - 1 /\ a <= k => h = a
    /\ z # a - 1 /\ a > k => IsEnd(h)
    /\ \A t \in a .. k :
          /\ t = z => n[t] = Init0
          /\ t # z /\ t < k => n[t] = t + 1
          /\ t # z /\ t = k => IsEnd(n[t])
    /\ z # Lost /\ z < k => n[Init0] = z + 1
    /\ z # Lost /\ z = k => IsEnd(n[Init0])
    /\ z = Lost => n[Init0] = NULL

\* Where fork's add_task is, with k children in the list and the first task
\* behind child z.  The loop may have left the list only where its condition is
\* next, which faults.  At its last statement the timer may have put the first
\* task behind the end it found.
AddingAt(k, z) ==
    /\ next_tid = IF pc = "run" THEN k + 1 ELSE k + 2
    /\ pc # "run" => IsEnd(nxt[k + 1])
    /\ pc = "test" => tmp \in 1 .. k \/ (tmp = Init0 /\ z # Lost) \/ IsEnd(tmp)
    /\ pc = "step" => tmp \in 1 .. k \/ (tmp = Init0 /\ z # Lost)
    /\ pc = "link" => \/ z = k /\ tmp = Init0 /\ nxt[Init0] = NULL
                      \/ z # k /\ tmp = k /\ nxt[k] = NULL
                      \/ z = k /\ tmp = k /\ k >= 1 /\ nxt[Init0] = NULL

\* The list once tasking_init is over.
ReadyList ==
    \E k \in 0 .. MaxTasks - 1 : \E z \in 0 .. k \cup {Lost} :
        /\ Chain(head, nxt, 1, k, z)
        /\ z = Lost => k >= 1
        /\ AddingAt(k, z)

\* As long as interrupts are on, the first task is the one that runs: its own
\* context is the only one that schedule can come back to.
FirstRuns ==
    /\ current = Init0 /\ dir = Init0
    /\ ctx[Init0] \in {Fresh, Init0}
    /\ \A t \in Tasks : t # Init0 => ctx[t] = Fresh

IInv ==
    /\ TypeOK
    /\ pc = "boot" => /\ current = NULL /\ next_tid = 0 /\ head = NULL
                      /\ \A t \in Tasks : ctx[t] = Fresh
    /\ pc = "starting" => next_tid = 1 /\ (Interruptible => head = NULL /\ IsEnd(nxt[Init0]))
    /\ pc # "boot" /\ Interruptible => FirstRuns
    /\ pc \notin {"boot", "starting"} /\ Interruptible => ReadyList
    /\ NoTaskLost /\ ForkOrder

-----------------------------------------------------------------------------
(* What is met on a list.                                                  *)

\* A set of natural numbers that is not empty has a least element.
LEMMA Least ==
    ASSUME NEW S \in SUBSET Nat, S # {}
    PROVE  \E m \in S : \A k \in S : m <= k
<1> DEFINE R == OpToRel(<, Nat)
<1>1. IsWellFoundedOn(R, Nat)
  BY NatLessThanWellFounded
<1> HIDE DEF R
<1>2. PICK m \in S : \A k \in S : ~ (<<k, m>> \in R)
  BY <1>1, WFMin
<1>3. \A k \in S : ~ (k < m)
  BY <1>2 DEF R, OpToRel
<1> QED
  BY <1>3

\* Following next from child a, or from the first task in front of it, one
\* meets all children up to k if each leads to the next, directly or by way
\* of the first task.
LEMMA Covers ==
    ASSUME NEW h, NEW n, NEW a \in Nat, NEW k \in Nat,
           h = a \/ (h = Init0 /\ n[Init0] = a),
           \A t \in Nat : a <= t /\ t < k => n[t] = t + 1 \/ (n[t] = Init0 /\ n[Init0] = t + 1),
           NEW S, Closed(S, h, n),
           NEW c \in Nat, a <= c, c <= k
    PROVE  c \in S
<1> USE DEF NULL, Wild, Init0
<1> DEFINE T == {t \in Nat : a <= t /\ t <= k /\ t \notin S}
<1>1. \A t \in S : t \in Nat => n[t] \in S \cup {NULL}
  BY DEF Closed
<1>2. a \in S
  <2>1. h \in S
    BY DEF Closed
  <2> QED
    BY <2>1, <1>1
<1>3. ASSUME NEW t \in Nat, a <= t, t < k, t \in S PROVE t + 1 \in S
  <2>1. n[t] \in S \cup {NULL}
    BY <1>1, <1>3
  <2>2. CASE n[t] = t + 1
    BY <2>1, <2>2
  <2>3. CASE n[t] = Init0 /\ n[Init0] = t + 1
    BY <1>1, <2>1, <2>3
  <2> QED
    BY <1>3, <2>2, <2>3
<1>4. T = {}
  <2> SUFFICES ASSUME T # {} PROVE FALSE
    OBVIOUS
  <2>1. PICK m \in T : \A t \in T : m <= t
    BY Least
  <2>2. m # a /\ m \in Nat /\ m > a /\ m <= k /\ m \notin S
    BY <1>2, <2>1
  <2>3. m - 1 \in Nat /\ a <= m - 1 /\ m - 1 < k
    BY <2>2
  <2>4. m - 1 \in S
    BY <2>1, <2>2, <2>3
  <2> QED
    BY <1>3, <2>2, <2>3, <2>4
<1> QED
  BY <1>4

LEMMA TaskNumbers ==
    /\ MaxTasks \in Nat \ {0} /\ Freq \in Nat \ {0} /\ Tasks = 0 .. MaxTasks - 1
    /\ Met = Tasks \cup {Wild} /\ NULL \notin Met /\ Init0 \in Tasks
  BY SchedAssumption DEF Tasks, Met, NULL, Wild, Init0

\* The last task of a list.
Last(k, z) == IF z = k THEN Init0 ELSE k

\* What a list leads to: its children, the first task, and Wild if that is
\* what its last task holds.
LEMMA ChainReach ==
    ASSUME NEW h \in Tasks \cup {NULL, Wild}, NEW n \in [Tasks -> Tasks \cup {NULL, Wild}],
           NEW a \in Nat, NEW k \in Nat, k < MaxTasks, NEW z, Chain(h, n, a, k, z)
    PROVE  /\ a .. k \subseteq Reach(h, n)
           /\ z # Lost => Init0 \in Reach(h, n)
           /\ Reach(h, n) \ {Wild} \subseteq a .. k \cup (IF z = Lost THEN {} ELSE {Init0})
           /\ Wild \in Reach(h, n) => IF a <= k \/ z # Lost THEN n[Last(k, z)] = Wild ELSE h = Wild
           /\ a <= k \/ z # Lost => /\ Last(k, z) \in Reach(h, n) \ {Wild}
                                    /\ n[Last(k, z)] = Wild => Wild \in Reach(h, n)
           /\ h = Wild => Wild \in Reach(h, n)
<1> USE TaskNumbers DEF NULL, Wild, Init0, Lost, IsEnd
<1>1. /\ a >= 1 /\ a <= k + 1 /\ (z = Lost \/ (z \in Nat /\ a - 1 <= z /\ z <= k))
      /\ \A t \in Nat : a <= t /\ t <= k => t \in Tasks
  BY DEF Chain
<1>2. \A t \in Nat : a <= t /\ t < k => n[t] = t + 1 \/ (n[t] = Init0 /\ n[Init0] = t + 1)
  BY <1>1 DEF Chain
<1>3. ASSUME NEW S \in SUBSET Met, Closed(S, h, n)
      PROVE  /\ \A c \in Nat : a <= c /\ c <= k => c \in S
             /\ z # Lost => Init0 \in S
             /\ h = Wild => Wild \in S
             /\ (a <= k \/ z # Lost) /\ n[Last(k, z)] = Wild => Wild \in S
  <2>1. a <= k => h = a \/ (h = Init0 /\ n[Init0] = a)
    BY <1>1 DEF Chain
  <2>2. \A c \in Nat : a <= c /\ c <= k => c \in S
    <3> SUFFICES ASSUME NEW c \in Nat, a <= c, c <= k PROVE c \in S
      OBVIOUS
    <3>1. h = a \/ (h = Init0 /\ n[Init0] = a)
      BY <2>1
    <3> QED
      BY <1>2, <1>3, <3>1, Covers
  <2>3. \A t \in S : t \in Nat => n[t] \in S \cup {NULL}
    BY <1>3 DEF Closed
  <2>4. z # Lost => Init0 \in S
    <3>1. CASE z = a - 1
      BY <1>3, <3>1 DEF Chain, Closed
    <3>2. CASE z # a - 1 /\ z # Lost
      <4>1. z \in S /\ n[z] = Init0 /\ z \in Nat
        BY <1>1, <2>2, <3>2 DEF Chain
      <4> QED
        BY <2>3, <4>1
    <3> QED
      BY <3>1, <3>2
  <2>5. h = Wild => Wild \in S
    BY <1>3 DEF Closed
  <2>6. (a <= k \/ z # Lost) /\ n[Last(k, z)] = Wild => Wild \in S
    <3> SUFFICES ASSUME a <= k \/ z # Lost, n[Last(k, z)] = Wild PROVE Wild \in S
      OBVIOUS
    <3>1. Last(k, z) \in S /\ Last(k, z) \in Nat
      BY <1>1, <2>2, <2>4 DEF Last
    <3> QED
      BY <2>3, <3>1
  <2> QED
    BY <2>2, <2>4, <2>5, <2>6
<1>4. /\ a .. k \subseteq Reach(h, n)
      /\ z # Lost => Init0 \in Reach(h, n)
      /\ h = Wild => Wild \in Reach(h, n)
      /\ a <= k \/ z # Lost => (n[Last(k, z)] = Wild => Wild \in Reach(h, n))
  BY <1>1, <1>3 DEF Reach
<1>5. PICK W : W = IF a <= k \/ z # Lost THEN n[Last(k, z)] ELSE h
  OBVIOUS
<1>6. IsEnd(W)
  BY <1>1, <1>5 DEF Chain, Last
<1>7. PICK U : U = {t \in Met : (t \in Nat /\ a <= t /\ t <= k) \/ (z # Lost /\ t = Init0) \/ (t = Wild /\ W = Wild)}
  OBVIOUS
<1>8. U \in SUBSET Met /\ Closed(U, h, n)
  <2>1. h \in U \cup {NULL}
    BY <1>1, <1>5, <1>6, <1>7 DEF Chain
  <2>2. ASSUME NEW t \in U \ {Wild} PROVE n[t] \in U \cup {NULL}
    <3>1. CASE t \in Nat /\ a <= t /\ t <= k /\ t = z
      BY <1>1, <1>7, <3>1 DEF Chain
    <3>2. CASE t \in Nat /\ a <= t /\ t <= k /\ t # z /\ t < k
      <4>1. n[t] = t + 1 /\ t + 1 \in Nat /\ a <= t + 1 /\ t + 1 <= k
        BY <1>1, <3>2 DEF Chain
      <4> QED
        BY <1>1, <1>7, <4>1
    <3>3. CASE t \in Nat /\ a <= t /\ t = k /\ t # z
      BY <1>1, <1>5, <1>6, <1>7, <3>3 DEF Chain, Last
    <3>4. CASE z # Lost /\ t = Init0 /\ z < k
      <4>1. n[t] = z + 1 /\ z + 1 \in Nat /\ a <= z + 1 /\ z + 1 <= k
        BY <1>1, <3>4 DEF Chain
      <4> QED
        BY <1>1, <1>7, <4>1
    <3>5. CASE z # Lost /\ t = Init0 /\ z = k
      BY <1>1, <1>5, <1>6, <1>7, <3>5 DEF Chain, Last
    <3> QED
      BY <1>1, <1>7, <2>2, <3>1, <3>2, <3>3, <3>4, <3>5
  <2> QED
    BY <1>7, <2>1, <2>2 DEF Closed
<1>9. Reach(h, n) \subseteq U
  BY <1>8 DEF Reach
<1>10. a <= k \/ z # Lost => Last(k, z) \in Reach(h, n) \ {Wild}
  BY <1>1, <1>4 DEF Last
<1>11. Reach(h, n) \ {Wild} \subseteq a .. k \cup (IF z = Lost THEN {} ELSE {Init0})
  BY <1>7, <1>9
<1>12. Wild \in Reach(h, n) => IF a <= k \/ z # Lost THEN n[Last(k, z)] = Wild ELSE h = Wild
  BY <1>1, <1>5, <1>7, <1>9
<1> QED
  BY <1>4, <1>10, <1>11, <1>12

\* Behind each child of a list the later ones are met.
LEMMA ChainOrder ==
    ASSUME NEW h, NEW n, NEW a \in Nat, NEW k \in Nat, k < MaxTasks, NEW z,
           Chain(h, n, a, k, z),
           NEW t \in Nat, a <= t, NEW u \in Nat, t < u, u <= k
    PROVE  u \in Reach(n[t], n)
<1> USE TaskNumbers DEF NULL, Wild, Init0, Lost
<1>1. a >= 1 /\ (z = Lost \/ (z \in Nat /\ a - 1 <= z /\ z <= k)) /\ u \in Met
  BY DEF Chain
<1>2. \A c \in Nat : t <= c /\ c < k => n[c] = c + 1 \/ (n[c] = Init0 /\ n[Init0] = c + 1)
  BY <1>1 DEF Chain
<1>3. n[t] = t + 1 \/ (n[t] = Init0 /\ n[Init0] = t + 1)
  BY <1>2
<1>4. PICK b \in Nat : b = t + 1
  OBVIOUS
<1>5. PICK g : g = n[t]
  OBVIOUS
<1>6. /\ g = b \/ (g = Init0 /\ n[Init0] = b)
      /\ \A c \in Nat : b <= c /\ c < k => n[c] = c + 1 \/ (n[c] = Init0 /\ n[Init0] = c + 1)
      /\ b <= u
  BY <1>2, <1>3, <1>4, <1>5
<1>7. ASSUME NEW S \in SUBSET Met, Closed(S, g, n) PROVE u \in S
  BY <1>6, <1>7, Covers
<1> QED
  BY <1>1, <1>5, <1>7 DEF Reach

\* A list that is not empty has one last task, unless it ends in Wild.
LEMMA ChainEnds ==
    ASSUME NEW h \in Tasks \cup {NULL, Wild}, NEW n \in [Tasks -> Tasks \cup {NULL, Wild}],
           NEW a \in Nat, NEW k \in Nat, k < MaxTasks, NEW z, Chain(h, n, a, k, z),
           h # NULL
    PROVE  \/ Wild \in Reach(h, n)
           \/ /\ a <= k \/ z # Lost
              /\ Last(k, z) \in Tasks /\ n[Last(k, z)] = NULL
              /\ Ends(h, n) = {Last(k, z)}
<1> USE TaskNumbers DEF NULL, Wild, Init0, Lost, IsEnd
<1>1. /\ a >= 1 /\ a <= k + 1 /\ (z = Lost \/ (z \in Nat /\ a - 1 <= z /\ z <= k))
      /\ \A t \in Nat : a <= t /\ t <= k => t \in Tasks
  BY DEF Chain
<1>2. CASE ~ (a <= k \/ z # Lost)
  <2>1. h = Wild
    BY <1>1, <1>2 DEF Chain
  <2> QED
    BY <2>1, ChainReach
<1>3. CASE a <= k \/ z # Lost
  <2>1. /\ Last(k, z) \in Reach(h, n) \ {Wild} /\ Last(k, z) \in Tasks
        /\ n[Last(k, z)] = Wild => Wild \in Reach(h, n)
        /\ Reach(h, n) \ {Wild} \subseteq a .. k \cup (IF z = Lost THEN {} ELSE {Init0})
    BY <1>1, <1>3, ChainReach DEF Last
  <2>2. IsEnd(n[Last(k, z)])
    BY <1>1, <1>3 DEF Chain, Last
  <2>3. ASSUME NEW t \in Reach(h, n) \ {Wild}, n[t] = NULL PROVE t = Last(k, z)
    <3>1. t \in a .. k \/ (t = Init0 /\ z # Lost)
      BY <2>1
    <3>2. CASE t \in a .. k
      BY <1>1, <2>3, <3>2 DEF Chain, Last
    <3>3. CASE t = Init0 /\ z # Lost
      BY <1>1, <2>3, <3>3 DEF Chain, Last
    <3> QED
      BY <3>1, <3>2, <3>3
  <2>4. CASE n[Last(k, z)] = NULL
    BY <1>3, <2>1, <2>3, <2>4 DEF Ends
  <2> QED
    BY <2>1, <2>2, <2>4
<1> QED
  BY <1>2, <1>3

\* pop_task takes the first task or child 1 away.
LEMMA PopChain ==
    ASSUME NEW h \in Tasks \cup {NULL, Wild}, NEW n \in [Tasks -> Tasks \cup {NULL, Wild}],
           NEW k \in Nat, k < MaxTasks, NEW z, Chain(h, n, 1, k, z), z = Lost => k >= 1,
           NEW p, p = pop_task(h, n)
    PROVE  /\ h \in Tasks
           /\ p.head \in Tasks \cup {NULL, Wild} /\ p.nxt \in [Tasks -> Tasks \cup {NULL, Wild}]
           /\ \A t \in Tasks : t # h => p.nxt[t] = n[t]
           /\ z = 0 => h = Init0 /\ Chain(p.head, p.nxt, 1, k, Lost)
           /\ z # 0 => h = 1 /\ k >= 1 /\ Chain(p.head, p.nxt, 2, k, z)
<1> USE TaskNumbers DEF NULL, Wild, Init0, Lost, IsEnd
<1>1. /\ (z = Lost \/ (z \in Nat /\ z <= k))
      /\ \A t \in Nat : t <= k => t \in Tasks
  BY DEF Chain
<1>2. h \in Tasks /\ (z = 0 => h = 0) /\ (z # 0 => h = 1 /\ k >= 1)
  BY <1>1 DEF Chain
<1>3. p.head = n[h] /\ p.nxt = [n EXCEPT ![h] = NULL]
  BY <1>2 DEF pop_task
<1>4. \A t \in Tasks : p.nxt[t] = IF t = h THEN NULL ELSE n[t]
  BY <1>2, <1>3
<1>5. CASE z = 0
  <2>1. Chain(p.head, p.nxt, 1, k, Lost)
    BY <1>1, <1>2, <1>3, <1>4, <1>5 DEF Chain
  <2> QED
    BY <1>2, <1>3, <1>4, <1>5, <2>1
<1>6. CASE z # 0
  <2>1. \A t \in 2 .. k : p.nxt[t] = n[t]
    BY <1>1, <1>2, <1>4, <1>6
  <2>2. p.nxt[0] = n[0]
    BY <1>2, <1>4, <1>6
  <2>3. /\ z = 1 => p.head = 0
        /\ z # 1 /\ 2 <= k => p.head = 2
        /\ z # 1 /\ 2 > k => IsEnd(p.head)
    BY <1>1, <1>2, <1>3, <1>6 DEF Chain
  <2>4. Chain(p.head, p.nxt, 2, k, z)
    BY <1>1, <1>2, <1>6, <2>1, <2>2, <2>3 DEF Chain
  <2> QED
    BY <1>2, <1>3, <1>4, <1>6, <2>4
<1> QED
  BY <1>5, <1>6

\* What is left when the first task of the list was taken off has an end too.
LEMMA PopEnds ==
    ASSUME NEW h \in Tasks \cup {NULL, Wild}, NEW n \in [Tasks -> Tasks \cup {NULL, Wild}],
           NEW k \in Nat, k < MaxTasks, NEW z, Chain(h, n, 1, k, z), z = Lost => k >= 1,
           NEW p, p = pop_task(h, n), p.head # NULL
    PROVE  Ends(p.head, p.nxt) # {} \/ Wild \in Reach(p.head, p.nxt)
<1>1. /\ p.head \in Tasks \cup {NULL, Wild} /\ p.nxt \in [Tasks -> Tasks \cup {NULL, Wild}]
      /\ z = 0 => Chain(p.head, p.nxt, 1, k, Lost)
      /\ z # 0 => Chain(p.head, p.nxt, 2, k, z)
  BY PopChain
<1>2. PICK g \in Tasks \cup {NULL, Wild}, m \in [Tasks -> Tasks \cup {NULL, Wild}] :
        g = p.head /\ m = p.nxt
  BY <1>1
<1>3. g # NULL
  BY <1>2
<1>4. PICK a, y : a \in Nat /\ Chain(g, m, a, k, y)
  BY <1>1, <1>2
<1>5. Ends(g, m) = {Last(k, y)} \/ Wild \in Reach(g, m)
  BY <1>3, <1>4, ChainEnds, TaskNumbers
<1> QED
  BY <1>2, <1>5

\* add_task changes the next field of the last task, if there is a list.
LEMMA AddEnd ==
    ASSUME NEW h \in Tasks \cup {NULL, Wild}, NEW n \in [Tasks -> Tasks \cup {NULL, Wild}],
           NEW a \in Nat, NEW k \in Nat, k < MaxTasks, NEW z, Chain(h, n, a, k, z),
           Wild \notin Reach(h, n), NEW x \in Tasks, NEW r, r = add_task(h, n, x)
    PROVE  /\ r.head \in Tasks \cup {Wild} /\ r.nxt \in [Tasks -> Tasks \cup {NULL, Wild}]
           /\ h = NULL => r.head = x /\ r.nxt = n
           /\ h # NULL => /\ r.head = h /\ Last(k, z) \in Tasks /\ n[Last(k, z)] = NULL
                          /\ \A t \in Tasks : r.nxt[t] = IF t = Last(k, z) THEN x ELSE n[t]
<1> USE TaskNumbers
<1>1. CASE h = NULL
  BY <1>1 DEF add_task
<1>2. CASE h # NULL
  <2>1. Last(k, z) \in Tasks /\ n[Last(k, z)] = NULL /\ Ends(h, n) = {Last(k, z)}
    BY <1>2, ChainEnds
  <2>2. PICK e : e = CHOOSE y \in Ends(h, n) : TRUE
    OBVIOUS
  <2>3. e = Last(k, z)
    BY <2>1, <2>2
  <2>4. r = [head |-> h, nxt |-> [n EXCEPT ![e] = x]]
    BY <1>2, <2>2, Zenon DEF add_task
  <2> QED
    BY <1>2, <2>1, <2>3, <2>4
<1> QED
  BY <1>1, <1>2

\* add_task puts the first task, which was in front and was taken away, behind
\* the last child.
LEMMA AddChain ==
    ASSUME NEW h \in Tasks \cup {NULL, Wild}, NEW n \in [Tasks -> Tasks \cup {NULL, Wild}],
           NEW k \in Nat, k < MaxTasks, Chain(h, n, 1, k, Lost), Wild \notin Reach(h, n),
           NEW r, r = add_task(h, n, Init0)
    PROVE  /\ r.head \in Tasks /\ r.nxt \in [Tasks -> Tasks \cup {NULL, Wild}]
           /\ \A t \in Tasks : t # k \/ k = 0 => r.nxt[t] = n[t]
           /\ Chain(r.head, r.nxt, 1, k, k)
<1> USE TaskNumbers DEF NULL, Wild, Init0, Lost, IsEnd
<1>0. /\ r.nxt \in [Tasks -> Tasks \cup {NULL, Wild}]
      /\ h = NULL => r.head = Init0 /\ r.nxt = n
      /\ h # NULL => /\ r.head = h /\ n[Last(k, Lost)] = NULL
                     /\ \A t \in Tasks : r.nxt[t] = IF t = Last(k, Lost) THEN Init0 ELSE n[t]
  BY AddEnd
<1>1. CASE h = NULL
  <2>2. k = 0 /\ n[0] = NULL
    BY <1>1 DEF Chain
  <2> QED
    BY <1>0, <1>1, <2>2 DEF Chain
<1>2. CASE h # NULL
  <2>1. 1 <= k /\ Last(k, Lost) = k
    BY <1>2, ChainEnds DEF Last
  <2>2. h = 1 /\ 1 \in Tasks
    BY <2>1 DEF Chain
  <2>3. \A t \in 1 .. k : t \in Tasks /\ r.nxt[t] = IF t = k THEN 0 ELSE t + 1
    BY <1>0, <1>2, <2>1 DEF Chain
  <2>4. r.nxt[0] = NULL
    BY <1>0, <1>2, <2>1 DEF Chain
  <2>5. Chain(r.head, r.nxt, 1, k, k)
    BY <1>0, <1>2, <2>1, <2>2, <2>3, <2>4 DEF Chain
  <2>6. \A t \in Tasks : t # k \/ k = 0 => r.nxt[t] = n[t]
    BY <1>0, <1>2, <2>1
  <2> QED
    BY <1>0, <1>2, <2>2, <2>5, <2>6
<1> QED
  BY <1>1, <1>2

-----------------------------------------------------------------------------
(* The steps of kmain.                                                     *)

LEMMA InitIInv == Init => IInv
<1> SUFFICES ASSUME Init PROVE IInv
  OBVIOUS
<1> USE TaskNumbers DEF Init, NULL, Wild, Init0, Fresh, Kernel
<1>1. TypeOK
  <2>1. nxt \in [Tasks -> Tasks \cup {NULL, Wild}] /\ ctx \in [Tasks -> Tasks \cup {Fresh}]
    OBVIOUS
  <2>2. next_tid \in 0 .. MaxTasks /\ ticks \in 0 .. Freq - 1
    OBVIOUS
  <2> QED
    BY <2>1, <2>2 DEF TypeOK
<1>2. NoTaskLost /\ ForkOrder
  BY DEF NoTaskLost, ForkOrder, Added
<1> QED
  BY <1>1, <1>2 DEF IInv

\* What the invariant says while the list is in use.
LEMMA Ready ==
    ASSUME IInv, Interruptible, pc \notin {"boot", "starting"}
    PROVE  /\ TypeOK /\ FirstRuns
           /\ \E k \in Nat, z \in Int :
                 /\ k < MaxTasks
                 /\ Chain(head, nxt, 1, k, z)
                 /\ z = Lost => k >= 1
                 /\ AddingAt(k, z)
  BY TaskNumbers DEF IInv, ReadyList, Lost

\* A step that leaves such a list keeps the invariant.
LEMMA ReadyNext ==
    ASSUME TypeOK', FirstRuns', pc' \notin {"boot", "starting"},
           NEW k \in Nat, k < MaxTasks, NEW z,
           Chain(head', nxt', 1, k, z), z = Lost => k >= 1, AddingAt(k, z)'
    PROVE  IInv'
<1>1. ReadyList'
  BY TaskNumbers DEF ReadyList, Chain, Lost
<1>2. /\ head' \in Tasks \cup {NULL, Wild} /\ nxt' \in [Tasks -> Tasks \cup {NULL, Wild}]
  BY DEF TypeOK
<1>3. 1 .. k \subseteq Reach(head', nxt')
  BY <1>2, ChainReach
<1>4. Added' \subseteq 1 .. k
  BY DEF Added, AddingAt
<1>5. NoTaskLost'
  BY <1>3, <1>4 DEF NoTaskLost
<1>6. ForkOrder'
  <2>1. \A t, u \in 1 .. k : t < u => u \in Reach(nxt'[t], nxt')
    BY ChainOrder
  <2> QED
    BY <1>4, <2>1 DEF ForkOrder
<1> QED
  BY <1>1, <1>5, <1>6 DEF IInv

\* So does one that stops the machine.
LEMMA StopNext ==
    ASSUME TypeOK', stopped', pc' # "boot", pc' = "starting" => next_tid' = 1
    PROVE  IInv'
  BY DEF IInv, Interruptible, NoTaskLost, ForkOrder

LEMMA TaskingInitIInv == IInv /\ TaskingInit => IInv'
<1> SUFFICES ASSUME IInv, TaskingInit PROVE IInv'
  OBVIOUS
<1> USE TaskNumbers DEF NULL, Wild, Init0, Fresh, Kernel
<1>1. /\ pc = "boot" /\ pc' = "starting" /\ next_tid = 0 /\ next_tid' = 1 /\ head = NULL
      /\ current' = 0 /\ dir' = 0 /\ TypeOK /\ \A t \in Tasks : ctx[t] = Fresh
      /\ UNCHANGED <<head, ctx, ticks, tmp, irqOff, stopped>>
  BY DEF TaskingInit, create_task, IInv
<1>2. PICK f \in {NULL, Wild} : nxt' = [nxt EXCEPT ![0] = f]
  BY <1>1, SchedAssumption DEF TaskingInit, create_task
<1>3. TypeOK' /\ IsEnd(nxt'[0])
  BY <1>1, <1>2 DEF TypeOK, IsEnd
<1>4. NoTaskLost' /\ ForkOrder' /\ FirstRuns'
  BY <1>1 DEF NoTaskLost, ForkOrder, Added, FirstRuns
<1> QED
  BY <1>1, <1>3, <1>4 DEF IInv

LEMMA TaskingInitAddIInv == IInv /\ TaskingInitAdd => IInv'
<1> SUFFICES ASSUME IInv, TaskingInitAdd PROVE IInv'
  OBVIOUS
<1> USE TaskNumbers DEF NULL, Wild, Init0
<1>1. /\ pc = "starting" /\ pc' = "run" /\ next_tid = 1 /\ TypeOK /\ FirstRuns
      /\ head = NULL /\ IsEnd(nxt[0])
      /\ UNCHANGED <<current, dir, ctx, next_tid, ticks, tmp, irqOff, stopped>>
  BY DEF TaskingInitAdd, IInv, InKmain, Interruptible
<1>2. head' = 0 /\ nxt' = nxt
  BY <1>1 DEF TaskingInitAdd, add_task
<1>3. TypeOK'
  BY <1>1, <1>2 DEF TypeOK
<1>4. Chain(head', nxt', 1, 0, 0)
  BY <1>1, <1>2 DEF Chain, Lost
<1>5. AddingAt(0, 0)'
  BY <1>1 DEF AddingAt
<1>6. FirstRuns'
  BY <1>1 DEF FirstRuns
<1> QED
  BY <1>1, <1>3, <1>4, <1>5, <1>6, ReadyNext DEF Lost

\* The part of next that a list is made of.
LEMMA SameChain ==
    ASSUME NEW h, NEW n, NEW m, NEW k \in Nat, NEW z, Chain(h, n, 1, k, z),
           \A t \in Nat : t <= k => m[t] = n[t]
    PROVE  Chain(h, m, 1, k, z)
  BY DEF Chain, Init0

LEMMA ForkIInv == IInv /\ Fork => IInv'
<1> SUFFICES ASSUME IInv, Fork PROVE IInv'
  OBVIOUS
<1> USE TaskNumbers DEF NULL, Wild, Init0
<1>1. PICK k \in Nat, z \in Int :
        k < MaxTasks /\ Chain(head, nxt, 1, k, z) /\ (z = Lost => k >= 1) /\ AddingAt(k, z)
  BY Ready DEF Fork, InKmain, Interruptible
<1>2. TypeOK /\ FirstRuns
  BY Ready DEF Fork, InKmain, Interruptible
<1>3. /\ pc = "run" /\ pc' = "add" /\ next_tid = k + 1 /\ next_tid' = k + 2 /\ k + 1 \in Tasks
      /\ ctx' = [ctx EXCEPT ![k + 1] = Fresh]
      /\ UNCHANGED <<head, current, dir, ticks, tmp, irqOff, stopped>>
  BY <1>1 DEF Fork, create_task, AddingAt
<1>4. PICK f \in {NULL, Wild} : nxt' = [nxt EXCEPT ![k + 1] = f]
  BY <1>3, SchedAssumption DEF Fork, create_task
<1>5. nxt' \in [Tasks -> Tasks \cup {NULL, Wild}] /\ nxt'[k + 1] = f /\ \A t \in Nat : t <= k => nxt'[t] = nxt[t]
  BY <1>2, <1>3, <1>4 DEF TypeOK
<1>6. TypeOK'
  BY <1>2, <1>3, <1>5 DEF TypeOK
<1>7. FirstRuns'
  BY <1>2, <1>3 DEF FirstRuns, TypeOK
<1>8. Chain(head', nxt', 1, k, z)
  BY <1>1, <1>3, <1>5, SameChain
<1>9. AddingAt(k, z)'
  BY <1>3, <1>5 DEF AddingAt, IsEnd
<1> QED
  BY <1>1, <1>3, <1>6, <1>7, <1>8, <1>9, ReadyNext

LEMMA ForkAddStartIInv == IInv /\ ForkAddStart => IInv'
<1> SUFFICES ASSUME IInv, ForkAddStart PROVE IInv'
  OBVIOUS
<1> USE TaskNumbers DEF NULL, Wild, Init0
<1>1. PICK k \in Nat, z \in Int :
        k < MaxTasks /\ Chain(head, nxt, 1, k, z) /\ (z = Lost => k >= 1) /\ AddingAt(k, z)
  BY Ready DEF ForkAddStart, InKmain, Interruptible
<1>2. TypeOK /\ FirstRuns
  BY Ready DEF ForkAddStart, InKmain, Interruptible
<1>3. /\ pc = "add" /\ pc' = "test" /\ tmp' = head
      /\ UNCHANGED <<head, nxt, current, dir, ctx, next_tid, ticks, irqOff, stopped>>
  BY DEF ForkAddStart, list
<1>4. head \in 1 .. k \/ (head = 0 /\ z # Lost)
  BY <1>1 DEF Chain, Lost
<1>5. TypeOK'
  BY <1>1, <1>2, <1>3, <1>4 DEF TypeOK
<1>6. FirstRuns' /\ AddingAt(k, z)' /\ Chain(head', nxt', 1, k, z)
  BY <1>1, <1>2, <1>3, <1>4 DEF FirstRuns, AddingAt
<1> QED
  BY <1>1, <1>3, <1>5, <1>6, ReadyNext

LEMMA ForkAddTestIInv == IInv /\ ForkAddTest => IInv'
<1> SUFFICES ASSUME IInv, ForkAddTest PROVE IInv'
  OBVIOUS
<1> USE TaskNumbers DEF NULL, Wild, Init0
<1>1. PICK k \in Nat, z \in Int :
        k < MaxTasks /\ Chain(head, nxt, 1, k, z) /\ (z = Lost => k >= 1) /\ AddingAt(k, z)
  BY Ready DEF ForkAddTest, InKmain, Interruptible
<1>2. TypeOK /\ FirstRuns
  BY Ready DEF ForkAddTest, InKmain, Interruptible
<1>3. /\ pc = "test" /\ tmp \in Tasks
      /\ UNCHANGED <<head, nxt, current, dir, ctx, next_tid, ticks, tmp, irqOff, stopped>>
      /\ \/ nxt[tmp] = NULL /\ pc' = "link"
         \/ nxt[tmp] # NULL /\ pc' = "step"
  BY DEF ForkAddTest, list
<1>4. tmp \in 1 .. k \/ (tmp = 0 /\ z # Lost)
  BY <1>1, <1>3 DEF AddingAt, IsEnd
<1>5. IsEnd(nxt[k + 1]) /\ next_tid = k + 2
  BY <1>1, <1>3 DEF AddingAt
<1>6. TypeOK' /\ FirstRuns' /\ Chain(head', nxt', 1, k, z)
  BY <1>1, <1>2, <1>3 DEF TypeOK, FirstRuns
<1>7. CASE nxt[tmp] = NULL
  <2>1. \/ z = k /\ tmp = 0
        \/ z # k /\ tmp = k
    BY <1>1, <1>4, <1>7 DEF Chain, Lost
  <2>2. AddingAt(k, z)'
    BY <1>3, <1>5, <1>7, <2>1 DEF AddingAt
  <2> QED
    BY <1>1, <1>3, <1>6, <1>7, <2>2, ReadyNext
<1>8. CASE nxt[tmp] # NULL
  <2>1. AddingAt(k, z)'
    BY <1>3, <1>4, <1>5, <1>8 DEF AddingAt
  <2> QED
    BY <1>1, <1>3, <1>6, <1>8, <2>1, ReadyNext
<1> QED
  BY <1>7, <1>8

\* Whatever the timer did between the two reads, the second one leads to a task
\* on the list or to an end.
LEMMA ForkAddStepIInv == IInv /\ ForkAddStep => IInv'
<1> SUFFICES ASSUME IInv, ForkAddStep PROVE IInv'
  OBVIOUS
<1> USE TaskNumbers DEF NULL, Wild, Init0
<1>1. PICK k \in Nat, z \in Int :
        k < MaxTasks /\ Chain(head, nxt, 1, k, z) /\ (z = Lost => k >= 1) /\ AddingAt(k, z)
  BY Ready DEF ForkAddStep, InKmain, Interruptible
<1>2. TypeOK /\ FirstRuns
  BY Ready DEF ForkAddStep, InKmain, Interruptible
<1>3. /\ pc = "step" /\ pc' = "test" /\ tmp' = nxt[tmp]
      /\ UNCHANGED <<head, nxt, current, dir, ctx, next_tid, ticks, irqOff, stopped>>
  BY DEF ForkAddStep, list
<1>4. tmp \in 1 .. k \/ (tmp = 0 /\ z # Lost)
  BY <1>1, <1>3 DEF AddingAt
<1>5. IsEnd(nxt[k + 1]) /\ next_tid = k + 2
  BY <1>1, <1>3 DEF AddingAt
<1>6. nxt[tmp] \in 1 .. k \/ (nxt[tmp] = 0 /\ z # Lost) \/ IsEnd(nxt[tmp])
  BY <1>1, <1>4 DEF Chain, Lost
<1>7. TypeOK'
  BY <1>1, <1>2, <1>3, <1>6 DEF TypeOK, IsEnd
<1>8. FirstRuns' /\ AddingAt(k, z)' /\ Chain(head', nxt', 1, k, z)
  BY <1>1, <1>2, <1>3, <1>5, <1>6 DEF FirstRuns, AddingAt
<1> QED
  BY <1>1, <1>3, <1>7, <1>8, ReadyNext

LEMMA ForkAddFaultsIInv == IInv /\ ForkAddFaults => IInv'
<1> SUFFICES ASSUME IInv, ForkAddFaults PROVE IInv'
  OBVIOUS
<1>1. /\ TypeOK /\ pc = "test" /\ stopped' = TRUE
      /\ UNCHANGED <<head, nxt, current, dir, ctx, next_tid, ticks, pc, tmp, irqOff>>
  BY DEF IInv, ForkAddFaults, list
<1>2. TypeOK'
  BY <1>1 DEF TypeOK
<1> QED
  BY <1>1, <1>2, StopNext

\* The new child becomes the last one.  If the timer came after the end was
\* found, the first task drops out of the list.
LEMMA ForkAddLinkIInv == IInv /\ ForkAddLink => IInv'
<1> SUFFICES ASSUME IInv, ForkAddLink PROVE IInv'
  OBVIOUS
<1> USE TaskNumbers DEF NULL, Wild, Init0
<1>1. PICK k \in Nat, z \in Int :
        k < MaxTasks /\ Chain(head, nxt, 1, k, z) /\ (z = Lost => k >= 1) /\ AddingAt(k, z)
  BY Ready DEF ForkAddLink, InKmain, Interruptible
<1>2. TypeOK /\ FirstRuns
  BY Ready DEF ForkAddLink, InKmain, Interruptible
<1>3. /\ pc = "link" /\ pc' = "run" /\ nxt' = [nxt EXCEPT ![tmp] = next_tid - 1]
      /\ UNCHANGED <<head, current, dir, ctx, next_tid, ticks, tmp, irqOff, stopped>>
  BY DEF ForkAddLink
<1>4. /\ next_tid = k + 2 /\ IsEnd(nxt[k + 1]) /\ k + 1 < MaxTasks
      /\ nxt \in [Tasks -> Tasks \cup {NULL, Wild}]
      /\ \/ z = k /\ tmp = 0 /\ nxt[0] = NULL
         \/ z # k /\ tmp = k /\ nxt[k] = NULL
         \/ z = k /\ tmp = k /\ k >= 1 /\ nxt[0] = NULL
  BY <1>1, <1>2, <1>3 DEF AddingAt, TypeOK
<1>5. \A t \in Nat : t <= k + 1 => nxt'[t] = IF t = tmp THEN k + 1 ELSE nxt[t]
  BY <1>3, <1>4
<1>6. TypeOK'
  BY <1>2, <1>3, <1>4 DEF TypeOK
<1>7. FirstRuns'
  BY <1>2, <1>3 DEF FirstRuns
<1>8. ASSUME NEW y, Chain(head, nxt', 1, k + 1, y) PROVE IInv'
  <2>1. AddingAt(k + 1, y)'
    BY <1>3, <1>4 DEF AddingAt
  <2>2. k + 1 >= 1 /\ k + 1 \in Nat /\ Chain(head', nxt', 1, k + 1, y)
    BY <1>3, <1>8
  <2> QED
    BY <1>3, <1>4, <1>6, <1>7, <2>1, <2>2, ReadyNext
<1>9. CASE z = k /\ tmp = 0 /\ nxt[0] = NULL
  <2>1. Chain(head, nxt', 1, k + 1, z)
    BY <1>1, <1>4, <1>5, <1>9 DEF Chain, Lost, IsEnd
  <2> QED
    BY <1>8, <2>1
<1>10. CASE z # k /\ tmp = k /\ nxt[k] = NULL
  <2>1. k >= 1
    BY <1>1, <1>10 DEF Chain
  <2>2. Chain(head, nxt', 1, k + 1, z)
    BY <1>1, <1>4, <1>5, <1>10, <2>1 DEF Chain, Lost, IsEnd
  <2> QED
    BY <1>8, <2>2
<1>11. CASE z = k /\ tmp = k /\ k >= 1 /\ nxt[0] = NULL
  <2>1. Chain(head, nxt', 1, k + 1, Lost)
    BY <1>1, <1>4, <1>5, <1>11 DEF Chain, Lost, IsEnd
  <2> QED
    BY <1>8, <2>1
<1> QED
  BY <1>4, <1>9, <1>10, <1>11

-----------------------------------------------------------------------------
(* The steps of the timer.                                                 *)

LEMMA CountedType ==
    ASSUME NEW n \in 0 .. Freq - 1
    PROVE  Counted(n) \in 0 .. Freq - 1
<1> USE TaskNumbers
<1>1. CASE n + 1 = Freq
  <2>1. Freq % Freq = 0
    OBVIOUS
  <2> QED
    BY <1>1, <2>1 DEF Counted
<1>2. CASE n + 1 # Freq
  BY <1>2 DEF Counted
<1> QED
  BY <1>1, <1>2

LEMMA TickIInv == IInv /\ Tick => IInv'
<1> SUFFICES ASSUME IInv, Tick PROVE IInv'
  OBVIOUS
<1>1. /\ TypeOK /\ ticks' = Counted(ticks)
      /\ UNCHANGED <<head, nxt, current, dir, ctx, next_tid, pc, tmp, irqOff, stopped>>
  BY DEF IInv, Tick, list
<1>2. TypeOK'
  BY <1>1, CountedType DEF TypeOK
<1> QED
  BY <1>1, <1>2 DEF IInv, Interruptible, FirstRuns, ReadyList, AddingAt, NoTaskLost, ForkOrder, Added

\* The head of the list when schedule is called.
LEMMA ScheduleHead ==
    ASSUME IInv, Interruptible, current # NULL, head # NULL
    PROVE  pc \notin {"boot", "starting"}
  BY DEF IInv, NULL

\* schedule comes back to the only context that was ever saved: the head is
\* the first task, and it goes behind the last child.
LEMMA ScheduleSavedIInv == IInv /\ ScheduleSaved => IInv'
<1> SUFFICES ASSUME IInv, ScheduleSaved PROVE IInv'
  OBVIOUS
<1> USE TaskNumbers DEF NULL, Wild, Init0
<1>0. Interruptible /\ pc \notin {"boot", "starting"}
  BY ScheduleHead DEF ScheduleSaved
<1>1. PICK k \in Nat, z \in Int :
        k < MaxTasks /\ Chain(head, nxt, 1, k, z) /\ (z = Lost => k >= 1) /\ AddingAt(k, z)
  BY <1>0, Ready
<1>2. TypeOK /\ FirstRuns
  BY <1>0, Ready
<1>3. /\ head \in Tasks \cup {NULL, Wild} /\ nxt \in [Tasks -> Tasks \cup {NULL, Wild}]
      /\ ctx \in [Tasks -> Tasks \cup {Fresh}] /\ ticks \in 0 .. Freq - 1
      /\ current = 0 /\ \A t \in Tasks : t # 0 => ctx[t] = Fresh
  BY <1>2 DEF TypeOK, FirstRuns
<1>4. PICK p : p = pop_task(head, nxt)
  OBVIOUS
<1>5. /\ head \in Tasks
      /\ p.head \in Tasks \cup {NULL, Wild} /\ p.nxt \in [Tasks -> Tasks \cup {NULL, Wild}]
      /\ \A t \in Tasks : t # head => p.nxt[t] = nxt[t]
      /\ z = 0 => head = Init0 /\ Chain(p.head, p.nxt, 1, k, Lost)
      /\ z # 0 => head = 1 /\ k >= 1 /\ Chain(p.head, p.nxt, 2, k, z)
  BY <1>1, <1>3, <1>4, PopChain
<1>6. PICK c : c = [ctx EXCEPT ![0] = head]
  OBVIOUS
<1>7. /\ c[head] # Fresh /\ ctx' = c /\ dir' = c[head] /\ current' = head
      /\ ticks' = Counted(ticks)
      /\ UNCHANGED <<next_tid, pc, tmp, irqOff, stopped>>
  BY <1>3, <1>6 DEF ScheduleSaved
<1>8. head = 0 /\ c[0] = 0 /\ c \in [Tasks -> Tasks \cup {Fresh}] /\ z = 0 /\ \A t \in Tasks : t # 0 => c[t] = Fresh
  BY <1>3, <1>5, <1>6, <1>7
<1>9. PICK r : r = add_task(p.head, p.nxt, Init0)
  OBVIOUS
<1>10. head' = r.head /\ nxt' = r.nxt /\ Wild \notin Reach(p.head, p.nxt)
  BY <1>3, <1>4, <1>9 DEF ScheduleSaved, Rotated, RotateWild
<1>11. /\ r.head \in Tasks /\ r.nxt \in [Tasks -> Tasks \cup {NULL, Wild}]
       /\ \A t \in Tasks : t # k \/ k = 0 => r.nxt[t] = p.nxt[t]
       /\ Chain(r.head, r.nxt, 1, k, k)
  BY <1>1, <1>5, <1>8, <1>9, <1>10, AddChain
<1>12. p.nxt[0] = NULL
  BY <1>5, <1>8 DEF Chain, Lost
<1>13. TypeOK'
  BY <1>2, <1>3, <1>7, <1>8, <1>10, <1>11, CountedType DEF TypeOK
<1>14. FirstRuns'
  BY <1>7, <1>8 DEF FirstRuns
<1>15. AddingAt(k, k)'
  <2>1. next_tid = (IF pc = "run" THEN k + 1 ELSE k + 2) /\ (pc # "run" => k + 1 \in Tasks)
    BY <1>1, <1>2 DEF AddingAt, TypeOK
  <2>2. pc # "run" => IsEnd(nxt'[k + 1])
    BY <1>1, <1>5, <1>8, <1>10, <1>11, <2>1 DEF AddingAt
  <2>3. /\ pc = "test" => tmp \in 1 .. k \/ tmp = 0 \/ IsEnd(tmp)
        /\ pc = "step" => tmp \in 1 .. k \/ tmp = 0
    BY <1>1 DEF AddingAt
  <2>4. nxt'[0] = NULL
    BY <1>10, <1>11, <1>12
  <2>5. pc = "link" => (tmp = 0 /\ k = 0) \/ (tmp = k /\ k >= 1)
    BY <1>1, <1>8 DEF AddingAt
  <2> QED
    BY <1>7, <2>1, <2>2, <2>3, <2>4, <2>5 DEF AddingAt, Lost
<1>16. /\ k < MaxTasks /\ (k = Lost => k >= 1) /\ pc' \notin {"boot", "starting"}
       /\ Chain(head', nxt', 1, k, k)
  BY <1>0, <1>1, <1>7, <1>10, <1>11 DEF Lost
<1> QED
  BY <1>13, <1>14, <1>15, <1>16, ReadyNext

\* schedule switches to child 1.  The others are still in the list, even if it
\* is a circle now, and interrupts stay off.
LEMMA ScheduleFreshIInv == IInv /\ ScheduleFresh => IInv'
<1> SUFFICES ASSUME IInv, ScheduleFresh PROVE IInv'
  OBVIOUS
<1> USE TaskNumbers DEF NULL, Wild, Init0
<1>0. Interruptible /\ pc \notin {"boot", "starting"}
  BY ScheduleHead DEF ScheduleFresh
<1>1. PICK k \in Nat, z \in Int :
        k < MaxTasks /\ Chain(head, nxt, 1, k, z) /\ (z = Lost => k >= 1) /\ AddingAt(k, z)
  BY <1>0, Ready
<1>2. TypeOK /\ FirstRuns
  BY <1>0, Ready
<1>3. /\ head \in Tasks \cup {NULL, Wild} /\ nxt \in [Tasks -> Tasks \cup {NULL, Wild}]
      /\ ctx \in [Tasks -> Tasks \cup {Fresh}] /\ ticks \in 0 .. Freq - 1 /\ current = 0
  BY <1>2 DEF TypeOK, FirstRuns
<1>4. PICK p : p = pop_task(head, nxt)
  OBVIOUS
<1>5. /\ head \in Tasks
      /\ p.head \in Tasks \cup {NULL, Wild} /\ p.nxt \in [Tasks -> Tasks \cup {NULL, Wild}]
      /\ z = 0 => head = Init0
      /\ z # 0 => head = 1 /\ k >= 1 /\ Chain(p.head, p.nxt, 2, k, z)
  BY <1>1, <1>3, <1>4, PopChain
<1>6. PICK c : c = [ctx EXCEPT ![0] = head]
  OBVIOUS
<1>7. /\ c[head] = Fresh /\ ctx' = c /\ current' = head
      /\ ticks' = Counted(ticks) /\ irqOff' = TRUE /\ stopped' \in BOOLEAN
      /\ UNCHANGED <<dir, next_tid, pc, tmp>>
  BY <1>3, <1>6 DEF ScheduleFresh
<1>8. head = 1 /\ k >= 1 /\ c \in [Tasks -> Tasks \cup {Fresh}] /\ Chain(p.head, p.nxt, 2, k, z)
  BY <1>3, <1>5, <1>6, <1>7 DEF Fresh
<1>9. PICK r : r = add_task(p.head, p.nxt, Init0)
  OBVIOUS
<1>10. head' = r.head /\ nxt' = r.nxt /\ Wild \notin Reach(p.head, p.nxt)
  BY <1>3, <1>4, <1>9 DEF ScheduleFresh, Rotated, RotateWild
<1>11. /\ r.head \in Tasks \cup {Wild} /\ r.nxt \in [Tasks -> Tasks \cup {NULL, Wild}]
       /\ p.head = NULL => r.head = Init0 /\ r.nxt = p.nxt
       /\ p.head # NULL => /\ r.head = p.head
                           /\ \A t \in Tasks : r.nxt[t] = IF t = Last(k, z) THEN Init0 ELSE p.nxt[t]
  <2>1. PICK a \in Nat : Chain(p.head, p.nxt, a, k, z)
    BY <1>8
  <2>2. k < MaxTasks /\ Init0 \in Tasks
    BY <1>1
  <2> HIDE DEF NULL, Wild, Init0
  <2>3. PICK h \in Tasks \cup {NULL, Wild}, n \in [Tasks -> Tasks \cup {NULL, Wild}] :
          h = p.head /\ n = p.nxt
    BY <1>5
  <2>4. PICK x \in Tasks : x = Init0
    BY <2>2
  <2>5. Chain(h, n, a, k, z) /\ Wild \notin Reach(h, n) /\ r = add_task(h, n, x)
    BY <1>9, <1>10, <2>1, <2>3, <2>4
  <2>6. /\ r.head \in Tasks \cup {Wild} /\ r.nxt \in [Tasks -> Tasks \cup {NULL, Wild}]
        /\ h = NULL => r.head = x /\ r.nxt = n
        /\ h # NULL => /\ r.head = h
                       /\ \A t \in Tasks : r.nxt[t] = IF t = Last(k, z) THEN x ELSE n[t]
    BY <2>2, <2>5, AddEnd
  <2> QED
    BY ONLY <2>3, <2>4, <2>6
<1>12. TypeOK'
  BY <1>2, <1>3, <1>5, <1>7, <1>8, <1>10, <1>11, CountedType DEF TypeOK
<1>13. \A t \in Nat : 2 <= t /\ t < k => r.nxt[t] = t + 1 \/ (r.nxt[t] = 0 /\ r.nxt[0] = t + 1)
  <2> SUFFICES ASSUME NEW t \in Nat, 2 <= t, t < k
               PROVE  r.nxt[t] = t + 1 \/ (r.nxt[t] = 0 /\ r.nxt[0] = t + 1)
    OBVIOUS
  <2>1. k >= 2 /\ p.head # NULL
    BY <1>8 DEF Chain
  <2>2. \A x \in Tasks : x # Last(k, z) => r.nxt[x] = p.nxt[x]
    BY <1>11, <2>1
  <2>3. t \in Tasks /\ t \in 2 .. k /\ t # Last(k, z) /\ r.nxt[t] = p.nxt[t]
    BY <1>1, <2>1, <2>2 DEF Last
  <2>4. CASE t # z
    BY <1>8, <2>3, <2>4 DEF Chain
  <2>5. CASE t = z
    <3>1. p.nxt[t] = 0 /\ p.nxt[0] = t + 1
      BY <1>8, <2>3, <2>5 DEF Chain, Lost
    <3>2. Last(k, z) = k /\ k # 0
      BY <2>1, <2>5 DEF Last
    <3> QED
      BY <2>2, <2>3, <3>1, <3>2
  <2> QED
    BY <2>4, <2>5
<1>14. 2 .. k \subseteq Reach(r.head, r.nxt)
  <2> SUFFICES ASSUME NEW j \in 2 .. k, NEW S \in SUBSET Met, Closed(S, r.head, r.nxt)
               PROVE  j \in S
    BY <1>1 DEF Reach
  <2>1. k >= 2 /\ k \in Tasks /\ j \in Nat /\ 2 <= j /\ j <= k
    BY <1>1
  <2>2. p.head # NULL
    BY <1>8, <2>1 DEF Chain
  <2>3. \A t \in Tasks : t # Last(k, z) => r.nxt[t] = p.nxt[t]
    BY <1>11, <2>2
  <2>4. r.head = 2 \/ (r.head = 0 /\ r.nxt[0] = 2)
    BY <1>8, <1>11, <2>1, <2>2, <2>3 DEF Chain, Last, Lost
  <2> QED
    BY <1>13, <2>1, <2>4, Covers
<1>15. \A t, u \in 2 .. k : t < u => u \in Reach(r.nxt[t], r.nxt)
  <2> SUFFICES ASSUME NEW t \in 2 .. k, NEW u \in 2 .. k, t < u,
                      NEW S \in SUBSET Met, Closed(S, r.nxt[t], r.nxt)
               PROVE  u \in S
    BY <1>1 DEF Reach
  <2>1. PICK b \in Nat : b = t + 1
    OBVIOUS
  <2>2. PICK g : g = r.nxt[t]
    OBVIOUS
  <2>3. /\ g = b \/ (g = 0 /\ r.nxt[0] = b)
        /\ \A j \in Nat : b <= j /\ j < k => r.nxt[j] = j + 1 \/ (r.nxt[j] = 0 /\ r.nxt[0] = j + 1)
        /\ Closed(S, g, r.nxt) /\ u \in Nat /\ b <= u /\ u <= k
    BY <1>13, <2>1, <2>2
  <2> QED
    BY <2>3, Covers
<1>16. NoTaskLost' /\ ForkOrder'
  <2>1. Added' \subseteq 1 .. k
    BY <1>1, <1>7 DEF Added, AddingAt
  <2>2. 1 .. k \subseteq {1} \cup 2 .. k
    BY <1>1
  <2>3. current' = 1 /\ Added' \subseteq {1} \cup 2 .. k
    BY <1>7, <1>8, <2>1, <2>2
  <2>4. NoTaskLost'
    BY <1>10, <1>14, <2>3 DEF NoTaskLost
  <2>5. ForkOrder'
    BY <1>10, <1>15, <2>3 DEF ForkOrder
  <2> QED
    BY <2>4, <2>5
<1> QED
  BY <1>0, <1>7, <1>12, <1>16 DEF IInv, Interruptible

LEMMA ScheduleNullIInv == IInv /\ ScheduleNull => IInv'
<1> SUFFICES ASSUME IInv, ScheduleNull PROVE IInv'
  OBVIOUS
<1> USE TaskNumbers
<1>1. /\ TypeOK /\ current # NULL /\ head = NULL /\ ticks' = Counted(ticks) /\ current' = NULL
      /\ irqOff' = TRUE /\ stopped' = TRUE /\ UNCHANGED <<dir, ctx, next_tid, pc, tmp>>
      /\ pc # "boot" /\ (pc = "starting" => next_tid = 1)
      /\ head' = Rotated.head /\ nxt' = Rotated.nxt
  BY DEF IInv, ScheduleNull
<1>2. head' = current /\ nxt' = nxt
  BY <1>1 DEF Rotated, pop_task, add_task
<1>3. TypeOK'
  BY <1>1, <1>2, CountedType DEF TypeOK
<1> QED
  BY <1>1, <1>3, StopNext

LEMMA ScheduleWildIInv == IInv /\ ScheduleWild => IInv'
<1> SUFFICES ASSUME IInv, ScheduleWild PROVE IInv'
  OBVIOUS
<1> USE TaskNumbers
<1>1. /\ TypeOK /\ Interruptible /\ current # NULL /\ ticks' = Counted(ticks)
      /\ irqOff' = TRUE /\ stopped' = TRUE /\ UNCHANGED <<current, dir, ctx, next_tid, pc, tmp>>
      /\ pc # "boot" /\ (pc = "starting" => next_tid = 1)
  BY DEF IInv, ScheduleWild
<1>2. PICK p : p = pop_task(head, nxt)
  OBVIOUS
<1>3. head' = p.head /\ nxt' = p.nxt
  BY <1>2 DEF ScheduleWild
<1>4. p.head \in Tasks \cup {NULL, Wild} /\ p.nxt \in [Tasks -> Tasks \cup {NULL, Wild}]
  <2>1. CASE head = NULL
    BY <1>1, <1>2, <2>1 DEF pop_task, TypeOK
  <2>2. CASE head # NULL
    <3>1. pc \notin {"boot", "starting"}
      BY <1>1, <2>2, ScheduleHead
    <3>2. PICK k \in Nat, z \in Int :
            k < MaxTasks /\ Chain(head, nxt, 1, k, z) /\ (z = Lost => k >= 1)
      BY <1>1, <3>1, Ready
    <3>3. head \in Tasks \cup {NULL, Wild} /\ nxt \in [Tasks -> Tasks \cup {NULL, Wild}]
      BY <1>1 DEF TypeOK
    <3> QED
      BY <1>2, <3>2, <3>3, PopChain
  <2> QED
    BY <2>1, <2>2
<1>5. TypeOK'
  BY <1>1, <1>3, <1>4, CountedType DEF TypeOK
<1> QED
  BY <1>1, <1>5, StopNext

-----------------------------------------------------------------------------
(* The theorems.                                                           *)

LEMMA NextIInv == IInv /\ [Next]_vars => IInv'
<1> SUFFICES ASSUME IInv, [Next]_vars PROVE IInv'
  OBVIOUS
<1>1. CASE TaskingInit \/ TaskingInitAdd
  BY <1>1, TaskingInitIInv, TaskingInitAddIInv
<1>2. CASE Fork \/ ForkAdd
  BY <1>2, ForkIInv, ForkAddStartIInv, ForkAddTestIInv, ForkAddStepIInv, ForkAddFaultsIInv,
     ForkAddLinkIInv DEF ForkAdd
<1>3. CASE Timer
  BY <1>3, TickIInv, ScheduleSavedIInv, ScheduleFreshIInv, ScheduleNullIInv, ScheduleWildIInv DEF Timer
<1>4. CASE UNCHANGED vars
  <2>1. UNCHANGED <<head, nxt, current, dir, ctx, next_tid, ticks, pc, tmp, irqOff, stopped>>
    BY <1>4 DEF vars
  <2> QED
    BY <2>1 DEF IInv, TypeOK, Interruptible, FirstRuns, ReadyList, AddingAt, NoTaskLost,
                ForkOrder, Added
<1> QED
  BY <1>1, <1>2, <1>3, <1>4 DEF Next

\* While interrupts are on, the tasks are one chain in the order of their numbers
\* with the first task anywhere in it, and the pointer of fork's add_task is on the
\* chain or about to fault.
THEOREM Inductive == Spec => []IInv
  BY InitIInv, NextIInv, PTL DEF Spec

\* No pointer, counter or context of the scheduler leaves its type: a wild
\* next pointer never becomes the current task.
THEOREM TypeCorrect == Spec => []TypeOK
<1>1. IInv => TypeOK
  BY DEF IInv
<1> QED
  BY <1>1, Inductive, PTL

\* schedule rotates the ready list between any two accesses of fork's add_task to
\* it, also between the two reads of tmp->next in its loop, and every task whose
\* add_task came to its end is in the list or runs, unless the machine stopped.
THEOREM NoTaskIsLost == Spec => []NoTaskLost
<1>1. IInv => NoTaskLost
  BY DEF IInv
<1> QED
  BY <1>1, Inductive, PTL

\* However often pop_task and add_task rotated the list while fork added to it,
\* from each child that is not running the children forked later are met.
THEOREM OrderKept == Spec => []ForkOrder
<1>1. IInv => ForkOrder
  BY DEF IInv
<1> QED
  BY <1>1, Inductive, PTL

\* Each call of add_task, by fork and by the next timer interrupt, finds a list
\* that has a last task or leads out of the tasks: its loop does not run in a
\* circle.  The circle that schedule makes when it switches to a forked task is
\* not met by any call, since interrupts are off from there on.
THEOREM WalksEnd == Spec => []WalkEnds
<1>1. IInv => WalkEnds
  <2> SUFFICES ASSUME IInv, Interruptible,
                      NEW l \in {[head |-> head, nxt |-> nxt], pop_task(head, nxt)},
                      l.head # NULL
               PROVE  Ends(l.head, l.nxt) # {} \/ Wild \in Reach(l.head, l.nxt)
    BY DEF WalkEnds
  <2>1. CASE head = NULL
    BY <2>1 DEF pop_task
  <2>2. CASE head # NULL
    <3>1. pc \notin {"boot", "starting"}
      BY <2>2 DEF IInv
    <3>2. PICK k \in Nat, z \in Int :
            k < MaxTasks /\ Chain(head, nxt, 1, k, z) /\ (z = Lost => k >= 1)
      BY <3>1, Ready
    <3>3. head \in Tasks \cup {NULL, Wild} /\ nxt \in [Tasks -> Tasks \cup {NULL, Wild}]
      BY DEF IInv, TypeOK
    <3>4. CASE l = [head |-> head, nxt |-> nxt]
      <4>1. Ends(head, nxt) # {} \/ Wild \in Reach(head, nxt)
        BY <2>2, <3>2, <3>3, ChainEnds
      <4> QED
        BY <3>4, <4>1
    <3>5. CASE l = pop_task(head, nxt)
      BY <3>2, <3>3, <3>5, PopEnds
    <3> QED
      BY <3>4, <3>5
  <2> QED
    BY <2>1, <2>2
<1> QED
  BY <1>1, Inductive, PTL
=============================================================================
