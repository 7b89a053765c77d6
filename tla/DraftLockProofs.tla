-------------------------- MODULE DraftLockProofs --------------------------
(***************************************************************************)
(* Proofs about DraftLock: mutual exclusion, that the newest generation     *)
(* stays, that a refused call leaves no file, and that a quiet lock is      *)
(* free, for any number of calls, processes, tries and generations.         *)
(*                                                                         *)
(* The argument: a call that has passed its probe has read a generation     *)
(* that is over or has been succeeded (Linking), so it links above nobody   *)
(* who still holds; a call whose file is not the newest any more only ever  *)
(* withdraws; and files are removed only below a newer one (Below), so the  *)
(* newest generation never moves back.                                      *)
(***************************************************************************)
EXTENDS DraftLock, TLAPS

\* A generation newer than k is in the directory.
Below(k) == \E g \in Gen : g > k /\ Present(g)

\* A holder owns the newest generation.
Held == \A c \in Call : pc[c] \in Holding =>
  /\ current[c] + 1 \in Gen
  /\ owner[current[c] + 1] = c
  /\ ~Below(current[c] + 1)

Linked == \A c \in Call : pc[c] \in {"confirm", "withdraw"} =>
  /\ current[c] + 1 \in Gen
  /\ owner[current[c] + 1] = c \/ Below(current[c] + 1)
  /\ pc[c] = "withdraw" => Below(current[c] + 1)

Cleaning == \A c \in Call : pc[c] = "clean" => \A f \in old[c] : f[1] < current[c] + 1

Probing == \A c \in Call : pc[c] = "probe" =>
  /\ current[c] \in Gen
  /\ Present(current[c]) \/ Below(current[c])

\* What a call that may link knows of the generation it has read.
Linking == \A c \in Call : pc[c] = "link" =>
  \/ current[c] = 0
  \/ Below(current[c])
  \/ current[c] \in Gen /\ Present(current[c]) /\ pc[owner[current[c]]] \in Over

\* A file names a call that finished or crashed, or one that holds or still contends for the
\* generation it linked last; an end names a call that is over.
Named ==
  /\ \A g \in Gen : Present(g) =>
       \/ pc[owner[g]] \in Over \ {"refused"}
       \/ pc[owner[g]] \in Holding \cup {"confirm", "withdraw"} /\ current[owner[g]] + 1 = g
  /\ \A g \in Gen : done[g] # NONE => pc[done[g]] \in Over

\* Who the newest file can belong to.
Accounted == \A g \in Gen : Present(g) =>
  \/ Below(g)
  \/ pc[owner[g]] \in Holding \cup {"confirm", "crashed"}
  \/ pc[owner[g]] = "finished" /\ done[g] = owner[g]

Processes == \A c \in Call :
  /\ pc[c] \in Running => pid[c] \in alive
  /\ pc[c] = "crashed" => pid[c] \notin alive \/ pid[c] \in Reused

LockInv ==
  /\ TypeOK /\ Held /\ Linked /\ Cleaning /\ Probing /\ Linking
  /\ Named /\ Accounted /\ Processes

-----------------------------------------------------------------------------
(* The directory after a step *)

LEMMA GenIsNat == Gen \subseteq Nat /\ 0 \notin Gen
BY LockAssumption DEF Gen

\* Two facts of arithmetic the steps use.
LEMMA NoneBetween ==
  ASSUME NEW a \in Nat, NEW b \in Nat, NEW g \in Nat, g > a, ~(g > b + 1)
  PROVE  ~(a + 1 > b + 1)
OBVIOUS

LEMMA Compare ==
  ASSUME NEW a \in Gen, NEW b \in Gen, ~(a > b), ~(b > a)
  PROVE  a = b
BY LockAssumption DEF Gen

LEMMA SameDirectory ==
  ASSUME owner' = owner
  PROVE  /\ \A k \in Nat : Below(k)' <=> Below(k)
         /\ \A g \in Gen : Present(g)' <=> Present(g)
BY DEF Below, Present

\* Removing a generation below a newer one leaves Below as it is.
LEMMA Removal ==
  ASSUME TypeOK, NEW g \in Gen, Below(g), owner' = [owner EXCEPT ![g] = NONE]
  PROVE  /\ \A k \in Nat : Below(k)' <=> Below(k)
         /\ owner'[g] = NONE /\ \A h \in Gen \ {g} : owner'[h] = owner[h]
<1>1. owner'[g] = NONE /\ \A h \in Gen \ {g} : owner'[h] = owner[h]
  BY DEF TypeOK
<1>2. ASSUME NEW k \in Nat, Below(k) PROVE Below(k)'
  <2>1. PICK h \in Gen : h > k /\ Present(h)
    BY <1>2 DEF Below
  <2>2. PICK n \in Gen : n > g /\ Present(n)
    BY DEF Below
  <2>3. h \in Nat /\ n \in Nat /\ g \in Nat
    BY GenIsNat
  <2>4. CASE h = g
    BY <1>1, <2>1, <2>2, <2>3, <2>4 DEF Below, Present
  <2>5. CASE h # g
    BY <1>1, <2>1, <2>5 DEF Below, Present
  <2> QED BY <2>4, <2>5
<1>3. ASSUME NEW k \in Nat, Below(k)' PROVE Below(k)
  BY <1>1, <1>3 DEF Below, Present
<1> QED BY <1>1, <1>2, <1>3

\* Linking a new generation no newer than the newest leaves Below as it is; a
\* newer one covers every generation before it.
LEMMA Addition ==
  ASSUME TypeOK, NEW g \in Gen, NEW c \in Call, ~Present(g), owner' = [owner EXCEPT ![g] = c]
  PROVE  /\ \A k \in Nat : Below(k)' <=> Below(k) \/ g > k
         /\ owner'[g] = c /\ \A h \in Gen \ {g} : owner'[h] = owner[h]
<1>1. owner'[g] = c /\ \A h \in Gen \ {g} : owner'[h] = owner[h]
  BY DEF TypeOK
<1> QED BY <1>1, LockAssumption DEF Below, Present

-----------------------------------------------------------------------------
(* Each step keeps the invariant *)

LEMMA InvInit == Init => LockInv
<1> SUFFICES ASSUME Init PROVE LockInv
  OBVIOUS
<1>1. TypeOK
  BY LockAssumption DEF Init, TypeOK, Running, Holding, Over
<1>2. \A c \in Call : pc[c] = "new"
  BY DEF Init
<1>3. \A g \in Gen : ~Present(g) /\ done[g] = NONE
  BY DEF Init, Present
<1>4. Held /\ Linked /\ Cleaning /\ Probing /\ Linking /\ Processes
  BY <1>2 DEF Held, Linked, Cleaning, Probing, Linking, Processes, Running, Holding
<1> QED BY <1>1, <1>3, <1>4 DEF LockInv, Named, Accounted

LEMMA BeginInv ==
  ASSUME LockInv, NEW c \in Call, Begin(c)
  PROVE  LockInv'
<1> USE DEF Begin, LockInv
<1>1. TypeOK'
  BY LockAssumption DEF TypeOK, Running, Holding, Over
<1>2. /\ \A d \in Call \ {c} : pc'[d] = pc[d] /\ current'[d] = current[d] /\ old'[d] = old[d]
      /\ pc'[c] = "scan"
  BY DEF TypeOK
<1>3. /\ \A k \in Nat : Below(k)' <=> Below(k)
      /\ \A g \in Gen : Present(g)' <=> Present(g)
  BY SameDirectory
<1>4. /\ \A d \in Call : current[d] \in Nat /\ current[d] + 1 \in Nat
      /\ \A g \in Gen : Present(g) => owner[g] \in Call
      /\ \A g \in Gen : done[g] # NONE => done[g] \in Call
  BY LockAssumption DEF TypeOK, Present
<1>5. Held' /\ Cleaning'
  BY <1>2, <1>3, <1>4 DEF Held, Cleaning, Holding
<1>6. Linked' /\ Probing'
  BY <1>2, <1>3, <1>4 DEF Linked, Probing, Holding
<1>7. Linking'
  BY <1>2, <1>3, <1>4, GenIsNat DEF Linking, Over
<1>8. Named' /\ Accounted'
  BY <1>2, <1>3, <1>4, GenIsNat DEF Named, Accounted, Over, Holding, Present
<1>9. Processes'
  BY <1>2 DEF Processes, Running, Holding, TypeOK
<1> QED BY <1>1, <1>5, <1>6, <1>7, <1>8, <1>9

LEMMA ScanInv ==
  ASSUME LockInv, NEW c \in Call, Scan(c)
  PROVE  LockInv'
<1> USE DEF Scan, MayTry, LockInv
<1>1. TypeOK'
  BY LockAssumption DEF TypeOK, Running, Holding, Over
<1>2. /\ \A d \in Call \ {c} : pc'[d] = pc[d] /\ current'[d] = current[d] /\ old'[d] = old[d]
      /\ pc[c] = "scan" /\ pc'[c] \in {"refused", "link", "probe"}
      /\ pc'[c] = "link" => current'[c] = 0
      /\ pc'[c] = "probe" => current'[c] \in Gen /\ Present(current'[c])
  BY DEF TypeOK, IsHighest
<1>3. /\ \A k \in Nat : Below(k)' <=> Below(k)
      /\ \A g \in Gen : Present(g)' <=> Present(g)
  BY SameDirectory
<1>4. /\ \A d \in Call : current[d] \in Nat /\ current[d] + 1 \in Nat
      /\ \A g \in Gen : Present(g) => owner[g] \in Call
      /\ \A g \in Gen : done[g] # NONE => done[g] \in Call
  BY LockAssumption DEF TypeOK, Present
<1>5. Held' /\ Cleaning'
  BY <1>2, <1>3, <1>4 DEF Held, Cleaning, Holding
<1>6. Linked' /\ Probing'
  BY <1>2, <1>3, <1>4 DEF Linked, Probing, Holding
<1>7. Linking'
  BY <1>2, <1>3, <1>4, GenIsNat DEF Linking, Over
<1>8. Named' /\ Accounted'
  BY <1>2, <1>3, <1>4, GenIsNat DEF Named, Accounted, Over, Holding, Present
<1>9. Processes'
  BY <1>2 DEF Processes, Running, Holding, TypeOK
<1> QED BY <1>1, <1>5, <1>6, <1>7, <1>8, <1>9

LEMMA ProbeInv ==
  ASSUME LockInv, NEW c \in Call, Probe(c)
  PROVE  LockInv'
<1> USE DEF Probe, LockInv
<1>1. TypeOK'
  BY LockAssumption DEF TypeOK, Running, Holding, Over
<1>2. /\ \A d \in Call \ {c} : pc'[d] = pc[d] /\ current'[d] = current[d] /\ old'[d] = old[d]
      /\ pc[c] = "probe" /\ pc'[c] \in {"link", "refused"} /\ current'[c] = current[c]
      /\ pc'[c] = "link" => Released(current[c]) \/ Dead(current[c])
  BY DEF TypeOK
<1>3. /\ \A k \in Nat : Below(k)' <=> Below(k)
      /\ \A g \in Gen : Present(g)' <=> Present(g)
  BY SameDirectory
<1>4. /\ \A d \in Call : current[d] \in Nat /\ current[d] + 1 \in Nat
      /\ \A g \in Gen : Present(g) => owner[g] \in Call
      /\ \A g \in Gen : done[g] # NONE => done[g] \in Call
  BY LockAssumption DEF TypeOK, Present
<1>5. Held' /\ Cleaning'
  BY <1>2, <1>3, <1>4 DEF Held, Cleaning, Holding
<1>6. Linked' /\ Probing'
  BY <1>2, <1>3, <1>4 DEF Linked, Probing, Holding
<1>7. Linking'
  <2> SUFFICES ASSUME pc'[c] = "link", current[c] # 0, ~Below(current[c])
               PROVE  /\ current[c] \in Gen /\ Present(current[c])
                      /\ pc'[owner[current[c]]] \in Over
    BY <1>2, <1>3, <1>4, GenIsNat DEF Linking, Over
  <2> DEFINE o == owner[current[c]]
  <2>1. current[c] \in Gen /\ Present(current[c]) /\ o \in Call
    BY <1>2 DEF Probing, Present, TypeOK
  <2>2. pc[o] \in Over
    <3>1. CASE Released(current[c])
      BY <2>1, <3>1 DEF Released, Present, Named
    <3>2. CASE Dead(current[c])
      <4>1. pc[o] \notin Running
        BY <2>1, <3>2 DEF Dead, Processes
      <4> QED BY <2>1, <4>1 DEF Named, Running
    <3> QED BY <1>2, <3>1, <3>2
  <2> QED BY <1>2, <2>1, <2>2 DEF Over
<1>8. Named' /\ Accounted'
  BY <1>2, <1>3, <1>4, GenIsNat DEF Named, Accounted, Over, Holding, Present
<1>9. Processes'
  BY <1>2 DEF Processes, Running, Holding, TypeOK
<1> QED BY <1>1, <1>5, <1>6, <1>7, <1>8, <1>9

LEMMA ListInv ==
  ASSUME LockInv, NEW c \in Call, List(c)
  PROVE  LockInv'
<1> USE DEF List, LockInv
<1>1. TypeOK'
  BY LockAssumption DEF TypeOK, Running, Holding, Over, Older
<1>2. /\ \A d \in Call \ {c} : pc'[d] = pc[d] /\ current'[d] = current[d] /\ old'[d] = old[d]
      /\ pc[c] = "list" /\ pc'[c] = "clean" /\ current'[c] = current[c]
      /\ \A f \in old'[c] : f[1] < current[c] + 1
  BY DEF TypeOK, Older
<1>3. /\ \A k \in Nat : Below(k)' <=> Below(k)
      /\ \A g \in Gen : Present(g)' <=> Present(g)
  BY SameDirectory
<1>4. /\ \A d \in Call : current[d] \in Nat /\ current[d] + 1 \in Nat
      /\ \A g \in Gen : Present(g) => owner[g] \in Call
      /\ \A g \in Gen : done[g] # NONE => done[g] \in Call
  BY LockAssumption DEF TypeOK, Present
<1>5. Held' /\ Cleaning'
  BY <1>2, <1>3, <1>4 DEF Held, Cleaning, Holding
<1>6. Linked' /\ Probing'
  BY <1>2, <1>3, <1>4 DEF Linked, Probing, Holding
<1>7. Linking'
  BY <1>2, <1>3, <1>4, GenIsNat DEF Linking, Over
<1>8. Named' /\ Accounted'
  BY <1>2, <1>3, <1>4, GenIsNat DEF Named, Accounted, Over, Holding, Present
<1>9. Processes'
  BY <1>2 DEF Processes, Running, Holding, TypeOK
<1> QED BY <1>1, <1>5, <1>6, <1>7, <1>8, <1>9

LEMMA EnterInv ==
  ASSUME LockInv, NEW c \in Call, Enter(c)
  PROVE  LockInv'
<1> USE DEF Enter, LockInv
<1>1. TypeOK'
  BY LockAssumption DEF TypeOK, Running, Holding, Over
<1>2. /\ \A d \in Call \ {c} : pc'[d] = pc[d] /\ current'[d] = current[d] /\ old'[d] = old[d]
      /\ pc[c] = "clean" /\ pc'[c] = "act" /\ current'[c] = current[c]
  BY DEF TypeOK
<1>3. /\ \A k \in Nat : Below(k)' <=> Below(k)
      /\ \A g \in Gen : Present(g)' <=> Present(g)
  BY SameDirectory
<1>4. /\ \A d \in Call : current[d] \in Nat /\ current[d] + 1 \in Nat
      /\ \A g \in Gen : Present(g) => owner[g] \in Call
      /\ \A g \in Gen : done[g] # NONE => done[g] \in Call
  BY LockAssumption DEF TypeOK, Present
<1>5. Held' /\ Cleaning'
  BY <1>2, <1>3, <1>4 DEF Held, Cleaning, Holding
<1>6. Linked' /\ Probing'
  BY <1>2, <1>3, <1>4 DEF Linked, Probing, Holding
<1>7. Linking'
  BY <1>2, <1>3, <1>4, GenIsNat DEF Linking, Over
<1>8. Named' /\ Accounted'
  BY <1>2, <1>3, <1>4, GenIsNat DEF Named, Accounted, Over, Holding, Present
<1>9. Processes'
  BY <1>2 DEF Processes, Running, Holding, TypeOK
<1> QED BY <1>1, <1>5, <1>6, <1>7, <1>8, <1>9

LEMMA ActInv ==
  ASSUME LockInv, NEW c \in Call, Act(c)
  PROVE  LockInv'
<1> USE DEF Act, LockInv
<1>1. TypeOK'
  BY LockAssumption DEF TypeOK, Running, Holding, Over
<1>2. /\ \A d \in Call \ {c} : pc'[d] = pc[d] /\ current'[d] = current[d] /\ old'[d] = old[d]
      /\ pc[c] = "act" /\ pc'[c] = "release" /\ current'[c] = current[c]
  BY DEF TypeOK
<1>3. /\ \A k \in Nat : Below(k)' <=> Below(k)
      /\ \A g \in Gen : Present(g)' <=> Present(g)
  BY SameDirectory
<1>4. /\ \A d \in Call : current[d] \in Nat /\ current[d] + 1 \in Nat
      /\ \A g \in Gen : Present(g) => owner[g] \in Call
      /\ \A g \in Gen : done[g] # NONE => done[g] \in Call
  BY LockAssumption DEF TypeOK, Present
<1>5. Held' /\ Cleaning'
  BY <1>2, <1>3, <1>4 DEF Held, Cleaning, Holding
<1>6. Linked' /\ Probing'
  BY <1>2, <1>3, <1>4 DEF Linked, Probing, Holding
<1>7. Linking'
  BY <1>2, <1>3, <1>4, GenIsNat DEF Linking, Over
<1>8. Named' /\ Accounted'
  BY <1>2, <1>3, <1>4, GenIsNat DEF Named, Accounted, Over, Holding, Present
<1>9. Processes'
  BY <1>2 DEF Processes, Running, Holding, TypeOK
<1> QED BY <1>1, <1>5, <1>6, <1>7, <1>8, <1>9

LEMMA ConfirmInv ==
  ASSUME LockInv, NEW c \in Call, Confirm(c)
  PROVE  LockInv'
<1> USE DEF Confirm, LockInv
<1> DEFINE n == current[c] + 1
<1>1. TypeOK'
  BY DEF TypeOK, Running, Holding, Over
<1>2. /\ \A d \in Call \ {c} : pc'[d] = pc[d] /\ current'[d] = current[d] /\ old'[d] = old[d]
      /\ pc[c] = "confirm" /\ pc'[c] \in {"list", "withdraw"} /\ current'[c] = current[c]
      /\ n \in Gen /\ n \in Nat
  BY GenIsNat DEF TypeOK, Linked
<1>3. /\ \A k \in Nat : Below(k)' <=> Below(k)
      /\ \A g \in Gen : Present(g)' <=> Present(g)
  BY SameDirectory
<1>4. /\ \A d \in Call : current[d] \in Nat /\ current[d] + 1 \in Nat
      /\ \A g \in Gen : Present(g) => owner[g] \in Call
      /\ \A g \in Gen : done[g] # NONE => done[g] \in Call
  BY LockAssumption DEF TypeOK, Present
<1>a. pc'[c] = "list" => owner[n] = c /\ ~Below(n)
  BY <1>2 DEF StillHighest, IsHighest, Below, Linked, TypeOK
<1>b. pc'[c] = "withdraw" => Below(n)
  BY <1>2, LockAssumption DEF StillHighest, IsHighest, Below, Linked, Present, TypeOK
<1>5. Held' /\ Cleaning'
  BY <1>2, <1>3, <1>4, <1>a DEF Held, Cleaning, Holding
<1>6. Linked' /\ Probing'
  BY <1>2, <1>3, <1>4, <1>b DEF Linked, Probing
<1>7. Linking'
  BY <1>2, <1>3, <1>4, GenIsNat DEF Linking, Over
<1>8. Named' /\ Accounted'
  BY <1>2, <1>3, <1>4, <1>b, GenIsNat DEF Named, Accounted, Over, Holding, Present
<1>9. Processes'
  BY <1>2 DEF Processes, Running, Holding, TypeOK
<1> QED BY <1>1, <1>5, <1>6, <1>7, <1>8, <1>9

LEMMA LinkInv ==
  ASSUME LockInv, NEW c \in Call, Link(c)
  PROVE  LockInv'
<1> USE DEF Link, LockInv
<1> DEFINE n == current[c] + 1
<1>1. TypeOK'
  <2>1. n \in Gen
    BY LockAssumption DEF TypeOK, Gen
  <2>2. pc' \in [Call -> {"new"} \cup Running \cup Over]
    BY DEF TypeOK, Running
  <2>3. owner' \in [Gen -> Call \cup {NONE}]
    BY <2>1 DEF TypeOK
  <2> QED BY <2>2, <2>3 DEF TypeOK
<1>2. /\ \A d \in Call \ {c} : pc'[d] = pc[d]
      /\ pc[c] = "link" /\ current' = current /\ old' = old /\ done' = done
      /\ n \in Gen /\ n \in Nat
  BY LockAssumption DEF TypeOK, Gen
<1>4. /\ \A d \in Call : current[d] \in Nat /\ current[d] + 1 \in Nat
      /\ \A g \in Gen : Present(g) => owner[g] \in Call
      /\ \A g \in Gen : done[g] # NONE => done[g] \in Call
      /\ c # NONE
  BY LockAssumption DEF TypeOK, Present
<1>9. Processes'
  BY <1>2 DEF Processes, Running, Holding, TypeOK
<1>a. CASE Present(n)
  <2>2. pc'[c] = "scan" /\ owner' = owner
    BY <1>a DEF TypeOK
  <2>3. /\ \A k \in Nat : Below(k)' <=> Below(k)
        /\ \A g \in Gen : Present(g)' <=> Present(g)
    BY <2>2, SameDirectory
  <2>5. Held' /\ Cleaning'
    BY <1>2, <1>4, <2>2, <2>3 DEF Held, Cleaning, Holding
  <2>6. Linked' /\ Probing'
    BY <1>2, <1>4, <2>2, <2>3 DEF Linked, Probing
  <2>7. Linking'
    BY <1>2, <1>4, <2>2, <2>3, GenIsNat DEF Linking, Over
  <2>8. Named' /\ Accounted'
    BY <1>2, <1>4, <2>2, <2>3, GenIsNat DEF Named, Accounted, Over, Holding, Present
  <2> QED BY <1>1, <1>9, <2>5, <2>6, <2>7, <2>8
<1>b. CASE ~Present(n)
  <2>2. pc'[c] = "confirm" /\ owner' = [owner EXCEPT ![n] = c]
    BY <1>b DEF TypeOK
  <2>3. /\ \A k \in Nat : Below(k)' <=> Below(k) \/ n > k
        /\ owner'[n] = c /\ \A h \in Gen \ {n} : owner'[h] = owner[h]
    BY <1>b, <1>2, <2>2, Addition
  <2>4. ASSUME NEW d \in Call, pc[d] \in Holding PROVE ~(n > current[d] + 1) /\ n # current[d] + 1
    <3>1. current[d] + 1 \in Gen /\ owner[current[d] + 1] = d /\ ~Below(current[d] + 1)
      BY <2>4 DEF Held
    <3>2. n # current[d] + 1
      BY <1>b, <1>4, <3>1, LockAssumption DEF Present
    <3>3. CASE current[c] = 0
      BY <1>4, <3>2, <3>3
    <3>4. CASE Below(current[c])
      <4>1. PICK g \in Gen : g > current[c] /\ Present(g)
        BY <3>4 DEF Below
      <4>2. ~(g > current[d] + 1) /\ g \in Nat
        BY <3>1, <4>1, GenIsNat DEF Below
      <4>3. current[c] \in Nat /\ current[d] \in Nat
        BY <1>4
      <4> QED BY <4>1, <4>2, <4>3, NoneBetween, <3>2
    <3>5. CASE current[c] \in Gen /\ Present(current[c]) /\ pc[owner[current[c]]] \in Over
      <4>1. ~(current[c] > current[d] + 1)
        BY <3>1, <3>5 DEF Below
      <4>2. current[c] # current[d] + 1
        BY <2>4, <3>1, <3>5 DEF Over, Holding
      <4>3. current[c] \in Nat /\ current[d] \in Nat
        BY <1>4
      <4>4. current[c] <= current[d]
        BY <4>1, <4>2, <4>3, Z3
      <4> QED BY <3>2, <4>3, <4>4, Z3
    <3> QED BY <1>2, <3>2, <3>3, <3>4, <3>5 DEF Linking
  <2>5. Held' /\ Cleaning'
    BY <1>2, <1>4, <2>2, <2>3, <2>4 DEF Held, Cleaning, Holding
  <2>6. Linked' /\ Probing'
    <3>1. ASSUME NEW k \in Gen, k # n PROVE (Present(k)' <=> Present(k)) /\ owner'[k] = owner[k]
      BY <2>3, <3>1 DEF Present
    <3>2. \A k \in Gen : Below(k) => Below(k)'
      BY <2>3, GenIsNat
    <3>3. ASSUME NEW d \in Call, pc'[d] \in {"confirm", "withdraw"}
          PROVE  /\ current[d] + 1 \in Gen
                 /\ owner'[current[d] + 1] = d \/ Below(current[d] + 1)'
                 /\ pc'[d] = "withdraw" => Below(current[d] + 1)'
      <4>1. CASE d = c
        BY <1>2, <2>2, <2>3, <4>1
      <4>2. CASE d # c
        <5>1. pc'[d] = pc[d] /\ current[d] + 1 \in Gen
          BY <1>2, <3>3, <4>2 DEF Linked
        <5>2. current[d] + 1 = n => owner[current[d] + 1] # d
          BY <1>b, <1>2, LockAssumption DEF Present
        <5> QED BY <3>1, <3>2, <3>3, <5>1, <5>2 DEF Linked
      <4> QED BY <4>1, <4>2
    <3>4. Linked'
      BY <1>2, <3>3 DEF Linked
    <3>5. Probing'
      BY <1>b, <1>2, <2>2, <3>1, <3>2 DEF Probing
    <3> QED BY <3>4, <3>5
  <2>7. Linking'
    <3> SUFFICES ASSUME NEW d \in Call, pc'[d] = "link", current[d] # 0, ~Below(current[d])'
                 PROVE  /\ current[d] \in Gen /\ Present(current[d])'
                        /\ pc'[owner'[current[d]]] \in Over
      BY <1>2 DEF Linking
    <3>1. pc[d] = "link" /\ d # c /\ ~Below(current[d])
      BY <1>2, <1>4, <2>2, <2>3
    <3>2. current[d] \in Gen /\ Present(current[d]) /\ pc[owner[current[d]]] \in Over
      BY <3>1 DEF Linking
    <3>3. current[d] # n
      BY <1>b, <3>2
    <3> QED BY <1>2, <1>4, <2>3, <3>2, <3>3 DEF Present, Over
  <2>8. Named' /\ Accounted'
    <3>1. Named'
      BY <1>2, <1>4, <2>2, <2>3 DEF Named, Over, Present
    <3>2. Accounted'
      BY <1>2, <1>4, <2>2, <2>3, GenIsNat DEF Accounted, Holding, Present
    <3> QED BY <3>1, <3>2
  <2> QED BY <1>1, <1>9, <2>5, <2>6, <2>7, <2>8
<1> QED BY <1>a, <1>b

\* A removal below a newer generation, with every call where it was, or back
\* at the scan.
LEMMA RemovalInv ==
  ASSUME LockInv, TypeOK', NEW g \in Gen, Below(g), owner' = [owner EXCEPT ![g] = NONE],
         done' = done, alive' = alive, pid' = pid, current' = current,
         \A d \in Call : old'[d] \subseteq old[d],
         \A d \in Call : pc'[d] = pc[d] \/ (pc[d] = "withdraw" /\ pc'[d] = "scan" /\ g = current[d] + 1)
  PROVE  LockInv'
<1> USE DEF LockInv
<1>3. /\ \A k \in Nat : Below(k)' <=> Below(k)
      /\ owner'[g] = NONE /\ \A h \in Gen \ {g} : owner'[h] = owner[h]
  BY Removal
<1>4. /\ \A d \in Call : current[d] \in Nat /\ current[d] + 1 \in Nat
      /\ \A h \in Gen : Present(h) => owner[h] \in Call
      /\ \A h \in Gen : done[h] # NONE => done[h] \in Call
      /\ g \in Nat
  BY LockAssumption, GenIsNat DEF TypeOK, Present
<1>5. Held' /\ Cleaning'
  BY <1>3, <1>4 DEF Held, Cleaning, Holding
<1>6. Linked' /\ Probing'
  BY <1>3, <1>4 DEF Linked, Probing, Present
<1>7. Linking'
  BY <1>3, <1>4 DEF Linking, Over, Present
<1>8. Named' /\ Accounted'
  BY <1>3, <1>4, GenIsNat DEF Named, Accounted, Over, Holding, Present
<1>9. Processes'
  BY DEF Processes, Running, Holding
<1> QED BY <1>5, <1>6, <1>7, <1>8, <1>9

LEMMA WithdrawInv ==
  ASSUME LockInv, NEW c \in Call, Withdraw(c)
  PROVE  LockInv'
<1>1. TypeOK'
  BY DEF LockInv, Withdraw, TypeOK, Running
<1>2. current[c] + 1 \in Gen /\ Below(current[c] + 1)
  BY DEF LockInv, Withdraw, Linked
<1> QED BY <1>1, <1>2, RemovalInv DEF LockInv, Withdraw, TypeOK

LEMMA UnlinkInv ==
  ASSUME LockInv, NEW c \in Call, Unlink(c)
  PROVE  LockInv'
<1>1. TypeOK'
  BY DEF LockInv, Unlink, TypeOK
<1>2. PICK f \in old[c] :
        /\ old' = [old EXCEPT ![c] = @ \ {f}]
        /\ IF f[2] = "owner"
           THEN owner' = [owner EXCEPT ![f[1]] = NONE] /\ UNCHANGED done
           ELSE done' = [done EXCEPT ![f[1]] = NONE] /\ UNCHANGED owner
  BY DEF Unlink
<1>3. f[1] \in Gen /\ f[1] < current[c] + 1
  BY DEF LockInv, Unlink, TypeOK, Cleaning
<1>4. Below(f[1])
  <2>1. current[c] + 1 \in Gen /\ owner[current[c] + 1] = c
    BY DEF LockInv, Unlink, Held, Holding
  <2>2. f[1] \in Nat /\ current[c] + 1 \in Nat
    BY <1>3, <2>1, GenIsNat
  <2> QED BY <1>3, <2>1, <2>2, LockAssumption DEF Below, Present
<1>5. \A d \in Call : old'[d] \subseteq old[d]
  BY <1>2 DEF LockInv, TypeOK
<1>6. CASE f[2] = "owner"
  BY <1>1, <1>2, <1>3, <1>4, <1>5, <1>6, RemovalInv DEF Unlink
<1>7. CASE f[2] # "owner"
  <2>1. /\ owner' = owner /\ pc' = pc /\ pid' = pid /\ current' = current /\ alive' = alive
        /\ \A g \in Gen \ {f[1]} : done'[g] = done[g]
        /\ done'[f[1]] = NONE
    BY <1>2, <1>3, <1>7 DEF Unlink, LockInv, TypeOK
  <2>2. \A k : Below(k)' <=> Below(k)
    BY <2>1 DEF Below, Present
  <2>3. Held' /\ Linked' /\ Cleaning' /\ Probing' /\ Linking' /\ Processes'
    BY <1>5, <2>1, <2>2 DEF LockInv, Held, Linked, Cleaning, Probing, Linking, Processes, Present
  <2>4. Named' /\ Accounted'
    BY <1>4, <2>1, <2>2 DEF LockInv, Named, Accounted, Present
  <2> QED BY <1>1, <2>3, <2>4 DEF LockInv
<1> QED BY <1>6, <1>7

LEMMA ReleaseInv ==
  ASSUME LockInv, NEW c \in Call, Release(c)
  PROVE  LockInv'
<1> USE DEF Release, LockInv, GenerationHeld
<1> DEFINE n == current[c] + 1
<1>1. TypeOK'
  BY DEF TypeOK, Over
<1>2. /\ pc[c] = "release" /\ pc'[c] = "finished" /\ \A d \in Call \ {c} : pc'[d] = pc[d]
      /\ n \in Gen /\ owner[n] = c /\ done'[n] = c
      /\ \A g \in Gen \ {n} : done'[g] = done[g]
  BY DEF TypeOK, Held, Holding
<1>3. /\ \A k \in Nat : Below(k)' <=> Below(k)
      /\ \A g \in Gen : Present(g)' <=> Present(g)
  BY SameDirectory
<1>4. /\ \A d \in Call : current[d] \in Nat /\ current[d] + 1 \in Nat
      /\ \A g \in Gen : Present(g) => owner[g] \in Call
      /\ \A g \in Gen : done[g] # NONE => done[g] \in Call
  BY LockAssumption DEF TypeOK, Present
<1>5. Held' /\ Cleaning'
  BY <1>2, <1>3, <1>4 DEF Held, Cleaning, Holding
<1>6. Linked' /\ Probing'
  BY <1>2, <1>3, <1>4 DEF Linked, Probing
<1>7. Linking'
  BY <1>2, <1>3, <1>4, GenIsNat DEF Linking, Over
<1>8. Named'
  BY <1>2, <1>3, <1>4 DEF Named, Over, Present
<1>a. Accounted'
  <2> SUFFICES ASSUME NEW g \in Gen, Present(g), ~Below(g)
               PROVE  \/ pc'[owner[g]] \in Holding \cup {"confirm", "crashed"}
                      \/ pc'[owner[g]] = "finished" /\ done'[g] = owner[g]
    BY <1>3, GenIsNat DEF Accounted
  <2>1. CASE g = n
    BY <1>2, <2>1
  <2>2. CASE g # n
    <3>1. n > g \/ g > n
      BY <1>2, <2>2, Compare
    <3>2. ~Below(n) /\ Present(n)
      BY <1>2, LockAssumption DEF Held, Holding, Present
    <3> QED BY <1>2, <3>1, <3>2 DEF Below
  <2> QED BY <2>1, <2>2
<1>9. Processes'
  BY <1>2 DEF Processes, Running, Holding, TypeOK
<1> QED BY <1>1, <1>5, <1>6, <1>7, <1>8, <1>9, <1>a

LEMMA DieInv ==
  ASSUME LockInv, NEW p \in Process, Die(p)
  PROVE  LockInv'
<1> USE DEF Die, LockInv
<1>1. TypeOK'
  BY DEF TypeOK, Over
<1>2. \A d \in Call : pc'[d] = pc[d] \/ (pc[d] \in Running /\ pc'[d] = "crashed")
  BY DEF TypeOK
<1>3. /\ \A k \in Nat : Below(k)' <=> Below(k)
      /\ \A g \in Gen : Present(g)' <=> Present(g)
  BY SameDirectory
<1>4. /\ \A d \in Call : current[d] \in Nat /\ current[d] + 1 \in Nat
      /\ \A g \in Gen : Present(g) => owner[g] \in Call
      /\ \A g \in Gen : done[g] # NONE => done[g] \in Call
  BY LockAssumption DEF TypeOK, Present
<1>5. Held' /\ Cleaning'
  BY <1>2, <1>3, <1>4 DEF Held, Cleaning, Holding
<1>6. Linked' /\ Probing'
  BY <1>2, <1>3, <1>4 DEF Linked, Probing
<1>7. Linking'
  BY <1>2, <1>3, <1>4, GenIsNat DEF Linking, Over
<1>8. Named' /\ Accounted'
  BY <1>2, <1>3, <1>4, GenIsNat DEF Named, Accounted, Over, Holding, Present, Running
<1>9. Processes'
  BY DEF Processes, Running, Holding, TypeOK
<1> QED BY <1>1, <1>5, <1>6, <1>7, <1>8, <1>9

LEMMA ReuseInv ==
  ASSUME LockInv, NEW p \in Process, Reuse(p)
  PROVE  LockInv'
<1>1. TypeOK' /\ Processes'
  BY DEF LockInv, Reuse, TypeOK, Processes
<1> QED BY <1>1 DEF LockInv, Reuse, Held, Linked, Cleaning, Probing, Linking, Named, Accounted,
                    Below, Present

LEMMA LockInvariant == Spec => []LockInv
<1>1. LockInv /\ [Next]_vars => LockInv'
  <2> SUFFICES ASSUME LockInv, [Next]_vars PROVE LockInv'
    OBVIOUS
  <2>1. ASSUME NEW c \in Call, Step(c) PROVE LockInv'
    BY <2>1, BeginInv, ScanInv, ProbeInv, LinkInv, ConfirmInv, WithdrawInv, ListInv, UnlinkInv, EnterInv,
       ActInv, ReleaseInv DEF Step
  <2>2. ASSUME NEW p \in Process, Die(p) \/ Reuse(p) PROVE LockInv'
    BY <2>2, DieInv, ReuseInv
  <2>3. CASE UNCHANGED vars
    BY <2>3 DEF vars, LockInv, TypeOK, Held, Linked, Cleaning, Probing, Linking, Named, Accounted,
                Processes, Below, Present
  <2> QED BY <2>1, <2>2, <2>3 DEF Next
<1> QED BY <1>1, InvInit, PTL DEF Spec

-----------------------------------------------------------------------------
(* What it gives *)

\* The state keeps its types: no call links past its 64th try, or a generation
\* that does not follow the one it read.
THEOREM LockTypes == Spec => []TypeOK
<1>1. LockInv => TypeOK
  BY DEF LockInv
<1> QED BY <1>1, LockInvariant, PTL

\* Two calls never run their actions at once (withDraftFileLock, any number of
\* callers, processes and generations).
THEOREM LockExcludes == Spec => []MutualExclusion
<1>1. LockInv => MutualExclusion
  <2> SUFFICES ASSUME LockInv, NEW c \in Call, NEW d \in Call, pc[c] \in Holding, pc[d] \in Holding
               PROVE  c = d
    BY DEF MutualExclusion
  <2>1. /\ current[c] + 1 \in Gen /\ owner[current[c] + 1] = c /\ ~Below(current[c] + 1)
        /\ current[d] + 1 \in Gen /\ owner[current[d] + 1] = d /\ ~Below(current[d] + 1)
    BY DEF LockInv, Held
  <2>2. current[c] + 1 = current[d] + 1
    <3>1. ~(current[c] + 1 > current[d] + 1) /\ ~(current[d] + 1 > current[c] + 1)
      BY <2>1, LockAssumption DEF Below, Present
    <3> QED BY <2>1, <3>1, Compare
  <2> QED BY <2>1, <2>2
<1> QED BY <1>1, LockInvariant, PTL

\* When nobody is in a call, the next call gets the lock: a crash between any
\* two system calls of locks.ts leaves nothing that would keep it.
THEOREM QuietLockIsFree == Spec => []QuietIsFree
<1>1. LockInv => QuietIsFree
  <2> SUFFICES ASSUME LockInv, \A c \in Call : pc[c] \notin Running,
                      NEW g \in Gen, IsHighest(g), pid[owner[g]] \notin Reused
               PROVE  Released(g) \/ Dead(g)
    BY DEF QuietIsFree
  <2>1. Present(g) /\ ~Below(g) /\ owner[g] \in Call
    BY GenIsNat DEF IsHighest, Below, Present, LockInv, TypeOK
  <2>2. CASE pc[owner[g]] = "crashed"
    BY <2>1, <2>2 DEF LockInv, Processes, Dead
  <2>3. CASE pc[owner[g]] = "finished" /\ done[g] = owner[g]
    BY <2>1, <2>3 DEF Released
  <2> QED BY <2>1, <2>2, <2>3 DEF LockInv, Accounted, Running
<1> QED BY <1>1, LockInvariant, PTL

\* A refused call leaves no generation that names it, whichever of its tries
\* linked one and whoever removed or replaced that file.
THEOREM RefusedCallsOwnNothing == Spec => []RefusedOwnsNothing
<1>1. LockInv => RefusedOwnsNothing
  BY LockAssumption DEF LockInv, Named, RefusedOwnsNothing, Present, Over, Holding
<1> QED BY <1>1, LockInvariant, PTL

\* No cleanup and no withdrawal removes the newest generation.
THEOREM NewestIsNeverRemoved == Spec => NewestStays
<1>1. LockInv /\ [Next]_vars => [\A g \in Gen : IsHighest(g) => owner'[g] = owner[g]]_vars
  <2> SUFFICES ASSUME LockInv, Next, NEW g \in Gen, IsHighest(g) PROVE owner'[g] = owner[g]
    BY DEF vars
  <2>1. Present(g) /\ ~Below(g)
    BY GenIsNat DEF IsHighest, Below
  <2>2. ASSUME NEW c \in Call, Link(c) PROVE owner'[g] = owner[g]
    BY <2>1, <2>2 DEF Link, Present, LockInv, TypeOK
  <2>3. ASSUME NEW c \in Call, Withdraw(c) PROVE owner'[g] = owner[g]
    BY <2>1, <2>3 DEF Withdraw, LockInv, Linked, TypeOK
  <2>4. ASSUME NEW c \in Call, Unlink(c) PROVE owner'[g] = owner[g]
    <3>1. owner[current[c] + 1] = c /\ current[c] + 1 \in Gen
      BY <2>4 DEF Unlink, LockInv, Held, Holding
    <3>2. \A f \in old[c] : f[1] # g
      BY <2>1, <2>4, <3>1, GenIsNat, LockAssumption DEF Unlink, LockInv, Cleaning, Below, Present
    <3> QED BY <2>4, <3>2 DEF Unlink, LockInv, TypeOK
  <2>5. ASSUME NEW c \in Call, Step(c) PROVE owner'[g] = owner[g]
    BY <2>2, <2>3, <2>4, <2>5
       DEF Step, Begin, Scan, Probe, Confirm, List, Enter, Act, Release
  <2> QED BY <2>5 DEF Next, Die, Reuse
<1> QED BY <1>1, LockInvariant, PTL DEF Spec, NewestStays
=============================================================================
