-------------------------- MODULE IdCounterProofs --------------------------
(***************************************************************************)
(* The identifiers of orders are distinct for every number of requests and *)
(* days, and the counters implement the abstract source of identifiers.    *)
(*                                                                         *)
(* NumbersDistinct is not inductive: what keeps a new number apart from    *)
(* those handed out is that a day has one document at most and that the    *)
(* document has counted at least as far as every number of the day.        *)
(***************************************************************************)
EXTENDS IdCounter, FiniteSetTheorems, TLAPS

OneDocument ==
  \A k \in Days : \A c, d \in Callers :
    counter[k][c] > 0 /\ counter[k][d] > 0 => c = d

CountedSoFar ==
  \A c \in Callers :
    number[c] # 0 /\ key[c] \in Days => \E d \in Callers : counter[key[c]][d] >= number[c]

NumberComesLast ==
  \A c \in Callers : at[c] \in {"idle", "find", "insert"} => number[c] = 0

IInv == TypeOK /\ OneDocument /\ CountedSoFar /\ NumberComesLast /\ NumbersDistinct

\* The initial state satisfies the invariant.
LEMMA InitIInv == Init => IInv
BY CounterAssumption
   DEF Init, IInv, TypeOK, OneDocument, CountedSoFar, NumberComesLast, NumbersDistinct,
       Keys, Days

\* FindOneAndUpdate keeps the invariant: the document has counted past every number of its day.
LEMMA FindKeepsIInv ==
  ASSUME IInv, NEW c \in Callers, FindOneAndUpdate(c)
  PROVE  IInv'
<1>1. CASE UNCHANGED <<counter, number>>
  BY <1>1 DEF IInv, TypeOK, OneDocument, CountedSoFar, NumberComesLast, NumbersDistinct,
     FindOneAndUpdate, Goes, Ends
<1>2. ASSUME NEW d \in Documents(key[c]), NEW outcome \in Outcomes,
             counter' = [counter EXCEPT ![key[c]][d] = @ + 1],
             number' = [number EXCEPT ![c] = IF outcome = "ok" THEN counter[key[c]][d] + 1 ELSE 0],
             Ends(c, outcome, "numbered")
      PROVE  IInv'
  <2>1. d \in Callers /\ counter[key[c]][d] > 0 /\ key[c] \in Keys /\ at[c] = "find"
    BY DEF Documents, FindOneAndUpdate, IInv, TypeOK
  <2>2. key' = key /\ stored' = stored /\ today' = today /\ prefix' = prefix
    BY DEF FindOneAndUpdate
  <2>3. TypeOK'
    BY <1>2, <2>1, <2>2 DEF IInv, TypeOK, Ends, Goes
  <2>4. OneDocument'
    BY <1>2, <2>1, <2>2 DEF IInv, TypeOK, OneDocument
  <2>5. CountedSoFar'
    BY <1>2, <2>1, <2>2 DEF IInv, TypeOK, CountedSoFar
  <2>6. NumberComesLast'
    BY <1>2, <2>1, <2>2 DEF IInv, TypeOK, NumberComesLast, Ends, Goes
  <2>7. ASSUME key[c] \in Days, NEW e \in Callers, number[e] # 0, key[e] = key[c]
        PROVE  number[e] <= counter[key[c]][d]
    <3>1. PICK f \in Callers : counter[key[c]][f] >= number[e]
      BY <2>7 DEF IInv, CountedSoFar
    <3>2. number[e] \in Nat /\ number[e] > 0 /\ counter[key[c]][f] \in Nat
      BY <2>1, <2>7 DEF IInv, TypeOK
    <3>3. f = d
      BY <2>1, <2>7, <3>1, <3>2 DEF IInv, OneDocument
    <3>4. QED
      BY <3>1, <3>3
  <2>8. NumbersDistinct'
    BY <1>2, <2>1, <2>2, <2>7 DEF IInv, TypeOK, NumbersDistinct
  <2>9. QED
    BY <2>3, <2>4, <2>5, <2>6, <2>8 DEF IInv
<1>3. QED
  BY <1>1, <1>2 DEF FindOneAndUpdate

\* InsertOne keeps it: the unique index lets it through only on a day without numbers.
LEMMA InsertKeepsIInv ==
  ASSUME IInv, NEW c \in Callers, InsertCounter(c)
  PROVE  IInv'
<1>1. CASE UNCHANGED <<counter, number>>
  BY <1>1 DEF IInv, TypeOK, OneDocument, CountedSoFar, NumberComesLast, NumbersDistinct,
     InsertCounter, Goes, Ends
<1>2. ASSUME key[c] \in Days => Documents(key[c]) = {},
             NEW outcome \in Outcomes,
             counter' = [counter EXCEPT ![key[c]][c] = 1],
             number' = [number EXCEPT ![c] = IF outcome = "ok" THEN 1 ELSE 0],
             Ends(c, outcome, "numbered")
      PROVE  IInv'
  <2>1. key[c] \in Keys /\ at[c] = "insert" /\ number[c] = 0
    BY DEF InsertCounter, IInv, TypeOK, NumberComesLast
  <2>2. key' = key /\ stored' = stored /\ today' = today /\ prefix' = prefix
    BY DEF InsertCounter
  <2>3. TypeOK'
    BY <1>2, <2>1, <2>2 DEF IInv, TypeOK, Ends, Goes
  <2>4. key[c] \in Days => \A d \in Callers : counter[key[c]][d] = 0
    BY <1>2, <2>1 DEF Documents, IInv, TypeOK
  <2>5. key[c] \in Days => \A e \in Callers : key[e] = key[c] => number[e] = 0
    BY <2>1, <2>4 DEF IInv, TypeOK, CountedSoFar
  <2>6. OneDocument'
    BY <1>2, <2>1, <2>2, <2>4 DEF IInv, TypeOK, OneDocument
  <2>7. CountedSoFar'
    BY <1>2, <2>1, <2>2, <2>4, <2>5 DEF IInv, TypeOK, CountedSoFar
  <2>8. NumberComesLast'
    BY <1>2, <2>1, <2>2 DEF IInv, TypeOK, NumberComesLast, Ends, Goes
  <2>9. NumbersDistinct'
    BY <1>2, <2>1, <2>2, <2>5 DEF IInv, TypeOK, NumbersDistinct
  <2>10. QED
    BY <2>3, <2>6, <2>7, <2>8, <2>9 DEF IInv
<1>3. QED
  BY <1>1, <1>2 DEF InsertCounter

\* Every step keeps the invariant.
LEMMA NextKeepsIInv == IInv /\ [Next]_vars => IInv'
<1> SUFFICES ASSUME IInv, [Next]_vars PROVE IInv'
  OBVIOUS
<1>1. ASSUME NEW c \in Callers, Begin(c) PROVE IInv'
  <2>1. today \in Keys /\ AccountKey \in Keys
    BY DEF IInv, TypeOK, Keys
  <2>2. TypeOK'
    BY <1>1, <2>1 DEF Begin, Goes, IInv, TypeOK
  <2>3. number' = number /\ counter' = counter /\ number[c] = 0
    BY <1>1 DEF Begin, IInv, TypeOK, NumberComesLast
  <2>4. \A d \in Callers \ {c} : key'[d] = key[d]
    BY <1>1 DEF Begin, IInv, TypeOK
  <2>5. OneDocument'
    BY <2>3 DEF IInv, OneDocument
  <2>6. CountedSoFar' /\ NumbersDistinct'
    BY <2>3, <2>4 DEF IInv, CountedSoFar, NumbersDistinct
  <2>7. NumberComesLast'
    BY <1>1, <2>3 DEF Begin, Goes, IInv, TypeOK, NumberComesLast
  <2>8. QED
    BY <2>2, <2>5, <2>6, <2>7 DEF IInv
<1>2. ASSUME NEW c \in Callers, InsertEntity(c) PROVE IInv'
  BY <1>2 DEF InsertEntity, Ends, Goes, IInv, TypeOK, OneDocument, CountedSoFar,
     NumberComesLast, NumbersDistinct
<1>3. CASE Midnight
  BY <1>3, CounterAssumption DEF Midnight, IInv, TypeOK, OneDocument, CountedSoFar,
     NumberComesLast, NumbersDistinct, Days
<1>4. CASE AllEnded \/ UNCHANGED vars
  BY <1>4 DEF AllEnded, vars, IInv, TypeOK, OneDocument, CountedSoFar, NumberComesLast,
     NumbersDistinct
<1>5. QED
  BY <1>1, <1>2, <1>3, <1>4, FindKeepsIInv, InsertKeepsIInv DEF Next, Work

\* The counters and the requests keep their types.
THEOREM CounterTypeCorrect == Spec => []TypeOK
BY InitIInv, NextKeepsIInv, PTL DEF Spec, IInv

\* incrementID never gives two orders of a day the same number.
THEOREM OrdersNumberedApart == Spec => []NumbersDistinct
BY InitIInv, NextKeepsIInv, PTL DEF Spec, IInv

-----------------------------------------------------------------------------
(* Numbers that several documents give.                                    *)
(*                                                                         *)
(* Without the index a key may have several documents, each counting for   *)
(* itself.  A document hands out n once, when it gets that far: so n was   *)
(* given to at most as many requests as documents have reached it.         *)

Holders(k, n) == {c \in Callers : number[c] = n /\ key[c] = k}
Reached(k, n) == {d \in Callers : counter[k][d] >= n}

SharedByReached ==
  \A k \in Keys, n \in Nat \ {0} : Cardinality(Holders(k, n)) <= Cardinality(Reached(k, n))

\* A request has no document before its own InsertOne.
DocumentComesLast ==
  \A c \in Callers : at[c] \in {"idle", "find", "insert"} => \A k \in Keys : counter[k][c] = 0

SInv == SharedByReached /\ DocumentComesLast

\* A set of holders that gains one request at most, against a set of documents
\* that gains one at least whenever the holders do.
LEMMA OneEach ==
  ASSUME NEW H \in SUBSET Callers, NEW G \in SUBSET Callers,
         NEW R \in SUBSET Callers, NEW S \in SUBSET Callers,
         Cardinality(H) <= Cardinality(R), R \subseteq S,
         G \subseteq H \/ \E c \in Callers, d \in S \ R : G \subseteq H \cup {c}
  PROVE  Cardinality(G) <= Cardinality(S)
<1>1. IsFiniteSet(Callers)
  BY CounterAssumption
<1>2. IsFiniteSet(H) /\ IsFiniteSet(G) /\ IsFiniteSet(R) /\ IsFiniteSet(S)
  BY <1>1, FS_Subset
<1>3. /\ Cardinality(H) \in Nat /\ Cardinality(G) \in Nat
      /\ Cardinality(R) \in Nat /\ Cardinality(S) \in Nat
  BY <1>2, FS_CardinalityType
<1>4. Cardinality(R) <= Cardinality(S)
  BY <1>2, FS_Subset
<1>5. CASE G \subseteq H
  <2>1. Cardinality(G) <= Cardinality(H)
    BY <1>2, <1>5, FS_Subset
  <2>2. QED
    BY <1>3, <1>4, <2>1
<1>6. ASSUME NEW c \in Callers, NEW d \in S \ R, G \subseteq H \cup {c}
      PROVE  Cardinality(G) <= Cardinality(S)
  <2>1. IsFiniteSet(H \cup {c}) /\ Cardinality(H \cup {c}) <= Cardinality(H) + 1
    <3>1. /\ IsFiniteSet(H \cup {c})
          /\ Cardinality(H \cup {c}) = IF c \in H THEN Cardinality(H) ELSE Cardinality(H) + 1
      BY <1>2, FS_AddElement
    <3>2. QED
      BY <1>3, <3>1
  <2>2. Cardinality(H \cup {c}) \in Nat
    BY <2>1, FS_CardinalityType
  <2>3. Cardinality(G) <= Cardinality(H \cup {c})
    BY <1>6, <2>1, FS_Subset
  <2>4. IsFiniteSet(R \cup {d}) /\ Cardinality(R \cup {d}) = Cardinality(R) + 1
    BY <1>2, FS_AddElement
  <2>5. Cardinality(R \cup {d}) <= Cardinality(S)
    <3>1. R \cup {d} \subseteq S
      OBVIOUS
    <3>2. QED
      BY <1>2, <3>1, FS_Subset
  <2>6. QED
    BY <1>3, <2>1, <2>2, <2>3, <2>4, <2>5
<1>7. QED
  BY <1>5, <1>6

\* SharedByReached follows from how a step moves the two sets.
LEMMA SharedStep ==
  ASSUME SharedByReached,
         \A k \in Keys, n \in Nat \ {0} :
           /\ Reached(k, n) \subseteq Reached(k, n)'
           /\ \/ Holders(k, n)' \subseteq Holders(k, n)
              \/ \E c \in Callers, d \in Reached(k, n)' \ Reached(k, n) :
                   Holders(k, n)' \subseteq Holders(k, n) \cup {c}
  PROVE  SharedByReached'
<1> SUFFICES ASSUME NEW k \in Keys, NEW n \in Nat \ {0}
             PROVE  Cardinality(Holders(k, n)') <= Cardinality(Reached(k, n)')
  BY DEF SharedByReached
<1>1. /\ Holders(k, n) \in SUBSET Callers /\ Holders(k, n)' \in SUBSET Callers
      /\ Reached(k, n) \in SUBSET Callers /\ Reached(k, n)' \in SUBSET Callers
  BY DEF Holders, Reached
<1>2. Cardinality(Holders(k, n)) <= Cardinality(Reached(k, n))
  BY DEF SharedByReached
<1>3. QED
  BY <1>1, <1>2, OneEach

\* A number given by a document that has just reached it.
LEMMA NumberingShares ==
  ASSUME IInv, SInv, NEW c \in Callers, NEW d \in Callers, NEW v \in Nat, NEW n0 \in Nat,
         key[c] \in Keys, counter[key[c]][d] = v, number[c] = 0, n0 \in {0, v + 1},
         counter' = [counter EXCEPT ![key[c]][d] = v + 1],
         number' = [number EXCEPT ![c] = n0], key' = key
  PROVE  SharedByReached'
<1>1. ASSUME NEW k \in Keys, NEW n \in Nat \ {0}
      PROVE  /\ Reached(k, n) \subseteq Reached(k, n)'
             /\ \/ Holders(k, n)' \subseteq Holders(k, n)
                \/ \E b \in Callers, e \in Reached(k, n)' \ Reached(k, n) :
                     Holders(k, n)' \subseteq Holders(k, n) \cup {b}
  <2>1. \A e \in Callers : counter[k][e] \in Nat /\ counter'[k][e] \in Nat /\ counter'[k][e] >= counter[k][e]
    BY DEF IInv, TypeOK
  <2>2. Reached(k, n) \subseteq Reached(k, n)'
    BY <2>1 DEF Reached
  <2>3. Holders(k, n)' \subseteq Holders(k, n) \cup {c}
    BY DEF Holders, IInv, TypeOK
  <2>4. CASE k = key[c] /\ n = v + 1
    <3>1. d \in Reached(k, n)' \ Reached(k, n)
      BY <2>4 DEF Reached, IInv, TypeOK
    <3>2. QED
      BY <2>2, <2>3, <3>1
  <2>5. CASE ~ (k = key[c] /\ n = v + 1)
    <3>1. c \notin Holders(k, n)'
      BY <2>5 DEF Holders, IInv, TypeOK
    <3>2. QED
      BY <2>2, <2>3, <3>1
  <2>6. QED
    BY <2>4, <2>5
<1>2. QED
  BY <1>1, SharedStep DEF SInv

\* A step that gives no number and touches no document.
LEMMA NothingShared ==
  ASSUME SInv, counter' = counter,
         \A k \in Keys, n \in Nat \ {0} : Holders(k, n)' \subseteq Holders(k, n)
  PROVE  SharedByReached'
<1>1. \A k \in Keys, n \in Nat \ {0} : Reached(k, n)' = Reached(k, n)
  BY DEF Reached
<1>2. QED
  BY <1>1, SharedStep DEF SInv

\* At the start nothing is numbered.
LEMMA InitSInv == Init => SInv
<1> SUFFICES ASSUME Init PROVE SInv
  OBVIOUS
<1>1. ASSUME NEW k \in Keys, NEW n \in Nat \ {0}
      PROVE  Cardinality(Holders(k, n)) <= Cardinality(Reached(k, n))
  <2>1. Holders(k, n) = {} /\ Reached(k, n) = {}
    BY DEF Init, Holders, Reached
  <2>2. QED
    BY <2>1, FS_EmptySet
<1>2. DocumentComesLast
  BY DEF Init, DocumentComesLast
<1>3. QED
  BY <1>1, <1>2 DEF SInv, SharedByReached

\* Every step keeps the count of the holders within that of the documents.
LEMMA NextKeepsSInv == IInv /\ SInv /\ [Next]_vars => SInv'
<1> SUFFICES ASSUME IInv, SInv, [Next]_vars PROVE SInv'
  OBVIOUS
<1>1. ASSUME NEW c \in Callers, Begin(c) PROVE SInv'
  <2>1. /\ number' = number /\ counter' = counter /\ number[c] = 0
        /\ \A d \in Callers \ {c} : key'[d] = key[d]
    BY <1>1 DEF Begin, IInv, TypeOK, NumberComesLast
  <2>2. \A k \in Keys, n \in Nat \ {0} : Holders(k, n)' \subseteq Holders(k, n)
    BY <2>1 DEF Holders
  <2>3. DocumentComesLast'
    BY <1>1, <2>1 DEF Begin, Goes, IInv, TypeOK, SInv, DocumentComesLast
  <2>4. QED
    BY <2>1, <2>2, <2>3, NothingShared DEF SInv
<1>2. ASSUME NEW c \in Callers, FindOneAndUpdate(c) PROVE SInv'
  <2>1. key' = key /\ key[c] \in Keys /\ number[c] = 0 /\ at[c] = "find"
    BY <1>2 DEF FindOneAndUpdate, IInv, TypeOK, NumberComesLast
  <2>2. CASE UNCHANGED <<counter, number>>
    <3>1. \A k \in Keys, n \in Nat \ {0} : Holders(k, n)' \subseteq Holders(k, n)
      BY <2>1, <2>2 DEF Holders
    <3>2. DocumentComesLast'
      BY <1>2, <2>1, <2>2 DEF FindOneAndUpdate, Goes, Ends, IInv, TypeOK, SInv, DocumentComesLast
    <3>3. QED
      BY <2>2, <3>1, <3>2, NothingShared DEF SInv
  <2>3. ASSUME NEW d \in Documents(key[c]), NEW outcome \in Outcomes,
               counter' = [counter EXCEPT ![key[c]][d] = @ + 1],
               number' = [number EXCEPT ![c] = IF outcome = "ok" THEN counter[key[c]][d] + 1 ELSE 0],
               Ends(c, outcome, "numbered")
        PROVE  SInv'
    <3>1. d \in Callers /\ counter[key[c]][d] \in Nat /\ counter[key[c]][d] > 0
      BY <2>1 DEF Documents, IInv, TypeOK
    <3>2. counter' = [counter EXCEPT ![key[c]][d] = counter[key[c]][d] + 1]
      BY <2>1, <2>3, <3>1 DEF IInv, TypeOK
    <3>3. SharedByReached'
      <4> DEFINE v == counter[key[c]][d]
                 n0 == IF outcome = "ok" THEN v + 1 ELSE 0
      <4>1. v \in Nat /\ n0 \in Nat /\ n0 \in {0, v + 1} /\ counter[key[c]][d] = v
        BY <3>1
      <4>2. number' = [number EXCEPT ![c] = n0] /\ counter' = [counter EXCEPT ![key[c]][d] = v + 1]
        BY <2>3, <3>2
      <4> HIDE DEF v, n0
      <4>3. QED
        BY <2>1, <3>1, <4>1, <4>2, NumberingShares
    <3>4. ASSUME NEW e \in Callers, at'[e] \in {"idle", "find", "insert"}, NEW k \in Keys
          PROVE  counter'[k][e] = 0
      <4>1. e # c /\ at'[e] = at[e]
        BY <2>3, <3>4 DEF Ends, Goes, IInv, TypeOK
      <4>2. counter[k][e] = 0 /\ \A j \in Keys : counter[j][e] = 0
        BY <3>4, <4>1 DEF SInv, DocumentComesLast
      <4>3. e # d
        BY <2>1, <3>1, <4>2
      <4>4. QED
        BY <3>2, <4>2, <4>3 DEF IInv, TypeOK
    <3>5. QED
      BY <3>3, <3>4 DEF SInv, DocumentComesLast
  <2>4. QED
    BY <1>2, <2>2, <2>3 DEF FindOneAndUpdate
<1>3. ASSUME NEW c \in Callers, InsertCounter(c) PROVE SInv'
  <2>1. key' = key /\ key[c] \in Keys /\ number[c] = 0 /\ at[c] = "insert"
    BY <1>3 DEF InsertCounter, IInv, TypeOK, NumberComesLast
  <2>2. CASE UNCHANGED <<counter, number>>
    <3>1. \A k \in Keys, n \in Nat \ {0} : Holders(k, n)' \subseteq Holders(k, n)
      BY <2>1, <2>2 DEF Holders
    <3>2. DocumentComesLast'
      BY <1>3, <2>1, <2>2 DEF InsertCounter, Goes, Ends, IInv, TypeOK, SInv, DocumentComesLast
    <3>3. QED
      BY <2>2, <3>1, <3>2, NothingShared DEF SInv
  <2>3. ASSUME NEW outcome \in Outcomes,
               counter' = [counter EXCEPT ![key[c]][c] = 1],
               number' = [number EXCEPT ![c] = IF outcome = "ok" THEN 1 ELSE 0],
               Ends(c, outcome, "numbered")
        PROVE  SInv'
    <3>1. counter[key[c]][c] = 0
      BY <2>1 DEF SInv, DocumentComesLast
    <3>2. counter' = [counter EXCEPT ![key[c]][c] = 0 + 1]
      BY <2>3
    <3>3. SharedByReached'
      <4> DEFINE n0 == IF outcome = "ok" THEN 1 ELSE 0
      <4>1. n0 \in Nat /\ n0 \in {0, 0 + 1} /\ number' = [number EXCEPT ![c] = n0]
        BY <2>3
      <4> HIDE DEF n0
      <4>2. QED
        BY <2>1, <3>1, <3>2, <4>1, NumberingShares
    <3>4. DocumentComesLast'
      BY <2>1, <2>3 DEF Ends, Goes, IInv, TypeOK, SInv, DocumentComesLast
    <3>5. QED
      BY <3>3, <3>4 DEF SInv
  <2>4. QED
    BY <1>3, <2>2, <2>3 DEF InsertCounter
<1>4. CASE UNCHANGED <<counter, number, key>> /\ \A c \in Callers : at'[c] = at[c] \/ at'[c] \in {"done", "failed"}
  <2>1. \A k \in Keys, n \in Nat \ {0} : Holders(k, n)' \subseteq Holders(k, n)
    BY <1>4 DEF Holders
  <2>2. DocumentComesLast'
    BY <1>4 DEF SInv, DocumentComesLast
  <2>3. QED
    BY <1>4, <2>1, <2>2, NothingShared DEF SInv
<1>5. ASSUME NEW c \in Callers, InsertEntity(c) PROVE SInv'
  BY <1>4, <1>5 DEF InsertEntity, Ends, Goes, IInv, TypeOK
<1>6. CASE Midnight \/ AllEnded \/ UNCHANGED vars
  BY <1>4, <1>6 DEF Midnight, AllEnded, vars
<1>7. QED
  BY <1>1, <1>2, <1>3, <1>5, <1>6 DEF Next, Work

\* However many counter documents the first requests insert, a number goes to at
\* most as many requests as there are documents: for orders, to one.
THEOREM NumberedPerDocument == Spec => []SharedByDocuments
<1>1. IInv /\ SInv => SharedByDocuments
  <2> SUFFICES ASSUME IInv, SInv, NEW k \in Keys, NEW n \in {number[c] : c \in Callers} \ {0}
               PROVE  Cardinality(Holders(k, n)) <= Cardinality(Documents(k))
    BY DEF SharedByDocuments, Holders
  <2>1. n \in Nat \ {0}
    BY DEF IInv, TypeOK
  <2>2. Reached(k, n) \subseteq Documents(k) /\ Documents(k) \subseteq Callers
    BY <2>1 DEF Reached, Documents, IInv, TypeOK
  <2>3. Holders(k, n) \subseteq Callers
    BY DEF Holders
  <2>4. Cardinality(Holders(k, n)) <= Cardinality(Reached(k, n))
    BY <2>1 DEF SInv, SharedByReached
  <2>5. QED
    BY <2>2, <2>3, <2>4, OneEach
<1>2. QED
  BY <1>1, InitIInv, NextKeepsIInv, InitSInv, NextKeepsSInv, PTL DEF Spec

-----------------------------------------------------------------------------
(* The refinement.                                                         *)

\* Giving one request a number is a step, or a stutter, of the source of identifiers.
LEMMA NumberingIssues ==
  ASSUME IInv, IInv', NEW c \in Callers, number[c] = 0,
         \A d \in Callers \ {c} : number'[d] = number[d],
         key' = key, number' \in [Callers -> Nat]
  PROVE  [Unique!Next]_Issued
<1>1. CASE number'[c] = 0 \/ key[c] \notin Days
  BY <1>1 DEF Issued, IInv, TypeOK
<1>2. CASE number'[c] # 0 /\ key[c] \in Days
  <2>1. Issued[c] = NIL
    BY DEF Issued
  <2>2. Issued'[c] = <<number'[c], key[c]>> /\ Issued'[c] \in Ids
    BY <1>2 DEF Issued, Ids, IInv, TypeOK
  <2>3. ASSUME NEW d \in Callers PROVE Issued'[c] # Issued[d]
    <3>1. CASE number[d] = 0 \/ key[d] \notin Days
      <4>1. NIL \notin Nat \X Nat /\ <<number'[c], key[c]>> \in Nat \X Nat
        BY <1>2, CounterAssumption DEF IInv, TypeOK, Days
      <4>2. QED
        BY <2>2, <3>1, <4>1 DEF Issued
    <3>2. CASE number[d] # 0 /\ key[d] \in Days
      <4>1. d # c /\ number'[d] = number[d] /\ key'[d] = key[d]
        BY <3>2
      <4>2. number'[c] # number[d] \/ key[c] # key[d]
        BY <1>2, <4>1, <3>2 DEF IInv, NumbersDistinct
      <4>3. Issued[d] = <<number[d], key[d]>>
        BY <3>2 DEF Issued
      <4>4. QED
        BY <2>2, <4>2, <4>3
    <3>3. QED
      BY <3>1, <3>2
  <2>4. Issued' = [Issued EXCEPT ![c] = Issued'[c]]
    <3>1. \A d \in Callers \ {c} : Issued'[d] = Issued[d]
      BY DEF Issued
    <3>2. Issued' = [d \in Callers |-> Issued'[d]] /\ Issued = [d \in Callers |-> Issued[d]]
      BY DEF Issued
    <3>3. QED
      BY <3>1, <3>2
  <2>5. Unique!Issue(c)
    BY <2>1, <2>2, <2>3, <2>4 DEF Unique!Issue
  <2>6. QED
    BY <2>5 DEF Unique!Next
<1>3. QED
  BY <1>1, <1>2

\* The orders' counters are a source of identifiers that are never issued twice.
THEOREM CountersIssueUniqueIds == Spec => IssuesUniqueIds
<1>1. Init => Unique!Init
  BY DEF Init, Unique!Init, Issued
<1>2. IInv /\ IInv' /\ [Next]_vars => [Unique!Next]_Issued
  <2> SUFFICES ASSUME IInv, IInv', [Next]_vars PROVE [Unique!Next]_Issued
    OBVIOUS
  <2>1. ASSUME NEW c \in Callers, Begin(c) PROVE Issued' = Issued
    <3>1. number' = number /\ number[c] = 0 /\ \A d \in Callers \ {c} : key'[d] = key[d]
      BY <2>1 DEF Begin, IInv, TypeOK, NumberComesLast
    <3>2. QED
      BY <3>1 DEF Issued
  <2>2. ASSUME NEW c \in Callers, FindOneAndUpdate(c) \/ InsertCounter(c)
        PROVE  [Unique!Next]_Issued
    <3>1. number[c] = 0 /\ key' = key
      BY <2>2 DEF FindOneAndUpdate, InsertCounter, IInv, NumberComesLast
    <3>2. \A d \in Callers \ {c} : number'[d] = number[d]
      BY <2>2 DEF FindOneAndUpdate, InsertCounter, IInv, TypeOK
    <3>3. number' \in [Callers -> Nat]
      BY DEF IInv, TypeOK
    <3>4. QED
      BY <3>1, <3>2, <3>3, NumberingIssues
  <2>3. CASE UNCHANGED <<number, key>>
    BY <2>3 DEF Issued
  <2>4. QED
    BY <2>1, <2>2, <2>3 DEF Next, Work, InsertEntity, Midnight, AllEnded, vars
<1>3. QED
  BY <1>1, <1>2, InitIInv, NextKeepsIInv, PTL DEF Spec, IssuesUniqueIds, Unique!Spec
=============================================================================
