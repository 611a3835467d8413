----------------------------- MODULE IdCounter -----------------------------
(***************************************************************************)
(* The identifiers of orders and of MSB virtual accounts.                  *)
(*                                                                         *)
(* Both count in a MongoDB document: FindOneAndUpdate adds one to it, and  *)
(* when there is no document yet InsertOne makes one that starts at 1.     *)
(* Orders have a document per day, under a unique index on date.  MSB      *)
(* accounts have a single document and no index.  The two calls of a       *)
(* request are two steps, so requests meet between them.                   *)
(***************************************************************************)
EXTENDS Integers, Sequences, FiniteSets

CONSTANTS
  Callers,    \* the requests that need an identifier
  NIL,
  OrderPrefix,      \* what the identifiers of orders start with
  AccountPrefixes,  \* the merchants' prefixes of account numbers
  Base,       \* the base numbers are written in; 10
  Width,      \* LenID, MSBLenID: numbers are padded to this length
  Outcomes,   \* how a call to MongoDB may end: "ok", "err" without effect, "lost" with
  MaxDay      \* bound on the clock

ASSUME CounterAssumption ==
  /\ IsFiniteSet(Callers)
  /\ Base \in Nat /\ Base > 1 /\ Width \in Nat
  /\ "ok" \in Outcomes /\ Outcomes \subseteq {"ok", "err", "lost"}
  /\ MaxDay \in Nat
  /\ NIL \notin AccountPrefixes /\ NIL # OrderPrefix /\ NIL \notin Nat \X Nat

VARIABLES
  today,     \* the clock
  counter,   \* counter[k][c]: the value of the document that c inserted for key k, 0 for none
  at,        \* at[c]: where request c is
  key,       \* key[c]: the date c read off the clock, or AccountKey
  prefix,    \* prefix[c]: the prefix c asked for
  number,    \* number[c]: the number c was given, 0 for none
  stored     \* stored[c]: is c's order, or account, in the database?

vars == <<today, counter, at, key, prefix, number, stored>>

Days == 0 .. MaxDay

\* The key of the document that counts the accounts.
AccountKey == MaxDay + 1
Keys == Days \cup {AccountKey}

Init ==
  /\ today = 0
  /\ counter = [k \in Keys |-> [c \in Callers |-> 0]]
  /\ at = [c \in Callers |-> "idle"]
  /\ key = [c \in Callers |-> 0]
  /\ prefix = [c \in Callers |-> NIL]
  /\ number = [c \in Callers |-> 0]
  /\ stored = [c \in Callers |-> FALSE]

\* The requests whose counter document is there for key k.
Documents(k) == {c \in Callers : counter[k][c] > 0}

Goes(c, place) == at' = [at EXCEPT ![c] = place]

\* A call of c with outcome ok moves it on to place; any other ends the request.
Ends(c, outcome, place) == Goes(c, IF outcome = "ok" THEN place ELSE "failed")

-----------------------------------------------------------------------------
(* One request.                                                            *)

\* An order reads the date once, before the first call.
Begin(c) ==
  /\ at[c] = "idle"
  /\ \/ /\ key' = [key EXCEPT ![c] = today]
        /\ prefix' = [prefix EXCEPT ![c] = OrderPrefix]
     \/ /\ key' = [key EXCEPT ![c] = AccountKey]
        /\ \E p \in AccountPrefixes : prefix' = [prefix EXCEPT ![c] = p]
  /\ Goes(c, "find")
  /\ UNCHANGED <<today, counter, number, stored>>

\* Mutant: the document is read before it is incremented (ReturnDocument: Before).
FindReturnsBefore(c) ==
  /\ at[c] = "find"
  /\ \/ /\ Documents(key[c]) = {}
        /\ Goes(c, "insert")
        /\ UNCHANGED <<counter, number>>
     \/ \E d \in Documents(key[c]) :
          /\ counter' = [counter EXCEPT ![key[c]][d] = @ + 1]
          /\ number' = [number EXCEPT ![c] = counter[key[c]][d]]
          /\ Goes(c, "numbered")
  /\ UNCHANGED <<today, key, prefix, stored>>

\* MongoDB updates one of the documents that match, whichever it finds first.
FindOneAndUpdate(c) ==
  /\ at[c] = "find"
  /\ \/ /\ Documents(key[c]) = {}
        /\ Goes(c, "insert")
        /\ UNCHANGED <<counter, number>>
     \/ /\ "err" \in Outcomes
        /\ Goes(c, "failed")
        /\ UNCHANGED <<counter, number>>
     \/ \E d \in Documents(key[c]), outcome \in Outcomes \ {"err"} :
          /\ counter' = [counter EXCEPT ![key[c]][d] = @ + 1]
          /\ number' = [number EXCEPT ![c] = IF outcome = "ok" THEN counter[key[c]][d] + 1 ELSE 0]
          /\ Ends(c, outcome, "numbered")
  /\ UNCHANGED <<today, key, prefix, stored>>

\* Mutant: the index on date is not unique.
InsertWithoutIndex(c) ==
  /\ at[c] = "insert"
  /\ counter' = [counter EXCEPT ![key[c]][c] = 1]
  /\ number' = [number EXCEPT ![c] = 1]
  /\ Goes(c, "numbered")
  /\ UNCHANGED <<today, key, prefix, stored>>

\* The unique index refuses a second document for the day: the request fails.
InsertCounter(c) ==
  /\ at[c] = "insert"
  /\ \/ /\ \/ "err" \in Outcomes
           \/ key[c] \in Days /\ Documents(key[c]) # {}
        /\ Goes(c, "failed")
        /\ UNCHANGED <<counter, number>>
     \/ /\ key[c] \in Days => Documents(key[c]) = {}
        /\ \E outcome \in Outcomes \ {"err"} :
             /\ counter' = [counter EXCEPT ![key[c]][c] = 1]
             /\ number' = [number EXCEPT ![c] = IF outcome = "ok" THEN 1 ELSE 0]
             /\ Ends(c, outcome, "numbered")
  /\ UNCHANGED <<today, key, prefix, stored>>

\* Create and CreateVA insert the order, or the account, under its identifier.
\* Neither has a unique index.
InsertEntity(c) ==
  /\ at[c] = "numbered"
  /\ \E outcome \in Outcomes :
       /\ stored' = [stored EXCEPT ![c] = outcome # "err"]
       /\ Ends(c, outcome, "done")
  /\ UNCHANGED <<today, counter, key, prefix, number>>

Midnight ==
  /\ today < MaxDay
  /\ today' = today + 1
  /\ UNCHANGED <<counter, at, key, prefix, number, stored>>

AllEnded ==
  /\ today = MaxDay
  /\ \A c \in Callers : at[c] \in {"done", "failed"}
  /\ UNCHANGED vars

Work(c) == FindOneAndUpdate(c) \/ InsertCounter(c) \/ InsertEntity(c)

Next ==
  \/ \E c \in Callers : Begin(c) \/ Work(c)
  \/ Midnight
  \/ AllEnded

Spec == Init /\ [][Next]_vars

-----------------------------------------------------------------------------
(* The identifier is a string: prefix, an order's date, and the number in  *)
(* digits with zeros in front of it.                                       *)

Digits[n \in Nat] == IF n < Base THEN <<n>> ELSE Append(Digits[n \div Base], n % Base)

\* Mutant: no zeros in front.
Unpadded(n) == Digits[n]

Padded(n) ==
  LET digits == Digits[n]
      gt == Width - Len(digits)
  IN IF gt > 0 THEN [k \in 1 .. gt |-> 0] \o digits ELSE digits

Identifier(c) ==
  prefix[c] \o (IF key[c] \in Days THEN <<key[c]>> ELSE <<>>) \o Padded(number[c])

Fits(n) == Len(Digits[n]) <= Width

-----------------------------------------------------------------------------
(* Properties.                                                             *)

TypeOK ==
  /\ today \in Days
  /\ counter \in [Keys -> [Callers -> Nat]]
  /\ at \in [Callers -> {"idle", "find", "insert", "numbered", "done", "failed"}]
  /\ key \in [Callers -> Keys]
  /\ prefix \in [Callers -> AccountPrefixes \cup {OrderPrefix, NIL}]
  /\ number \in [Callers -> Nat]
  /\ stored \in [Callers -> BOOLEAN]

\* Two orders never get the same number on the same day, however the first
\* requests of the day meet and whichever replies are lost.
NumbersDistinct ==
  \A c, d \in Callers :
    number[c] # 0 /\ number[c] = number[d] /\ key[c] = key[d] /\ key[c] \in Days => c = d

\* Without the index the first requests may each insert a counter document; a
\* number is then given to as many requests as there are documents, not more.
SharedByDocuments ==
  \A k \in Keys : \A n \in {number[c] : c \in Callers} \ {0} :
    Cardinality({c \in Callers : number[c] = n /\ key[c] = k}) <= Cardinality(Documents(k))

\* Different numbers or days make different strings: for orders also once the
\* numbers have outgrown LenID, for accounts, of whichever merchants, while they
\* fit MSBLenID.
IdentifiersApart ==
  \A c, d \in Callers :
    /\ number[c] # 0 /\ number[d] # 0 /\ <<number[c], key[c]>> # <<number[d], key[d]>>
    /\ \/ {key[c], key[d]} \subseteq Days
       \/ key[c] = AccountKey /\ key[d] = AccountKey /\ Fits(number[c]) /\ Fits(number[d])
    => Identifier(c) # Identifier(d)

\* What orders are given, as identifiers of UniqueIds.
Ids == (Nat \ {0}) \X Days
Issued ==
  [c \in Callers |->
     IF number[c] # 0 /\ key[c] \in Days THEN <<number[c], key[c]>> ELSE NIL]

Unique == INSTANCE UniqueIds WITH issued <- Issued

\* The counters of the orders implement the abstract source of identifiers.
IssuesUniqueIds == Unique!Spec
=============================================================================
