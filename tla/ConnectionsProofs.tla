-------------------------- MODULE ConnectionsProofs --------------------------
(***************************************************************************)
(* What survives the connections that share the database file, for any     *)
(* number of them, of rows, movements and lines, and whatever the exports  *)
(* hold: filings stand under the races of the handlers; imports of bank    *)
(* statements lose and double nothing but by a copy put back over others'  *)
(* commits; imports of a provider's history book what they took, let       *)
(* answers stand and leave nothing undeclared in a closed quarter.         *)
(***************************************************************************)
EXTENDS Connections, FiniteSetTheorems, WellFoundedInduction, TLAPS

LEMMA NatHasMinimum ==
    ASSUME NEW S \in SUBSET Nat, S # {}
    PROVE  \E x \in S : \A y \in S : x =< y
<1> DEFINE R == {ss \in Nat \X Nat : ss[1] < ss[2]}
<1>1. IsWellFoundedOn(R, Nat)
  BY NatLessThanWellFounded DEF OpToRel
<1>2. PICK x \in S : \A y \in S : ~ (<<y, x>> \in R)
  BY <1>1, WFMin
<1>3. ASSUME NEW y \in S PROVE x =< y
  <2>1. <<y, x>> \in Nat \X Nat /\ ~(<<y, x>> \in R)
    BY <1>2
  <2>2. ~(y < x)
    BY <2>1
  <2> QED BY <2>2
<1> QED BY <1>3

\* Min picks the least number of a set.
LEMMA MinIsLeast ==
    ASSUME NEW S \in SUBSET Nat, S # {}
    PROVE  Min(S) \in S /\ \A y \in S : Min(S) =< y
BY NatHasMinimum DEF Min

-----------------------------------------------------------------------------
(* The handlers: what one may hold between its read and its write *)

\* What a handler may hold between its read and its write, and the part of
\* its checks that no other handler can make untrue: nothing takes the
\* quarter back to open.
Sound(h) ==
    /\ h.op \in {"transition", "party"} => h.read.version < MaxVersion
    /\ h.op = "transition" => h.to \in {"approved", "posted", "rejected", "void"}
    /\ h.op \in {"amend", "file"} => quarter # "open"

PendingSound == \A c \in Connection : pending[c] # Idle => Sound(pending[c])

RaceIInv == TypeOK /\ PendingSound /\ FiledIsClosed

-----------------------------------------------------------------------------

\* The statuses a row of this module takes.
RowStatus == {"needs_review", "approved", "posted", "included_in_snapshot", "rejected", "void"}

\* The two column updates that handlers write leave a row a row.
LEMMA RowUpdates ==
    ASSUME NEW row \in Row, NEW v \in 1..MaxVersion
    PROVE  /\ \A s \in RowStatus : [row EXCEPT !.status = s, !.version = v] \in Row
           /\ \A p \in Party : [row EXCEPT !.party = p, !.version = v] \in Row
<1>r. \A r \in Row : /\ \A s \in RowStatus : [r EXCEPT !.status = s] \in Row
                     /\ \A p \in Party : [r EXCEPT !.party = p] \in Row
  BY DEF Row, RowStatus
<1>v. \A r \in Row : [r EXCEPT !.version = v] \in Row
  BY DEF Row
<1>1. ASSUME NEW s \in RowStatus PROVE [row EXCEPT !.status = s, !.version = v] \in Row
  <2> DEFINE moved == [row EXCEPT !.status = s]
  <2>1. moved \in Row
    BY <1>r
  <2>2. [row EXCEPT !.status = s, !.version = v] = [moved EXCEPT !.version = v]
    BY DEF Row
  <2> QED BY <1>v, <2>1, <2>2
<1>2. ASSUME NEW p \in Party PROVE [row EXCEPT !.party = p, !.version = v] \in Row
  <2> DEFINE renamed == [row EXCEPT !.party = p]
  <2>1. renamed \in Row
    BY <1>r
  <2>2. [row EXCEPT !.party = p, !.version = v] = [renamed EXCEPT !.version = v]
    BY DEF Row
  <2> QED BY <1>v, <2>1, <2>2
<1> QED BY <1>1, <1>2

\* Every handler that begins is sound at its read.
LEMMA ReadHandler ==
    ASSUME TypeOK, NEW c \in Connection, Read(c)
    PROVE  \E h \in Handler : Begin(c, h) /\ Sound(h)
<1>r. \A t \in Transaction : rows[t] \in Row
  BY DEF TypeOK
<1>1. ASSUME NEW t \in Transaction, NEW s \in {"approved", "posted", "rejected", "void"},
             ReadTransition(c, t, s)
      PROVE  \E h \in Handler : Begin(c, h) /\ Sound(h)
  <2> DEFINE h == [op |-> "transition", of |-> t, read |-> rows[t], to |-> s]
  <2>1. Begin(c, h) /\ rows[t].version < MaxVersion
    BY <1>1 DEF ReadTransition, Fresh
  <2>2. s \in Status
    BY DEF Status, Unposted, Booked, Terminal
  <2>3. h \in Handler
    BY <1>r, <2>2 DEF Handler
  <2> QED BY <2>1, <2>3 DEF Sound
<1>2. ASSUME NEW t \in Transaction, NEW party \in Party, ReadCounterparty(c, t, party)
      PROVE  \E h \in Handler : Begin(c, h) /\ Sound(h)
  <2> DEFINE h == [op |-> "party", of |-> t, read |-> rows[t], to |-> party]
  <2>1. Begin(c, h) /\ rows[t].version < MaxVersion
    BY <1>2 DEF ReadCounterparty, Fresh
  <2>2. h \in Handler
    BY <1>r DEF Handler
  <2> QED BY <2>1, <2>2 DEF Sound
<1>3. CASE ReadClose(c)
  BY <1>3 DEF ReadClose, Handler, Sound
<1>4. CASE ReadAmend(c)
  BY <1>4 DEF ReadAmend, Handler, Sound
<1>5. CASE ReadFile(c)
  BY <1>5 DEF ReadFile, FilingAllowed, Handler, Sound
<1> QED BY <1>1, <1>2, <1>3, <1>4, <1>5 DEF Read

\* The handlers left at work are still sound when a step keeps a closed quarter closed.
LEMMA OthersSound ==
    ASSUME PendingSound, quarter # "open" => quarter' # "open", NEW c \in Connection,
           pending \in [Connection -> Handler \cup {Idle}],
           pending' = [pending EXCEPT ![c] = Idle]
    PROVE  PendingSound'
BY DEF PendingSound, Sound

\* What a write leaves in a row.
LEMMA WriteTyped ==
    ASSUME RaceIInv, NEW c \in Connection, Write(c) PROVE rows' \in [Transaction -> Row]
<1> DEFINE h == pending[c]
<1>m. MaxVersion \in Nat
  BY RaceAssumption DEF RaceAssumption
<1>r. rows \in [Transaction -> Row] /\ \A t \in Transaction : rows[t] \in Row
  BY DEF RaceIInv, TypeOK
<1>h. ~Free(c) => h \in Handler /\ Sound(h)
  BY DEF RaceIInv, TypeOK, PendingSound, Free
<1>1. CASE WriteTransition(c)
  <2>1. h.of \in Transaction /\ h.read \in Row /\ h.read.version < MaxVersion
        /\ h.to \in {"approved", "posted", "rejected", "void"}
    BY <1>1, <1>h DEF WriteTransition, Handler, Sound
  <2>2. [status |-> h.to, party |-> h.read.party, version |-> h.read.version + 1] \in Row
    BY <1>m, <2>1 DEF Row
  <2> QED BY <1>1, <1>r, <2>1, <2>2 DEF WriteTransition
<1>2. CASE WriteCounterparty(c)
  <2>1. h.of \in Transaction /\ h.read \in Row /\ h.read.version < MaxVersion /\ h.to \in Party
    BY <1>2, <1>h DEF WriteCounterparty, Handler, Sound
  <2>v. h.read.version + 1 \in 1..MaxVersion
    BY <1>m, <2>1 DEF Row
  <2>2. [rows[h.of] EXCEPT !.party = h.to, !.version = h.read.version + 1] \in Row
    BY <1>r, <2>1, <2>v, RowUpdates
  <2>3. rows' = [rows EXCEPT ![h.of] = [rows[h.of] EXCEPT !.party = h.to,
                                                          !.version = h.read.version + 1]]
    BY <1>2, <1>r, <2>1 DEF WriteCounterparty, Row
  <2> QED BY <1>r, <2>1, <2>2, <2>3
<1>3. CASE WriteFile(c)
  <2>1. ASSUME NEW t \in Transaction PROVE
          (IF rows[t].status = "posted"
           THEN [rows[t] EXCEPT !.status = "included_in_snapshot", !.version = @ + 1]
           ELSE rows[t]) \in Row
    <3>1. rows[t].status = "posted" => rows[t].version < MaxVersion
      BY <1>3 DEF WriteFile, Fresh
    <3>2. rows[t] \in Row
      BY <1>r
    <3>3. rows[t].status = "posted" => rows[t].version + 1 \in 1..MaxVersion
      BY <1>m, <3>1, <3>2 DEF Row
    <3>4. "included_in_snapshot" \in RowStatus
      BY DEF RowStatus
    <3> QED BY <3>2, <3>3, <3>4, RowUpdates
  <2> QED BY <1>3, <2>1 DEF WriteFile
<1>4. CASE WriteClose(c) \/ WriteAmend(c)
  BY <1>4, <1>r DEF WriteClose, WriteAmend
<1> QED BY <1>1, <1>2, <1>3, <1>4 DEF Write

\* A row becomes included only by a filing.
LEMMA IncludedOnlyByFiling ==
    ASSUME RaceIInv, NEW c \in Connection, Write(c), ~WriteFile(c),
           NEW t \in Transaction, rows'[t].status = "included_in_snapshot"
    PROVE  rows[t].status = "included_in_snapshot"
<1> DEFINE h == pending[c]
<1>r. rows \in [Transaction -> Row] /\ rows[t] \in Row
  BY DEF RaceIInv, TypeOK
<1>h. ~Free(c) => h \in Handler /\ Sound(h)
  BY DEF RaceIInv, TypeOK, PendingSound, Free
<1>1. CASE WriteTransition(c)
  <2>1. h.to # "included_in_snapshot"
    BY <1>1, <1>h DEF WriteTransition, Sound
  <2> QED BY <1>1, <1>r, <2>1 DEF WriteTransition
<1>2. CASE WriteCounterparty(c)
  BY <1>2, <1>r DEF WriteCounterparty, Row
<1>3. CASE WriteClose(c) \/ WriteAmend(c)
  BY <1>3 DEF WriteClose, WriteAmend
<1> QED BY <1>1, <1>2, <1>3 DEF Write

\* A write keeps the invariant.
LEMMA WriteKeeps == ASSUME RaceIInv, NEW c \in Connection, Write(c) PROVE RaceIInv'
<1>p. pending' = [pending EXCEPT ![c] = Idle] /\ pending \in [Connection -> Handler \cup {Idle}]
  BY DEF RaceIInv, TypeOK, Write, WriteTransition, WriteCounterparty, WriteClose, WriteAmend, WriteFile
<1>q. /\ quarter' \in {"open", "closed", "amended"}
      /\ quarter # "open" => quarter' # "open"
      /\ filed' \in BOOLEAN /\ (filed => filed')
  BY DEF RaceIInv, TypeOK, Write, WriteTransition, WriteCounterparty, WriteClose, WriteAmend, WriteFile
<1>1. TypeOK'
  BY <1>p, <1>q, WriteTyped DEF TypeOK
<1>2. PendingSound'
  BY <1>p, <1>q, OthersSound DEF RaceIInv
<1>3. FiledIsClosed'
  <2>1. CASE WriteFile(c)
    <3>1. Sound(pending[c]) /\ pending[c].op = "file"
      BY <2>1 DEF RaceIInv, PendingSound, WriteFile, Free
    <3> QED BY <2>1, <3>1 DEF WriteFile, Sound, FiledIsClosed
  <2>2. CASE ~WriteFile(c)
    <3>1. filed' = filed
      BY <2>2 DEF Write, WriteTransition, WriteCounterparty, WriteClose, WriteAmend
    <3> QED BY <1>q, <2>2, <3>1, IncludedOnlyByFiling DEF RaceIInv, FiledIsClosed
  <2> QED BY <2>1, <2>2
<1> QED BY <1>1, <1>2, <1>3 DEF RaceIInv

\* A handler that begins keeps the invariant.
LEMMA ReadKeeps == ASSUME RaceIInv, NEW c \in Connection, Read(c) PROVE RaceIInv'
<1>1. PICK h \in Handler : Begin(c, h) /\ Sound(h)
  BY ReadHandler DEF RaceIInv
<1>2. TypeOK'
  BY <1>1 DEF RaceIInv, TypeOK, Begin
<1>3. PendingSound'
  BY <1>1 DEF RaceIInv, TypeOK, Begin, PendingSound, Sound
<1>4. FiledIsClosed'
  BY <1>1 DEF RaceIInv, FiledIsClosed, Begin
<1> QED BY <1>2, <1>3, <1>4 DEF RaceIInv

\* A packet decision keeps the invariant.
LEMMA PacketKeeps ==
    ASSUME RaceIInv, NEW c \in Connection, NEW t \in Transaction, NEW s \in {"approved", "rejected"},
           DecidePacket(c, t, s)
    PROVE  RaceIInv'
<1>m. MaxVersion \in Nat
  BY RaceAssumption DEF RaceAssumption
<1>r. rows \in [Transaction -> Row] /\ rows[t] \in Row
  BY DEF RaceIInv, TypeOK
<1>1. [rows[t] EXCEPT !.status = s, !.version = @ + 1] \in Row
  BY <1>m, <1>r DEF DecidePacket, Fresh, Row
<1>2. rows' = [rows EXCEPT ![t] = [rows[t] EXCEPT !.status = s, !.version = @ + 1]]
  BY <1>r DEF DecidePacket, Row
<1>3. rows' \in [Transaction -> Row] /\ rows'[t].status = s
  BY <1>r, <1>1, <1>2 DEF Row
<1>4. \A u \in Transaction : u # t => rows'[u] = rows[u]
  BY <1>r, <1>2
<1>5. TypeOK'
  BY <1>3 DEF RaceIInv, TypeOK, DecidePacket
<1>6. PendingSound'
  BY DEF RaceIInv, PendingSound, Sound, DecidePacket
<1>7. FiledIsClosed'
  BY <1>3, <1>4 DEF RaceIInv, FiledIsClosed, DecidePacket
<1> QED BY <1>5, <1>6, <1>7 DEF RaceIInv

\* A handler that ends between its read and its write leaves nothing behind.
LEMMA AbandonKeeps == ASSUME RaceIInv, NEW c \in Connection, Abandon(c) PROVE RaceIInv'
<1>1. TypeOK'
  BY DEF RaceIInv, TypeOK, Abandon
<1>2. PendingSound'
  BY OthersSound DEF RaceIInv, TypeOK, Abandon
<1>3. FiledIsClosed'
  BY DEF RaceIInv, FiledIsClosed, Abandon
<1> QED BY <1>1, <1>2, <1>3 DEF RaceIInv

-----------------------------------------------------------------------------
(* The recursive function in Matches is what its equation says *)

LinesBelow(lines, n) == {k \in lines : k < n}
Candidates(lines, f, m) == (Fits[m] \cap Offered) \ {f[n] : n \in LinesBelow(lines, m)}
Choice(lines, f, m) ==
    IF Cardinality(Candidates(lines, f, m)) = 1
    THEN CHOOSE r \in Candidates(lines, f, m) : TRUE ELSE Unmatched
Solves(lines, f, n) == f = [m \in LinesBelow(lines, n) |-> Choice(lines, f, m)]

LEMMA ChoiceDepends ==
    ASSUME NEW lines, NEW f, NEW g, NEW m, \A k \in LinesBelow(lines, m) : f[k] = g[k]
    PROVE  Choice(lines, f, m) = Choice(lines, g, m)
<1>1. {f[n] : n \in LinesBelow(lines, m)} = {g[n] : n \in LinesBelow(lines, m)}
  OBVIOUS
<1>2. Candidates(lines, f, m) = Candidates(lines, g, m)
  BY <1>1 DEF Candidates
<1> QED BY <1>2 DEF Choice

\* Two solutions agree where both are defined.
LEMMA SolutionsAgree ==
    ASSUME NEW lines \in SUBSET Nat, NEW n \in Nat, NEW p \in Nat, n =< p,
           NEW f, NEW g, Solves(lines, f, n), Solves(lines, g, p)
    PROVE  \A m \in LinesBelow(lines, n) : f[m] = g[m]
<1> DEFINE Bad == {m \in LinesBelow(lines, n) : f[m] # g[m]}
<1> SUFFICES ASSUME Bad # {} PROVE FALSE
  OBVIOUS
<1>1. PICK m \in Bad : \A k \in Bad : m =< k
  BY NatHasMinimum DEF LinesBelow
<1>2. m \in LinesBelow(lines, n) /\ m \in LinesBelow(lines, p) /\ f[m] # g[m] /\ m \in Nat
  BY <1>1 DEF LinesBelow
<1>3. \A k \in LinesBelow(lines, m) : f[k] = g[k]
  <2> SUFFICES ASSUME NEW k \in LinesBelow(lines, m), f[k] # g[k] PROVE FALSE
    OBVIOUS
  <2>1. k \in Nat /\ k < m /\ k \in LinesBelow(lines, n)
    BY <1>2 DEF LinesBelow
  <2>2. k \in Bad
    BY <2>1
  <2> QED BY <1>1, <1>2, <2>1, <2>2
<1>4. f[m] = Choice(lines, f, m) /\ g[m] = Choice(lines, g, m)
  BY <1>2, Zenon DEF Solves
<1> QED BY <1>2, <1>3, <1>4, ChoiceDepends

\* There is a solution up to every line.
LEMMA SolutionsExist ==
    ASSUME NEW lines \in SUBSET Nat
    PROVE  \A n \in Nat : \E f : Solves(lines, f, n)
<1> DEFINE Bad == {n \in Nat : ~ \E f : Solves(lines, f, n)}
<1> SUFFICES ASSUME Bad # {} PROVE FALSE
  OBVIOUS
<1>1. PICK n \in Bad : \A k \in Bad : n =< k
  BY NatHasMinimum
<1>2. n # 0
  <2>1. LinesBelow(lines, 0) = {}
    <3>1. \A k \in lines : ~(k < 0)
      OBVIOUS
    <3> QED BY <3>1 DEF LinesBelow
  <2>2. Solves(lines, [m \in {} |-> m], 0)
    BY <2>1 DEF Solves
  <2> QED BY <1>1, <2>2
<1>3. n - 1 \in Nat /\ n - 1 < n
  BY <1>1, <1>2
<1>4. PICK f : Solves(lines, f, n - 1)
  BY <1>1, <1>3
<1> DEFINE g == [m \in LinesBelow(lines, n) |-> Choice(lines, f, m)]
<1>5. ASSUME NEW m \in LinesBelow(lines, n) PROVE g[m] = Choice(lines, g, m)
  <2>1. ASSUME NEW k \in LinesBelow(lines, m) PROVE f[k] = g[k]
    <3>1. k \in LinesBelow(lines, n - 1) /\ k \in LinesBelow(lines, n)
      BY <1>1, <1>3 DEF LinesBelow
    <3>2. f[k] = Choice(lines, f, k)
      BY <1>4, <3>1, Zenon DEF Solves
    <3> QED BY <3>1, <3>2
  <2>2. Choice(lines, f, m) = Choice(lines, g, m)
    <3> HIDE DEF g
    <3> QED BY <2>1, ChoiceDepends
  <2> QED BY <2>2
<1>6. g = [m \in LinesBelow(lines, n) |-> Choice(lines, g, m)]
  <2>1. g = [m \in LinesBelow(lines, n) |-> g[m]]
    OBVIOUS
  <2> HIDE DEF g
  <2> QED BY <1>5, <2>1
<1>7. Solves(lines, g, n)
  <2> HIDE DEF g
  <2> QED BY <1>6 DEF Solves
<1> QED BY <1>1, <1>7

\* What match_revolut_payments chooses for a line, given what it chose before.
LEMMA MatchesLineByLine ==
    ASSUME NEW lines \in SUBSET Nat
    PROVE  Matches(lines) = [m \in lines |-> Choice(lines, Matches(lines), m)]
<1> DEFINE part == [m \in Nat |-> CHOOSE f : Solves(lines, f, m)]
           whole == [m \in lines |-> Choice(lines, part[m], m)]
<1>1. \A m \in Nat : Solves(lines, part[m], m)
  BY SolutionsExist
<1>2. ASSUME NEW m \in lines, NEW k \in LinesBelow(lines, m) PROVE part[m][k] = whole[k]
  <2>1. m \in Nat /\ k \in Nat /\ k < m /\ k \in lines
    BY DEF LinesBelow
  <2>2. part[m][k] = Choice(lines, part[m], k)
    <3> HIDE DEF part
    <3>1. k \in LinesBelow(lines, m) /\ Solves(lines, part[m], m)
      BY <1>1, <2>1
    <3> QED BY <3>1, Zenon DEF Solves
  <2>3. \A j \in LinesBelow(lines, k) : part[k][j] = part[m][j]
    <3> HIDE DEF part, whole
    <3>1. Solves(lines, part[k], k) /\ Solves(lines, part[m], m) /\ k =< m
      BY <1>1, <2>1
    <3>2. ASSUME NEW f, NEW g, Solves(lines, f, k), Solves(lines, g, m)
          PROVE  \A j \in LinesBelow(lines, k) : f[j] = g[j]
      BY <2>1, <3>1, <3>2, SolutionsAgree
    <3> QED BY <3>1, <3>2, Zenon
  <2>4. Choice(lines, part[k], k) = Choice(lines, part[m], k)
    <3> HIDE DEF part
    <3> QED BY <2>3, ChoiceDepends
  <2> QED BY <2>1, <2>2, <2>4
<1>3. ASSUME NEW m \in lines PROVE whole[m] = Choice(lines, whole, m)
  <2>1. Choice(lines, part[m], m) = Choice(lines, whole, m)
    <3> HIDE DEF part, whole
    <3> QED BY <1>2, ChoiceDepends
  <2> QED BY <2>1
<1>4. whole = [m \in lines |-> Choice(lines, whole, m)]
  <2>1. whole = [m \in lines |-> whole[m]]
    OBVIOUS
  <2> HIDE DEF whole
  <2> QED BY <1>3, <2>1
<1>5. \E f : f = [m \in lines |-> Choice(lines, f, m)]
  <2> HIDE DEF whole
  <2> QED BY <1>4
<1>6. Matches(lines) = CHOOSE f : f = [m \in lines |-> Choice(lines, f, m)]
  BY DEF Matches, Choice, Candidates, LinesBelow
<1> QED BY <1>5, <1>6

\* The rows that lines are matched with were on offer, each for one line.
LEMMA MatchesAreOffered ==
    ASSUME NEW lines \in SUBSET Movement
    PROVE  /\ Matches(lines) \in [lines -> Journal \cup {Unmatched}]
           /\ \A m \in lines : Matches(lines)[m] \in Journal => Matches(lines)[m] \in Offered
           /\ \A m, n \in lines : Matches(lines)[m] \in Journal /\ Matches(lines)[m] = Matches(lines)[n] => m = n
<1> DEFINE f == Matches(lines)
<1>a. lines \in SUBSET Nat /\ Unmatched \notin Journal /\ Fits \in [Movement -> SUBSET Journal]
  BY StatementsAssumption DEF StatementsAssumption
<1>1. f = [m \in lines |-> Choice(lines, f, m)]
  BY <1>a, MatchesLineByLine
<1>2. ASSUME NEW m \in lines
      PROVE  f[m] = Unmatched \/ f[m] \in Candidates(lines, f, m)
  <2>1. f[m] = Choice(lines, f, m)
    BY <1>1
  <2>2. Cardinality(Candidates(lines, f, m)) = 1 => Candidates(lines, f, m) # {}
    <3>1. \A S : S = {} => Cardinality(S) # 1
      BY FS_EmptySet
    <3> QED BY <3>1
  <2> HIDE DEF f
  <2> QED BY <2>1, <2>2 DEF Choice
<1>3. ASSUME NEW m \in lines, f[m] \in Journal
      PROVE  f[m] \in Offered /\ \A n \in LinesBelow(lines, m) : f[n] # f[m]
  <2>1. f[m] \in Candidates(lines, f, m)
    BY <1>2, <1>3, <1>a
  <2> HIDE DEF f
  <2> QED BY <2>1 DEF Candidates
<1>4. \A m \in lines : f[m] \in Journal \cup {Unmatched}
  <2> HIDE DEF f
  <2> QED BY <1>2, <1>a DEF Candidates
<1>5. f \in [lines -> Journal \cup {Unmatched}]
  <2>1. f = [m \in lines |-> f[m]]
    BY <1>1
  <2> HIDE DEF f
  <2> QED BY <1>4, <2>1
<1>6. ASSUME NEW m \in lines, NEW n \in lines, f[m] \in Journal, f[m] = f[n]
      PROVE  m = n
  <2>1. ~(n < m) /\ ~(m < n)
    BY <1>3, <1>6 DEF LinesBelow
  <2> QED BY <1>a, <2>1
<1> QED BY <1>3, <1>5, <1>6
-----------------------------------------------------------------------------
(* What the imports rely on *)

Import ==
    [stage : {"claim", "match", "record", "sync", "stale", "failed"}, source : Source,
     file : SUBSET Movement, todo : SUBSET Movement,
     gone : SUBSET Movement, left : SUBSET Movement, asking : SUBSET Movement,
     match : UNION {[some -> Journal \cup {Unmatched}] : some \in SUBSET Movement},
     copy : Database, disturbed : BOOLEAN]

RecordedIn(d, source) == {m \in Movement : d.paid[source][m] # Absent}

\* A database that may be put back: a closed quarter misses only late lines.
Consistent(d) ==
    /\ d \in Database
    /\ d.closed => d.missing \subseteq d.late

ImportsTyped ==
    /\ Consistent(db)
    /\ importer \in [Importer -> Import \cup {NoImport}]
    /\ \A i \in AtWork :
          /\ Consistent(importer[i].copy)
          /\ importer[i].todo \subseteq importer[i].file
          /\ importer[i].stage = "record" => importer[i].todo \subseteq DOMAIN importer[i].match
          /\ importer[i].stage = "claim" => importer[i].source = "revolut"
          /\ importer[i].stage \in {"sync", "stale"} => importer[i].todo = {}
    /\ begun \in 0..MaxImports /\ reported \subseteq Source \X Movement

\* Nobody is at work beside an import that nobody disturbed.
UndisturbedIsAlone == \A i, j \in AtWork : ~importer[i].disturbed => j = i

Separate(d) == d.legacy \cap RecordedIn(d, "revolut") = {}
ReportedIn(d) == \A line \in reported : line[2] \in RecordedIn(d, line[1])

\* What imports took for recorded is recorded, in the copy of an undisturbed one too.
NothingLost ==
    ~erased =>
        /\ ReportedIn(db) /\ Separate(db)
        /\ \A i \in AtWork :
              /\ Separate(importer[i].copy)
              /\ ~importer[i].disturbed => ReportedIn(importer[i].copy)
              /\ importer[i].file \ importer[i].todo \subseteq RecordedIn(db, importer[i].source)
              /\ importer[i].source = "revolut" /\ importer[i].stage \in {"match", "record"}
                 => importer[i].todo \cap db.legacy = {}

OnceEach(d) ==
    \A s, z \in Source, m, n \in Movement :
        d.paid[s][m] \in Journal /\ d.paid[s][m] = d.paid[z][n] => s = z /\ m = n

\* The rows an import is about to settle are still on offer, each for one line.
MatchesStand(i) ==
    \A m \in importer[i].todo :
        importer[i].match[m] \in Journal =>
            /\ importer[i].match[m] \in Offered
            /\ \A n \in importer[i].todo : importer[i].match[n] = importer[i].match[m] => n = m

Recording == {i \in Importer : importer[i].stage = "record"}

MatchedOnce ==
    ~erased /\ ~crossed =>
        /\ OnceEach(db)
        /\ \A i \in AtWork : OnceEach(importer[i].copy)
        /\ \A i, j \in Recording : i = j
        /\ \A i \in Recording : MatchesStand(i)

\* What a close about to end, or an import that checked before it ended, may leave.
LateExcused ==
    /\ closing \in BOOLEAN
    /\ closing => db.missing \subseteq db.late
    /\ db.closed => Asking \subseteq db.late

StatementsIInv == ImportsTyped /\ UndisturbedIsAlone /\ NothingLost /\ MatchedOnce /\ LateExcused

-----------------------------------------------------------------------------
(* Records *)

LEMMA MatchingTyped ==
    ASSUME NEW lines \in SUBSET Movement, NEW f \in [lines -> Journal \cup {Unmatched}]
    PROVE  f \in UNION {[some -> Journal \cup {Unmatched}] : some \in SUBSET Movement}
<1>1. [lines -> Journal \cup {Unmatched}] \in {[some -> Journal \cup {Unmatched}] : some \in SUBSET Movement}
  OBVIOUS
<1> QED BY <1>1

LEMMA ImportUpdates ==
    ASSUME NEW x \in Import
    PROVE  /\ x.stage # "none"
           /\ \A s \in {"claim", "match", "record", "sync", "stale", "failed"} :
                 [x EXCEPT !.stage = s] \in Import
           /\ \A t \in SUBSET Movement : [x EXCEPT !.todo = t] \in Import
           /\ [x EXCEPT !.disturbed = TRUE] \in Import
BY DEF Import

\* A payment that is recorded changes nothing else.
WithPayment(d, s, m, v) == [d EXCEPT !.paid[s][m] = v]

LEMMA PaymentUpdates ==
    ASSUME NEW d \in Database, NEW s \in Source, NEW m \in Movement,
           NEW v \in Journal \cup {Unmatched}
    PROVE  /\ WithPayment(d, s, m, v) \in Database
           /\ WithPayment(d, s, m, v).legacy = d.legacy
           /\ WithPayment(d, s, m, v).missing = d.missing
           /\ WithPayment(d, s, m, v).closed = d.closed
           /\ WithPayment(d, s, m, v).late = d.late
           /\ \A z \in Source, n \in Movement :
                 WithPayment(d, s, m, v).paid[z][n] = IF z = s /\ n = m THEN v ELSE d.paid[z][n]
           /\ v # Absent
<1> DEFINE e == WithPayment(d, s, m, v)
<1>1. d.paid \in [Source -> [Movement -> Journal \cup {Absent, Unmatched}]]
  BY DEF Database
<1>2. e.paid = [d.paid EXCEPT ![s] = [d.paid[s] EXCEPT ![m] = v]]
  BY <1>1 DEF Database, WithPayment
<1>3. e.paid \in [Source -> [Movement -> Journal \cup {Absent, Unmatched}]]
  BY <1>1, <1>2
<1>4. e.legacy = d.legacy /\ e.missing = d.missing /\ e.closed = d.closed /\ e.late = d.late
  BY DEF Database, WithPayment
<1>5. e = [paid |-> e.paid, legacy |-> d.legacy, missing |-> d.missing, closed |-> d.closed,
            late |-> d.late]
  BY <1>4 DEF Database, WithPayment
<1>6. e \in Database
  BY <1>3, <1>5 DEF Database
<1>7. v # Absent
  BY StatementsAssumption DEF StatementsAssumption
<1> QED BY <1>1, <1>2, <1>4, <1>6, <1>7

-----------------------------------------------------------------------------
(* What a step leaves to the other imports *)

\* Importer j goes on where it was, at most disturbed.
Kept(j) ==
    /\ importer[j].stage = "none" => importer'[j] = importer[j]
    /\ importer[j].stage # "none" =>
          /\ importer'[j] \in Import
          /\ importer'[j].stage = importer[j].stage /\ importer'[j].source = importer[j].source
          /\ importer'[j].file = importer[j].file /\ importer'[j].todo = importer[j].todo
          /\ importer'[j].match = importer[j].match /\ importer'[j].copy = importer[j].copy
          /\ importer'[j].asking = importer[j].asking
          /\ importer[j].disturbed => importer'[j].disturbed

LEMMA OvertakenKept ==
    ASSUME ImportsTyped, NEW S, NEW j \in Importer
    PROVE  /\ importer'[j] = Overtaken(S)[j] => Kept(j)
           /\ importer'[j] = importer[j] => Kept(j)
           /\ j \in AtWork \cap S => Overtaken(S)[j].disturbed
<1>1. importer[j] \in Import \/ importer[j] = NoImport
  BY DEF ImportsTyped
<1>2. NoImport.stage = "none"
  BY DEF NoImport
<1>3. importer'[j] = importer[j] => Kept(j)
  BY <1>1, <1>2 DEF Kept
<1>4. ASSUME j \in AtWork \cap S
      PROVE  /\ Overtaken(S)[j] = [importer[j] EXCEPT !.disturbed = TRUE]
             /\ importer[j] \in Import
  BY <1>1, <1>2, <1>4 DEF Overtaken, AtWork
<1>5. j \notin AtWork \cap S => Overtaken(S)[j] = importer[j]
  BY DEF Overtaken
<1>6. ASSUME j \in AtWork \cap S, importer'[j] = Overtaken(S)[j]
      PROVE  Kept(j)
  <2>1. importer'[j] \in Import
    BY <1>4, <1>6, ImportUpdates
  <2>2. importer[j].stage # "none" /\ importer'[j] = [importer[j] EXCEPT !.disturbed = TRUE]
    BY <1>4, <1>6, ImportUpdates
  <2>3. /\ importer'[j].stage = importer[j].stage /\ importer'[j].source = importer[j].source
        /\ importer'[j].file = importer[j].file /\ importer'[j].todo = importer[j].todo
        /\ importer'[j].match = importer[j].match /\ importer'[j].copy = importer[j].copy
        /\ importer'[j].asking = importer[j].asking
        /\ importer'[j].disturbed
    BY <1>4, <2>2 DEF Import
  <2> QED BY <2>1, <2>2, <2>3 DEF Kept
<1>7. j \in AtWork \cap S => Overtaken(S)[j].disturbed
  BY <1>4 DEF Import
<1> QED BY <1>3, <1>5, <1>6, <1>7

\* Importer i goes on with its import, the others where they were.
Goes(i, import) ==
    /\ importer'[i] = import
    /\ \A j \in Importer \ {i} : Kept(j)
    /\ importer' = [j \in Importer |-> importer'[j]]

LEMMA StepGoes ==
    ASSUME ImportsTyped, NEW i \in Importer, NEW import, NEW d,
           Continues(i, import) \/ Commits(i, d, import)
    PROVE  Goes(i, import)
<1>0. importer = [j \in Importer |-> importer[j]]
  BY DEF ImportsTyped
<1>1. CASE Continues(i, import)
  <2>1. importer' = [importer EXCEPT ![i] = import]
    BY <1>1 DEF Continues
  <2>2. \A j \in Importer \ {i} : importer'[j] = importer[j]
    BY <1>0, <2>1
  <2> QED BY <1>0, <2>1, <2>2, OvertakenKept DEF Goes
<1>2. CASE Commits(i, d, import)
  <2> DEFINE S == IF d = db THEN {} ELSE Importer \ {i}
  <2>1. importer' = [Overtaken(S) EXCEPT ![i] = import]
    BY <1>2 DEF Commits
  <2>2. Overtaken(S) = [j \in Importer |-> Overtaken(S)[j]]
    BY DEF Overtaken
  <2> HIDE DEF S
  <2>3. \A j \in Importer \ {i} : importer'[j] = Overtaken(S)[j]
    BY <2>1, <2>2
  <2> QED BY <2>1, <2>2, <2>3, OvertakenKept DEF Goes
<1> QED BY <1>1, <1>2

\* What a step of one import has to show for each part of the invariant.
LEMMA TypedStep ==
    ASSUME ImportsTyped, NEW i \in Importer, NEW import \in Import \cup {NoImport}, Goes(i, import),
           Consistent(db'), begun' \in 0..MaxImports, reported' \subseteq Source \X Movement,
           import \in Import =>
              /\ Consistent(import.copy) /\ import.todo \subseteq import.file
              /\ import.stage = "record" => import.todo \subseteq DOMAIN import.match
              /\ import.stage = "claim" => import.source = "revolut"
              /\ import.stage \in {"sync", "stale"} => import.todo = {}
    PROVE  ImportsTyped'
<1>0. NoImport.stage = "none"
  BY DEF NoImport
<1>1. \A j \in Importer \ {i} : importer'[j] \in Import \cup {NoImport}
  BY <1>0 DEF Goes, Kept, ImportsTyped
<1>2. importer' \in [Importer -> Import \cup {NoImport}]
  BY <1>1 DEF Goes
<1>3. ASSUME NEW j \in Importer, importer'[j].stage # "none"
      PROVE  /\ Consistent(importer'[j].copy)
             /\ importer'[j].todo \subseteq importer'[j].file
             /\ importer'[j].stage = "record" => importer'[j].todo \subseteq DOMAIN importer'[j].match
             /\ importer'[j].stage = "claim" => importer'[j].source = "revolut"
             /\ importer'[j].stage \in {"sync", "stale"} => importer'[j].todo = {}
  <2>1. CASE j = i
    BY <1>0, <1>3, <2>1 DEF Goes
  <2>2. CASE j # i
    BY <1>3, <2>2 DEF Goes, Kept, ImportsTyped, AtWork
  <2> QED BY <2>1, <2>2
<1>4. \A j \in AtWork' : j \in Importer /\ importer'[j].stage # "none"
  BY DEF AtWork
<1>5. \A j \in AtWork' :
          /\ Consistent(importer'[j].copy)
          /\ importer'[j].todo \subseteq importer'[j].file
          /\ importer'[j].stage = "record" => importer'[j].todo \subseteq DOMAIN importer'[j].match
          /\ importer'[j].stage = "claim" => importer'[j].source = "revolut"
          /\ importer'[j].stage \in {"sync", "stale"} => importer'[j].todo = {}
  BY <1>3, <1>4
<1>6. Consistent(db)'
  BY DEF Consistent, RecordedIn
<1> QED BY <1>2, <1>5, <1>6 DEF ImportsTyped, Consistent, RecordedIn

LEMMA AloneStep ==
    ASSUME ImportsTyped, UndisturbedIsAlone, NEW i \in AtWork, NEW import, Goes(i, import),
           import.stage # "none" =>
              import.disturbed = importer[i].disturbed \/ import.disturbed = (AtWork # {i})
    PROVE  UndisturbedIsAlone'
<1>1. \A j \in AtWork' : j \in AtWork
  BY DEF AtWork, Goes, Kept
<1>2. ASSUME NEW j \in AtWork', NEW k \in AtWork', ~importer'[j].disturbed
      PROVE  k = j
  <2>1. CASE j = i
    <3>1. ~importer[i].disturbed \/ AtWork = {i}
      BY <1>2, <2>1 DEF Goes, AtWork
    <3>2. AtWork = {i}
      BY <3>1 DEF UndisturbedIsAlone
    <3> QED BY <1>1, <2>1, <3>2
  <2>2. CASE j # i
    <3>1. j \in AtWork /\ ~importer[j].disturbed
      BY <1>1, <1>2, <2>2 DEF Goes, Kept, AtWork
    <3> QED BY <2>2, <3>1 DEF UndisturbedIsAlone
  <2> QED BY <2>1, <2>2
<1> QED BY <1>2 DEF UndisturbedIsAlone

\* What holds of the copy and the lines of an import, by what is reported.
Truthful(import, d) ==
    /\ Separate(import.copy)
    /\ ~import.disturbed => ReportedIn(import.copy)
    /\ import.file \ import.todo \subseteq RecordedIn(d, import.source)
    /\ import.source = "revolut" /\ import.stage \in {"match", "record"}
       => import.todo \cap d.legacy = {}

\* The step of an import that reports nothing and puts nothing back.
LEMMA NothingLostStep ==
    ASSUME ImportsTyped, UndisturbedIsAlone, NothingLost, NEW i \in Importer, NEW import, Goes(i, import),
           erased' = erased, reported' = reported,
           \A s \in Source : RecordedIn(db, s) \subseteq RecordedIn(db', s),
           db'.legacy \subseteq db.legacy,
           ~erased => Separate(db') /\ (import.stage # "none" => Truthful(import, db'))
    PROVE  NothingLost'
<1> SUFFICES ASSUME ~erased PROVE NothingLost'
  BY DEF NothingLost
<1>1. ReportedIn(db)' /\ Separate(db)'
  <2>1. \A line \in reported : line[1] \in Source
    BY DEF ImportsTyped
  <2> QED BY <2>1 DEF NothingLost, ReportedIn, Separate, RecordedIn
<1>2. ASSUME NEW j \in Importer, importer'[j].stage # "none"
      PROVE  Truthful(importer'[j], db')
  <2>1. CASE j = i
    BY <1>2, <2>1 DEF Goes
  <2>2. CASE j # i
    <3>1. j \in AtWork /\ Truthful(importer[j], db)
      BY <1>2, <2>2 DEF Goes, Kept, AtWork, NothingLost, Truthful
    <3>2. importer[j].source \in Source
      BY <1>2, <2>2, <3>1 DEF ImportsTyped, Import, AtWork, NoImport
    <3>3. Kept(j) /\ importer[j].stage # "none"
      BY <2>2, <3>1 DEF Goes, AtWork
    <3> QED BY <3>1, <3>2, <3>3 DEF Kept, Truthful
  <2> QED BY <2>1, <2>2
<1>3. \A j \in AtWork' : j \in Importer /\ importer'[j].stage # "none"
  BY DEF AtWork
<1> QED BY <1>1, <1>2, <1>3 DEF NothingLost, Truthful, ReportedIn, Separate, RecordedIn


\* Rows come on offer again only when a copy is put back.
LEMMA MatchedOnceStep ==
    ASSUME ImportsTyped, MatchedOnce, NEW i \in Importer, NEW import, Goes(i, import),
           erased' = erased, crossed => crossed',
           ~erased /\ ~crossed' =>
              /\ OnceEach(db')
              /\ import.stage # "none" => OnceEach(import.copy)
              /\ import.stage = "record" =>
                    MatchesStand(i)' /\ \A j \in Recording : j = i
              /\ Settled' \subseteq Settled \/ \A j \in Recording : j = i
    PROVE  MatchedOnce'
<1> SUFFICES ASSUME ~erased, ~crossed, ~crossed' PROVE MatchedOnce'
  BY DEF MatchedOnce
<1>1. OnceEach(db)'
  BY DEF OnceEach
<1>2. \A j \in AtWork' : OnceEach(importer'[j].copy)
  <2> SUFFICES ASSUME NEW j \in Importer, importer'[j].stage # "none"
               PROVE  OnceEach(importer'[j].copy)
    BY DEF AtWork
  <2>1. CASE j = i
    BY <2>1 DEF Goes
  <2>2. CASE j # i
    BY <2>2 DEF Goes, Kept, MatchedOnce, AtWork
  <2> QED BY <2>1, <2>2
<1>3. ASSUME NEW j \in Recording'
      PROVE  (j = i /\ import.stage = "record") \/ (j \in Recording /\ j # i)
  <2>1. j \in Importer /\ importer'[j].stage = "record"
    BY DEF Recording
  <2>2. CASE j = i
    <3>1. importer'[i] = import
      BY DEF Goes
    <3> QED BY <2>1, <2>2, <3>1
  <2>3. CASE j # i
    <3>1. Kept(j)
      BY <2>1, <2>3 DEF Goes
    <3>2. importer[j].stage = "record"
      BY <2>1, <3>1 DEF Kept
    <3> QED BY <2>1, <2>3, <3>2 DEF Recording
  <2> QED BY <2>2, <2>3
<1>4. \A j, k \in Recording' : j = k
  BY <1>3 DEF MatchedOnce
<1>5. ASSUME NEW j \in Recording' PROVE MatchesStand(j)'
  <2>1. CASE j = i
    BY <1>3, <2>1
  <2>2. CASE j # i
    <3>1. j \in Recording /\ Settled' \subseteq Settled
      BY <1>3, <2>2
    <3>2. MatchesStand(j) /\ Offered \subseteq Offered'
      BY <3>1 DEF MatchedOnce, Offered
    <3>3. importer'[j].todo = importer[j].todo /\ importer'[j].match = importer[j].match
      BY <2>2, <3>1 DEF Goes, Kept, Recording
    <3> QED BY <3>2, <3>3 DEF MatchesStand
  <2> QED BY <2>1, <2>2
<1>6. \A j \in AtWork' : OnceEach(importer[j].copy)'
  BY <1>2 DEF OnceEach
<1> QED BY <1>1, <1>4, <1>5, <1>6 DEF MatchedOnce

\* A step of one import that leaves the quarter as it is.
LEMMA LateStep ==
    ASSUME LateExcused, NEW i \in Importer, NEW import, Goes(i, import), closing' = closing,
           db'.closed = db.closed, db.late \subseteq db'.late,
           closing => db'.missing \subseteq db'.late,
           db.closed /\ import.stage # "none" =>
              import.asking \subseteq db'.late \/ (i \in AtWork /\ import.asking \subseteq importer[i].asking)
    PROVE  LateExcused'
<1> SUFFICES ASSUME db.closed, NEW j \in Importer, importer'[j].stage # "none"
             PROVE  importer'[j].asking \subseteq db'.late
  BY DEF LateExcused, Asking, AtWork
<1>1. \A k \in AtWork : importer[k].asking \subseteq db.late
  BY DEF LateExcused, Asking
<1>2. CASE j = i
  BY <1>1, <1>2 DEF Goes
<1>3. CASE j # i
  <2>1. Kept(j)
    BY <1>3 DEF Goes
  <2>2. j \in AtWork /\ importer'[j].asking = importer[j].asking
    BY <2>1 DEF Kept, AtWork
  <2> QED BY <1>1, <2>2
<1> QED BY <1>2, <1>3

-----------------------------------------------------------------------------
(* The steps *)

\* An importer at work, with its import.
LEMMA AtWorkTyped ==
    ASSUME ImportsTyped, NEW i \in Importer, importer[i].stage # "none"
    PROVE  /\ i \in AtWork /\ importer[i] \in Import
           /\ importer[i].todo \subseteq Movement /\ importer[i].file \subseteq Movement
           /\ Consistent(importer[i].copy)
BY DEF ImportsTyped, AtWork, NoImport, Import

LEMMA NoImportRests == NoImport.stage = "none"
BY DEF NoImport

\* Import x goes on from importer i's, about to ask no more than that.
Onward(i, x) ==
    /\ x.stage \in {"match", "sync", "stale", "failed"}
    /\ x.source = importer[i].source /\ x.file = importer[i].file /\ x.todo = importer[i].todo
    /\ x.copy = importer[i].copy /\ x.disturbed = importer[i].disturbed
    /\ x.stage = "match" => importer[i].stage = "claim" /\ Claimable(i) = {}
    /\ x.stage \in {"sync", "stale"} => importer[i].todo = {}
    /\ db.closed => x.asking \subseteq importer[i].asking

\* A step that moves an import on, or ends it, and may change what is missing.
LEMMA ImportGoesOn ==
    ASSUME StatementsIInv, NEW i \in Importer, importer[i].stage # "none",
           NEW import \in Import \cup {NoImport}, import \in Import => Onward(i, import),
           Goes(i, import), Consistent(db'), db'.paid = db.paid, db'.legacy = db.legacy,
           db'.closed = db.closed, db.late \subseteq db'.late, closing => db'.missing \subseteq db'.late,
           UNCHANGED <<begun, reported, erased, crossed, closing>>
    PROVE  StatementsIInv'
<1>0. i \in AtWork /\ importer[i] \in Import
  BY AtWorkTyped DEF StatementsIInv
<1>1. import.stage # "none" => import \in Import /\ Onward(i, import)
  BY NoImportRests
<1>2. import \in Import => import.stage # "none"
  BY ImportUpdates
<1>3. ImportsTyped'
  <2>1. /\ begun' \in 0..MaxImports /\ reported' \subseteq Source \X Movement
        /\ Consistent(importer[i].copy) /\ importer[i].todo \subseteq importer[i].file
    BY <1>0 DEF StatementsIInv, ImportsTyped
  <2>2. import \in Import =>
           /\ Consistent(import.copy) /\ import.todo \subseteq import.file
           /\ import.stage \notin {"claim", "record"}
           /\ import.stage \in {"sync", "stale"} => import.todo = {}
    BY <2>1 DEF Onward
  <2> QED BY <2>1, <2>2, TypedStep DEF StatementsIInv
<1>4. UndisturbedIsAlone'
  BY <1>0, <1>1, AloneStep DEF StatementsIInv, Onward
<1>5. NothingLost'
  <2>1. \A s : RecordedIn(db', s) = RecordedIn(db, s)
    BY DEF RecordedIn
  <2>2. ~erased => Separate(db') /\ (import.stage # "none" => Truthful(import, db'))
    BY <1>0, <1>1, <2>1 DEF StatementsIInv, NothingLost, Truthful, Claimable, Onward, Separate
  <2> QED BY <2>1, <2>2, NothingLostStep DEF StatementsIInv
<1>6. MatchedOnce'
  <2>1. import.stage # "record"
    BY <1>1, NoImportRests DEF Onward
  <2>2. ~erased /\ ~crossed => OnceEach(db') /\ (import.stage # "none" => OnceEach(import.copy))
    BY <1>0, <1>1 DEF StatementsIInv, MatchedOnce, Onward, OnceEach
  <2>3. Settled' = Settled
    BY DEF Settled
  <2> QED BY <2>1, <2>2, <2>3, MatchedOnceStep DEF StatementsIInv
<1>7. LateExcused'
  BY <1>0, <1>1, LateStep DEF StatementsIInv, Onward
<1> QED BY <1>3, <1>4, <1>5, <1>6, <1>7 DEF StatementsIInv

LEMMA MovesOn ==
    ASSUME StatementsIInv, NEW i \in Importer, importer[i].stage # "none",
           NEW import \in Import \cup {NoImport}, import \in Import => Onward(i, import),
           Continues(i, import), UNCHANGED <<begun, reported, erased, crossed, closing>>
    PROVE  StatementsIInv'
<1>1. Goes(i, import) /\ db' = db
  BY StepGoes DEF StatementsIInv, Continues
<1>2. Consistent(db') /\ (closing => db'.missing \subseteq db'.late)
  BY <1>1 DEF StatementsIInv, ImportsTyped, LateExcused, Consistent
<1> QED BY <1>1, <1>2, ImportGoesOn

LEMMA Fails ==
    ASSUME NEW i \in Importer, importer[i] \in Import
    PROVE  /\ [importer[i] EXCEPT !.stage = "failed"] \in Import
           /\ Onward(i, [importer[i] EXCEPT !.stage = "failed"])
<1> DEFINE x == [importer[i] EXCEPT !.stage = "failed"]
<1>1. x \in Import
  BY ImportUpdates
<1>2. /\ x.stage = "failed" /\ x.source = importer[i].source /\ x.file = importer[i].file
      /\ x.todo = importer[i].todo /\ x.copy = importer[i].copy
      /\ x.disturbed = importer[i].disturbed /\ x.asking = importer[i].asking
  BY DEF Import
<1> HIDE DEF x
<1>3. Onward(i, x)
  BY <1>2 DEF Onward
<1> QED BY <1>1, <1>3 DEF x

LEMMA LineChangedKeeps ==
    ASSUME StatementsIInv, NEW i \in Importer, LineChanged(i)
    PROVE  StatementsIInv'
<1> DEFINE failed == [importer[i] EXCEPT !.stage = "failed"]
<1>0. importer[i].stage # "none" /\ importer[i] \in Import
  BY AtWorkTyped DEF LineChanged, StatementsIInv
<1>1. failed \in Import /\ Onward(i, failed)
  BY <1>0, Fails
<1>2. NoImport \notin Import
  BY ImportUpdates, NoImportRests
<1>3. /\ Continues(i, failed) \/ Continues(i, NoImport)
      /\ UNCHANGED <<begun, reported, erased, crossed, closing>>
  BY DEF LineChanged
<1> HIDE DEF failed
<1> QED BY <1>0, <1>1, <1>2, <1>3, MovesOn

LEMMA ClaimedKeeps ==
    ASSUME StatementsIInv, NEW i \in Importer, Claimed(i)
    PROVE  StatementsIInv'
<1> DEFINE new == [importer[i] EXCEPT !.stage = "match"]
<1>1. importer[i].stage = "claim" /\ Claimable(i) = {} /\ importer[i] \in Import
  BY AtWorkTyped DEF Claimed, StatementsIInv
<1>2. new \in Import
  BY <1>1, ImportUpdates
<1>3. Onward(i, new)
  BY <1>1 DEF Import, Onward
<1> QED BY <1>1, <1>2, <1>3, MovesOn DEF Claimed

LEMMA KillKeeps ==
    ASSUME StatementsIInv, NEW i \in Importer, Kill(i)
    PROVE  StatementsIInv'
<1>1. NoImport \notin Import
  BY ImportUpdates, NoImportRests
<1> QED BY <1>1, MovesOn DEF Kill, AtWork

\* Somebody new at work: he starts on the database as it is.
LEMMA BeginImportKeeps ==
    ASSUME StatementsIInv, NEW i \in Importer, NEW source \in Source, NEW file \in Exports,
           BeginImport(i, source, file)
    PROVE  StatementsIInv'
<1> DEFINE import == [stage |-> IF source = "revolut" THEN "claim" ELSE "match",
                      source |-> source, file |-> file, todo |-> file \ Known(source),
                      match |-> [m \in {} |-> Unmatched],
                      gone |-> {}, left |-> {}, asking |-> {},
                      copy |-> db, disturbed |-> AtWork # {}]
<1>1. importer' = [Overtaken(Importer) EXCEPT ![i] = import]
  BY DEF BeginImport
<1>2. UNCHANGED <<db, reported, erased, crossed, closing>> /\ begun' \in 0..MaxImports
  BY StatementsAssumption DEF BeginImport, StatementsAssumption, StatementsIInv, ImportsTyped
<1>3. Overtaken(Importer) = [j \in Importer |-> Overtaken(Importer)[j]]
  BY DEF Overtaken
<1>4. /\ importer'[i] = import /\ importer' = [j \in Importer |-> importer'[j]]
      /\ \A j \in Importer \ {i} : importer'[j] = Overtaken(Importer)[j]
  <2> HIDE DEF import
  <2> QED BY <1>1, <1>3
<1>5. Goes(i, import)
  <2> HIDE DEF import
  <2> QED BY <1>4, OvertakenKept DEF Goes, StatementsIInv
<1>6. file \in SUBSET Movement
  BY StatementsAssumption DEF StatementsAssumption
<1>7. import \in Import
  <2>2. [m \in {} |-> Unmatched] \in UNION {[some -> Journal \cup {Unmatched}] : some \in SUBSET Movement}
    <3>1. [m \in {} |-> Unmatched] \in [{} -> Journal \cup {Unmatched}] /\ {} \in SUBSET Movement
      OBVIOUS
    <3> QED BY <3>1, MatchingTyped
  <2>3. db \in Database
    BY DEF StatementsIInv, ImportsTyped, Consistent
  <2>4. file \ Known(source) \in SUBSET Movement
    BY <1>6
  <2> QED BY <1>6, <2>2, <2>3, <2>4 DEF Import
<1>8. /\ import.stage \in {"claim", "match"} /\ import.source = source /\ import.file = file
      /\ (import.stage = "match") = (source # "revolut")
      /\ import.todo = file \ Recorded(source) /\ import.copy = db
      /\ import.disturbed = (AtWork # {}) /\ import.asking = {}
  BY DEF Known, Source
<1> HIDE DEF import
<1>9. ImportsTyped'
  <2>1. /\ Consistent(db') /\ reported' \subseteq Source \X Movement /\ Consistent(import.copy)
    BY <1>2, <1>8 DEF StatementsIInv, ImportsTyped
  <2> QED BY <1>2, <1>5, <1>7, <1>8, <2>1, TypedStep DEF StatementsIInv
<1>10. UndisturbedIsAlone'
  <2>1. \A j \in Importer \ {i} : importer'[j].stage # "none" => j \in AtWork /\ importer'[j].disturbed
    <3> SUFFICES ASSUME NEW j \in Importer \ {i}, importer'[j].stage # "none"
                 PROVE  j \in AtWork /\ importer'[j].disturbed
      OBVIOUS
    <3>1. j \in AtWork
      BY <1>5 DEF Goes, Kept, AtWork
    <3> QED BY <1>4, <3>1, OvertakenKept DEF StatementsIInv
  <2>2. \A j \in AtWork' : j \in Importer /\ importer'[j].stage # "none"
    BY DEF AtWork
  <2>3. ASSUME NEW j \in AtWork', NEW k \in AtWork', ~importer'[j].disturbed
        PROVE  k = j
    <3>1. j = i
      BY <2>1, <2>2, <2>3
    <3>2. AtWork = {}
      BY <1>4, <1>8, <2>3, <3>1
    <3> QED BY <2>1, <2>2, <3>1, <3>2
  <2> QED BY <2>3 DEF UndisturbedIsAlone
<1>11. NothingLost'
  <2>1. ~erased => Separate(db') /\ (import.stage # "none" => Truthful(import, db'))
    BY <1>2, <1>8 DEF StatementsIInv, NothingLost, Truthful, Recorded, RecordedIn
  <2> QED BY <1>2, <1>5, <2>1, NothingLostStep DEF StatementsIInv
<1>12. MatchedOnce'
  <2>1. Settled' = Settled
    BY <1>2 DEF Settled
  <2>2. ~erased /\ ~crossed => OnceEach(db') /\ OnceEach(import.copy)
    BY <1>2, <1>8 DEF StatementsIInv, MatchedOnce
  <2> QED BY <1>2, <1>5, <1>8, <2>1, <2>2, MatchedOnceStep DEF StatementsIInv
<1>13. LateExcused'
  <2>1. closing => db'.missing \subseteq db'.late
    BY <1>2 DEF StatementsIInv, LateExcused
  <2> QED BY <1>2, <1>5, <1>8, <2>1, LateStep DEF StatementsIInv
<1> QED BY <1>9, <1>10, <1>11, <1>12, <1>13 DEF StatementsIInv

\* The former payment becomes the line's.
LEMMA ClaimKeeps ==
    ASSUME StatementsIInv, NEW i \in Importer, Claim(i)
    PROVE  StatementsIInv'
<1> DEFINE import == importer[i]
           m == Min(Claimable(i))
<1>0. i \in AtWork /\ import \in Import /\ import.stage = "claim" /\ import.todo \subseteq Movement
  BY AtWorkTyped DEF Claim, StatementsIInv
<1>1. m \in Claimable(i) /\ m \in Movement
  <2>1. Claimable(i) \in SUBSET Nat /\ Claimable(i) # {} /\ Claimable(i) \subseteq Movement
    BY <1>0, StatementsAssumption DEF Claim, Claimable, StatementsAssumption
  <2> QED BY <2>1, MinIsLeast
<1>2. CASE m \in Recorded("revolut")
  <2> DEFINE failed == [import EXCEPT !.stage = "failed"]
  <2>1. failed \in Import /\ Onward(i, failed)
    BY <1>0, Fails
  <2>2. Continues(i, failed) /\ UNCHANGED <<begun, reported, erased, crossed, closing>>
    BY <1>2 DEF Claim
  <2> HIDE DEF failed
  <2> QED BY <1>0, <2>1, <2>2, MovesOn
<1>3. CASE m \notin Recorded("revolut")
  <2> DEFINE new == [import EXCEPT !.todo = @ \ {m}]
             d == [db EXCEPT !.legacy = @ \ {m}, !.paid["revolut"][m] = Unmatched]
             e == WithPayment(db, "revolut", m, Unmatched)
  <2>1. Commits(i, d, new) /\ UNCHANGED <<begun, reported, erased, crossed, closing>>
    BY <1>3 DEF Claim
  <2>2. new \in Import /\ new.stage = "claim" /\ new.source = import.source /\ new.file = import.file
        /\ new.todo = import.todo \ {m} /\ new.copy = import.copy /\ new.disturbed = import.disturbed
        /\ new.asking = import.asking
    <3>1. new \in Import
      BY <1>0, ImportUpdates
    <3> QED BY <1>0, <3>1 DEF Import
  <2>3. db \in Database /\ "revolut" \in Source
    BY DEF StatementsIInv, ImportsTyped, Consistent, Source
  <2>4. /\ e \in Database /\ e.legacy = db.legacy /\ e.missing = db.missing /\ e.closed = db.closed
        /\ e.late = db.late
        /\ \A z \in Source, n \in Movement :
              e.paid[z][n] = IF z = "revolut" /\ n = m THEN Unmatched ELSE db.paid[z][n]
        /\ Unmatched # Absent
    <3>1. Unmatched \in Journal \cup {Unmatched}
      OBVIOUS
    <3> HIDE DEF m
    <3> QED BY <1>1, <2>3, <3>1, PaymentUpdates
  <2>5. d = [e EXCEPT !.legacy = e.legacy \ {m}]
    BY <2>3 DEF Database, WithPayment
  <2>6. d \in Database /\ d.legacy = db.legacy \ {m} /\ d.missing = db.missing /\ d.closed = db.closed
        /\ d.paid = e.paid /\ d.late = db.late
    <3> HIDE DEF d, e
    <3> QED BY <2>4, <2>5 DEF Database
  <2>7. Goes(i, new) /\ db' = d
    BY <2>1, StepGoes DEF Commits, StatementsIInv
  <2> HIDE DEF new, d, e
  <2>8. \A s \in Source : RecordedIn(db', s) = RecordedIn(db, s) \cup (IF s = "revolut" THEN {m} ELSE {})
    <3> SUFFICES ASSUME NEW s \in Source
                 PROVE  RecordedIn(d, s) = RecordedIn(db, s) \cup (IF s = "revolut" THEN {m} ELSE {})
      BY <2>7
    <3>1. \A n \in Movement : d.paid[s][n] # Absent <=> db.paid[s][n] # Absent \/ (s = "revolut" /\ n = m)
      BY <2>4, <2>6
    <3> HIDE DEF m
    <3> QED BY <1>1, <3>1 DEF RecordedIn
  <2>9. ImportsTyped'
    <3>1. Consistent(db')
      BY <2>3, <2>6, <2>7, <2>8 DEF Consistent, StatementsIInv, ImportsTyped, Source
    <3>2. Consistent(new.copy) /\ new.todo \subseteq new.file /\ new.source = "revolut"
      BY <1>0, <2>2 DEF StatementsIInv, ImportsTyped
    <3>3. begun' \in 0..MaxImports /\ reported' \subseteq Source \X Movement
      BY <2>1 DEF StatementsIInv, ImportsTyped
    <3> QED BY <2>2, <2>7, <3>1, <3>2, <3>3, TypedStep DEF StatementsIInv
  <2>10. UndisturbedIsAlone'
    BY <1>0, <2>2, <2>7, AloneStep DEF StatementsIInv
  <2>11. NothingLost'
    <3>1. import.source = "revolut"
      BY <1>0 DEF StatementsIInv, ImportsTyped
    <3>2. ~erased => Separate(db')
      BY <2>3, <2>6, <2>7, <2>8 DEF StatementsIInv, NothingLost, Separate
    <3>3. ~erased => Truthful(new, db')
      BY <1>0, <1>1, <2>2, <2>3, <2>7, <2>8, <3>1 DEF StatementsIInv, NothingLost, Truthful, Recorded, RecordedIn
    <3>4. \A s \in Source : RecordedIn(db, s) \subseteq RecordedIn(db', s)
      BY <2>8
    <3>5. db'.legacy \subseteq db.legacy
      BY <2>6, <2>7
    <3> QED BY <2>1, <2>7, <3>2, <3>3, <3>4, <3>5, NothingLostStep DEF StatementsIInv
  <2>12. MatchedOnce'
    <3>1. \A s \in Source, n \in Movement :
             db'.paid[s][n] = db.paid[s][n] \/ db'.paid[s][n] = Unmatched
      BY <2>4, <2>6, <2>7
    <3>2. Settled' \subseteq Settled
      BY <3>1 DEF Settled
    <3>3. Unmatched \notin Journal
      BY StatementsAssumption DEF StatementsAssumption
    <3>4. OnceEach(db) => OnceEach(db')
      BY <3>1, <3>3 DEF OnceEach
    <3>5. ~erased /\ ~crossed => OnceEach(db') /\ OnceEach(new.copy)
      BY <1>0, <2>2, <3>4 DEF StatementsIInv, MatchedOnce
    <3> QED BY <2>1, <2>2, <2>7, <3>2, <3>5, MatchedOnceStep DEF StatementsIInv
  <2>13. LateExcused'
    <3>1. closing => db'.missing \subseteq db'.late
      BY <2>6, <2>7 DEF StatementsIInv, LateExcused
    <3> QED BY <1>0, <2>1, <2>2, <2>6, <2>7, <3>1, LateStep DEF StatementsIInv
  <2> QED BY <2>9, <2>10, <2>11, <2>12, <2>13 DEF StatementsIInv
<1> QED BY <1>2, <1>3

\* Matching offers the lines of one import what nobody settled.
LEMMA MatchKeeps ==
    ASSUME StatementsIInv, NEW i \in Importer, Match(i)
    PROVE  StatementsIInv'
<1> DEFINE import == importer[i]
           others == AtWork # {i}
           f == Matches(import.todo)
           new == [import EXCEPT !.stage = "record", !.match = f,
                      !.copy = IF import.source = "zenmoney" THEN db ELSE @,
                      !.disturbed = IF import.source = "zenmoney" THEN others ELSE @]
<1>0. i \in AtWork /\ import \in Import /\ import.stage = "match" /\ import.todo \subseteq Movement
  BY AtWorkTyped DEF Match, StatementsIInv
<1>1. /\ f \in [import.todo -> Journal \cup {Unmatched}]
      /\ \A m \in import.todo : f[m] \in Journal => f[m] \in Offered
      /\ \A m, n \in import.todo : f[m] \in Journal /\ f[m] = f[n] => m = n
  BY <1>0, MatchesAreOffered, Zenon
<1>2. Continues(i, new) /\ UNCHANGED <<begun, reported, erased, closing>>
      /\ crossed' = (crossed \/ \E j \in AtWork \ {i} : importer[j].stage = "record")
  BY DEF Match
<1>3. Goes(i, new) /\ db' = db
  BY <1>2, StepGoes DEF Continues, StatementsIInv
<1> HIDE DEF f, others
<1>4. /\ new.stage = "record" /\ new.source = import.source /\ new.file = import.file
      /\ new.todo = import.todo /\ new.match = f /\ new.asking = import.asking
      /\ new.copy = (IF import.source = "zenmoney" THEN db ELSE import.copy)
      /\ new.disturbed = (IF import.source = "zenmoney" THEN others ELSE import.disturbed)
  BY <1>0 DEF Import
<1>5. new \in Import
  <2>1. f \in UNION {[some -> Journal \cup {Unmatched}] : some \in SUBSET Movement}
    BY <1>0, <1>1, MatchingTyped
  <2>2. db \in Database /\ others \in BOOLEAN
    BY DEF StatementsIInv, ImportsTyped, Consistent, others
  <2> QED BY <1>0, <2>1, <2>2 DEF Import
<1> HIDE DEF new
<1>6. ImportsTyped'
  <2>1. /\ Consistent(db') /\ begun' \in 0..MaxImports /\ reported' \subseteq Source \X Movement
        /\ Consistent(import.copy) /\ import.todo \subseteq import.file /\ Consistent(db)
    BY <1>0, <1>2, <1>3 DEF StatementsIInv, ImportsTyped
  <2>2. DOMAIN new.match = new.todo
    BY <1>1, <1>4
  <2> QED BY <1>3, <1>4, <1>5, <2>1, <2>2, TypedStep DEF StatementsIInv
<1>7. UndisturbedIsAlone'
  <2>1. new.disturbed = import.disturbed \/ new.disturbed = (AtWork # {i})
    BY <1>4 DEF others
  <2> QED BY <1>0, <1>3, <2>1, AloneStep DEF StatementsIInv
<1>8. NothingLost'
  <2>1. ~erased => Separate(db') /\ Truthful(new, db')
    BY <1>0, <1>3, <1>4 DEF StatementsIInv, NothingLost, Truthful
  <2> QED BY <1>2, <1>3, <2>1, NothingLostStep DEF StatementsIInv
<1>9. MatchedOnce'
  <2>1. Settled' = Settled
    BY <1>3 DEF Settled
  <2>2. ~erased /\ ~crossed => OnceEach(db') /\ OnceEach(new.copy)
    BY <1>0, <1>3, <1>4 DEF StatementsIInv, MatchedOnce
  <2>3. importer'[i] = new
    BY <1>3 DEF Goes
  <2>4. MatchesStand(i)'
    BY <1>1, <1>4, <2>1, <2>3 DEF MatchesStand, Offered
  <2>5. ~crossed' => \A j \in Recording : j = i
    BY <1>2 DEF Recording, AtWork
  <2>6. crossed => crossed'
    BY <1>2
  <2> QED BY <1>2, <1>3, <2>1, <2>2, <2>4, <2>5, <2>6, MatchedOnceStep DEF StatementsIInv
<1>10. LateExcused'
  <2>1. closing => db'.missing \subseteq db'.late
    BY <1>3 DEF StatementsIInv, LateExcused
  <2> QED BY <1>0, <1>2, <1>3, <1>4, <2>1, LateStep DEF StatementsIInv
<1> QED BY <1>6, <1>7, <1>8, <1>9, <1>10 DEF StatementsIInv

\* A line is recorded, or was.
LEMMA RecordKeeps ==
    ASSUME StatementsIInv, NEW i \in Importer, Record(i)
    PROVE  StatementsIInv'
<1> DEFINE import == importer[i]
           m == Min(import.todo)
           v == import.match[m]
           there == db.paid[import.source][m]
           claimed == import.source = "revolut" /\ m \in Legacy \ db.legacy
           failed == \/ there # Absent /\ (claimed \/ there # v)
                     \/ v \in Reviewable /\ db.closed
           d == IF there = Absent THEN WithPayment(db, import.source, m, v) ELSE db
           new == IF failed THEN [import EXCEPT !.stage = "failed"]
                  ELSE [import EXCEPT !.todo = import.todo \ {m}]
<1>0. /\ i \in AtWork /\ import \in Import /\ import.stage = "record" /\ import.todo \subseteq Movement
      /\ import.source \in Source /\ import.todo \subseteq DOMAIN import.match
      /\ Consistent(import.copy) /\ import.todo \subseteq import.file /\ Consistent(db)
  BY AtWorkTyped DEF Record, StatementsIInv, ImportsTyped, Import
<1>1. m \in import.todo /\ m \in Movement
  BY <1>0, MinIsLeast, StatementsAssumption DEF Record, StatementsAssumption
<1>2. v \in Journal \cup {Unmatched}
  BY <1>0, <1>1 DEF Import
<1>3. Commits(i, d, new) /\ UNCHANGED <<begun, reported, erased, crossed, closing>>
  BY DEF Record, WithPayment
<1>4. Goes(i, new) /\ db' = d
  BY <1>3, StepGoes DEF Commits, StatementsIInv
<1>5. /\ new \in Import /\ new.source = import.source /\ new.file = import.file
      /\ new.match = import.match /\ new.copy = import.copy /\ new.disturbed = import.disturbed
      /\ new.stage \in {"record", "failed"} /\ new.asking = import.asking
      /\ new.todo = import.todo \/ new.todo = import.todo \ {m}
  <2>1. new \in Import
    BY <1>0, ImportUpdates
  <2> QED BY <1>0, <2>1 DEF Import
<1>6. /\ d \in Database /\ d.legacy = db.legacy /\ d.missing = db.missing /\ d.closed = db.closed
      /\ d.late = db.late
      /\ \A z \in Source, n \in Movement :
            d.paid[z][n] = IF z = import.source /\ n = m /\ there = Absent THEN v ELSE db.paid[z][n]
      /\ v # Absent
  <2>1. db \in Database
    BY <1>0 DEF Consistent
  <2>2. CASE there = Absent
    <3> HIDE DEF m, v
    <3>1. d = WithPayment(db, import.source, m, v)
      BY <2>2
    <3> HIDE DEF there, d
    <3> QED BY <1>0, <1>1, <1>2, <2>1, <2>2, <3>1, PaymentUpdates
  <2>3. CASE there # Absent
    <3>1. v # Absent
      BY <1>2, StatementsAssumption DEF StatementsAssumption
    <3> QED BY <2>1, <2>3, <3>1
  <2> QED BY <2>2, <2>3
<1>7. there # Absent => m \in RecordedIn(db, import.source)
  BY <1>1 DEF RecordedIn
<1> HIDE DEF m, v, claimed, failed, d, new
<1>8. \A s \in Source : RecordedIn(db', s) = RecordedIn(db, s) \cup (IF s = import.source THEN {m} ELSE {})
  <2> SUFFICES ASSUME NEW s \in Source
               PROVE  RecordedIn(d, s) = RecordedIn(db, s) \cup (IF s = import.source THEN {m} ELSE {})
    BY <1>4
  <2>1. \A n \in Movement : d.paid[s][n] # Absent <=> db.paid[s][n] # Absent \/ (s = import.source /\ n = m)
    BY <1>6
  <2> QED BY <1>1, <2>1 DEF RecordedIn
<1>9. ImportsTyped'
  <2>1. Consistent(db')
    BY <1>0, <1>4, <1>6, <1>8 DEF Consistent, Source
  <2>2. begun' \in 0..MaxImports /\ reported' \subseteq Source \X Movement
    BY <1>3 DEF StatementsIInv, ImportsTyped
  <2>3. Consistent(new.copy) /\ new.todo \subseteq new.file /\ new.todo \subseteq DOMAIN new.match
        /\ new.stage # "claim"
    BY <1>0, <1>5
  <2> QED BY <1>4, <1>5, <2>1, <2>2, <2>3, TypedStep DEF StatementsIInv
<1>10. UndisturbedIsAlone'
  BY <1>0, <1>4, <1>5, AloneStep DEF StatementsIInv
<1>11. NothingLost'
  <2>1. ~erased => Separate(db')
    <3>1. import.source = "revolut" /\ ~erased => m \notin db.legacy
      BY <1>0, <1>1 DEF StatementsIInv, NothingLost
    <3> QED BY <1>4, <1>6, <1>8, <3>1 DEF StatementsIInv, NothingLost, Separate, Source
  <2>2. ~erased => Truthful(new, db')
    BY <1>0, <1>4, <1>5, <1>6, <1>8 DEF StatementsIInv, NothingLost, Truthful
  <2>3. \A s \in Source : RecordedIn(db, s) \subseteq RecordedIn(db', s)
    BY <1>8
  <2>4. db'.legacy \subseteq db.legacy
    BY <1>4, <1>6
  <2> QED BY <1>3, <1>4, <2>1, <2>2, <2>3, <2>4, NothingLostStep DEF StatementsIInv
<1>12. MatchedOnce'
  <2> SUFFICES ASSUME ~erased, ~crossed PROVE MatchedOnce'
    BY <1>3 DEF MatchedOnce
  <2>1. /\ OnceEach(db) /\ OnceEach(import.copy)
        /\ \A j \in Recording : j = i
        /\ MatchesStand(i)
    BY <1>0 DEF StatementsIInv, MatchedOnce, Recording
  <2>2. v \in Journal => v \notin Settled
    BY <1>1, <2>1 DEF MatchesStand, Offered, v
  <2>3. v \in Journal => \A s \in Source, n \in Movement : db.paid[s][n] # v
    BY <2>2, StatementsAssumption DEF Settled, StatementsAssumption
  <2>4. OnceEach(db')
    BY <1>4, <1>6, <2>1, <2>3 DEF OnceEach
  <2>5. ASSUME new.stage = "record" PROVE MatchesStand(i)'
    <3>1. importer'[i] = new
      BY <1>4 DEF Goes
    <3>2. ~failed /\ new.todo = import.todo \ {m}
      BY <1>0, <2>5 DEF new, Import
    <3>3. Settled' \subseteq Settled \cup {v}
      BY <1>4, <1>6 DEF Settled
    <3>4. \A n \in new.todo : new.match[n] \in Journal => new.match[n] \in Offered /\ new.match[n] # v
      BY <1>1, <1>5, <2>1, <3>2 DEF MatchesStand, v
    <3>5. \A n \in new.todo : new.match[n] \in Journal => new.match[n] \in Offered'
      BY <3>3, <3>4 DEF Offered
    <3> QED BY <1>5, <2>1, <3>1, <3>2, <3>5 DEF MatchesStand
  <2> QED BY <1>3, <1>4, <1>5, <2>1, <2>4, <2>5, MatchedOnceStep DEF StatementsIInv
<1>13. LateExcused'
  <2>1. closing => db'.missing \subseteq db'.late
    BY <1>4, <1>6 DEF StatementsIInv, LateExcused
  <2> QED BY <1>0, <1>3, <1>4, <1>5, <1>6, <2>1, LateStep DEF StatementsIInv
<1> QED BY <1>9, <1>10, <1>11, <1>12, <1>13 DEF StatementsIInv

\* An import of ZenMoney looks at what is missing.
LEMMA LookForMissingKeeps ==
    ASSUME StatementsIInv, NEW i \in Importer, LookForMissing(i)
    PROVE  StatementsIInv'
<1> DEFINE import == importer[i]
           gone == Recorded("zenmoney") \ import.file
           new == [import EXCEPT !.stage = "sync", !.gone = gone, !.left = gone]
<1>0. /\ import \in Import /\ import.stage = "record" /\ import.todo = {} /\ ~db.closed
      /\ Continues(i, new) /\ UNCHANGED <<begun, reported, erased, crossed, closing>>
  BY AtWorkTyped DEF LookForMissing, StatementsIInv
<1>1. gone \in SUBSET Movement
  BY DEF Recorded
<1> HIDE DEF gone
<1>2. new \in Import /\ Onward(i, new)
  BY <1>0, <1>1 DEF Import, Onward
<1> HIDE DEF new
<1> QED BY <1>0, <1>2, MovesOn

LEMMA CheckMissingKeeps ==
    ASSUME StatementsIInv, NEW i \in Importer, CheckMissing(i)
    PROVE  StatementsIInv'
<1> DEFINE import == importer[i]
           m == Min(import.left)
           failed == [import EXCEPT !.stage = "failed"]
           known == [import EXCEPT !.left = @ \ {m}]
           asks == [import EXCEPT !.left = @ \ {m}, !.asking = {m}]
<1>0. /\ import \in Import /\ import.stage = "sync" /\ import.left # {}
      /\ import.left \subseteq Movement /\ import.todo = {}
  BY AtWorkTyped DEF CheckMissing, StatementsIInv, Import, ImportsTyped
<1>1. /\ \/ Continues(i, failed) \/ Continues(i, known)
         \/ ~db.closed /\ Continues(i, asks)
      /\ UNCHANGED <<begun, reported, erased, crossed, closing>>
  BY DEF CheckMissing, StillOpen
<1>2. m \in Movement
  BY <1>0, MinIsLeast, StatementsAssumption DEF StatementsAssumption
<1> HIDE DEF m
<1>3. failed \in Import /\ Onward(i, failed)
  BY <1>0, Fails
<1>4. known \in Import /\ Onward(i, known)
  BY <1>0 DEF Import, Onward
<1>5. asks \in Import /\ (~db.closed => Onward(i, asks))
  BY <1>0, <1>2 DEF Import, Onward
<1> HIDE DEF failed, known, asks
<1> QED BY <1>0, <1>1, <1>3, <1>4, <1>5, MovesOn

\* The issue lands, in a quarter that may have closed since the check.
LEMMA InsertMissingKeeps ==
    ASSUME StatementsIInv, NEW i \in Importer, InsertMissing(i)
    PROVE  StatementsIInv'
<1> DEFINE import == importer[i]
           d == [db EXCEPT !.missing = @ \cup import.asking,
                           !.late = IF closing THEN @ \cup import.asking ELSE @]
           done == [import EXCEPT !.asking = {}]
           failed == [import EXCEPT !.stage = "failed", !.asking = {}]
<1>0. /\ i \in AtWork /\ import \in Import /\ import.stage = "sync" /\ import.todo = {}
      /\ db \in Database /\ import.asking \subseteq Movement
  BY AtWorkTyped DEF InsertMissing, StatementsIInv, Import, ImportsTyped, Consistent
<1>1. /\ Commits(i, d, done) \/ Continues(i, failed)
      /\ UNCHANGED <<begun, reported, erased, crossed, closing>>
  BY DEF InsertMissing
<1>2. failed \in Import /\ Onward(i, failed) /\ done \in Import /\ Onward(i, done)
  BY <1>0 DEF Import, Onward
<1>3. /\ d \in Database /\ d.paid = db.paid /\ d.legacy = db.legacy /\ d.closed = db.closed
      /\ d.missing = db.missing \cup import.asking /\ db.late \subseteq d.late
      /\ closing => d.late = db.late \cup import.asking
  BY <1>0 DEF Database
<1> HIDE DEF d, done, failed
<1>4. CASE Continues(i, failed)
  BY <1>0, <1>1, <1>2, <1>4, MovesOn
<1>5. CASE Commits(i, d, done)
  <2>1. Goes(i, done) /\ db' = d
    BY <1>5, StepGoes DEF Commits, StatementsIInv
  <2>2. db.closed => import.asking \subseteq db.late
    BY <1>0 DEF StatementsIInv, LateExcused, Asking
  <2>3. Consistent(db') /\ (closing => db'.missing \subseteq db'.late)
    BY <1>3, <2>1, <2>2 DEF StatementsIInv, ImportsTyped, LateExcused, Consistent
  <2> QED BY <1>0, <1>1, <1>2, <1>3, <2>1, <2>3, ImportGoesOn
<1> QED BY <1>1, <1>4, <1>5

LEMMA LookForStaleKeeps ==
    ASSUME StatementsIInv, NEW i \in Importer, LookForStale(i)
    PROVE  StatementsIInv'
<1> DEFINE import == importer[i]
           stale == db.missing \ import.gone
           new == [import EXCEPT !.stage = "stale", !.left = stale]
<1>0. /\ import \in Import /\ import.stage = "sync" /\ import.todo = {}
      /\ Continues(i, new) /\ UNCHANGED <<begun, reported, erased, crossed, closing>>
  BY AtWorkTyped DEF LookForStale, StatementsIInv, ImportsTyped
<1>1. stale \in SUBSET Movement
  BY DEF StatementsIInv, ImportsTyped, Consistent, Database
<1> HIDE DEF stale
<1>2. new \in Import /\ Onward(i, new)
  BY <1>0, <1>1 DEF Import, Onward
<1> HIDE DEF new
<1> QED BY <1>0, <1>2, MovesOn

LEMMA ResolveStaleMissingKeeps ==
    ASSUME StatementsIInv, NEW i \in Importer, ResolveStaleMissing(i)
    PROVE  StatementsIInv'
<1> DEFINE import == importer[i]
           m == Min(import.left)
           d == [db EXCEPT !.missing = @ \ {m}]
           done == [import EXCEPT !.left = @ \ {m}]
           failed == [import EXCEPT !.stage = "failed"]
<1>0. /\ import \in Import /\ import.stage = "stale" /\ import.todo = {} /\ db \in Database
      /\ UNCHANGED <<begun, reported, erased, crossed, closing>>
  BY AtWorkTyped DEF ResolveStaleMissing, StatementsIInv, ImportsTyped, Consistent
<1>1. Commits(i, d, done) \/ Continues(i, failed)
  BY DEF ResolveStaleMissing
<1> HIDE DEF m
<1>2. failed \in Import /\ Onward(i, failed) /\ done \in Import /\ Onward(i, done)
  BY <1>0 DEF Import, Onward
<1>3. /\ d \in Database /\ d.paid = db.paid /\ d.legacy = db.legacy /\ d.closed = db.closed
      /\ d.missing \subseteq db.missing /\ d.late = db.late
  BY <1>0 DEF Database
<1> HIDE DEF d, done, failed
<1>4. CASE Continues(i, failed)
  BY <1>0, <1>2, <1>4, MovesOn
<1>5. CASE Commits(i, d, done)
  <2>1. Goes(i, done) /\ db' = d
    BY <1>5, StepGoes DEF Commits, StatementsIInv
  <2>2. Consistent(db') /\ (closing => db'.missing \subseteq db'.late)
    BY <1>3, <2>1 DEF StatementsIInv, ImportsTyped, LateExcused, Consistent
  <2> QED BY <1>0, <1>2, <1>3, <2>1, <2>2, ImportGoesOn
<1> QED BY <1>1, <1>4, <1>5

\* The import reports its lines.
LEMMA FinishKeeps ==
    ASSUME StatementsIInv, NEW i \in Importer, Finish(i)
    PROVE  StatementsIInv'
<1> DEFINE import == importer[i]
           lines == {<<import.source, m>> : m \in import.file}
<1>0. /\ i \in AtWork /\ import \in Import /\ import.todo = {}
      /\ import.source \in Source /\ import.file \subseteq Movement /\ Consistent(db)
  BY AtWorkTyped DEF Finish, StatementsIInv, ImportsTyped, Import
<1>1. /\ Continues(i, NoImport) /\ UNCHANGED <<begun, erased, crossed, closing>>
      /\ reported' = reported \cup lines
  BY DEF Finish
<1>2. Goes(i, NoImport) /\ db' = db
  BY <1>1, StepGoes DEF Continues, StatementsIInv
<1>3. /\ Consistent(db') /\ db'.paid = db.paid /\ db'.legacy = db.legacy
      /\ \A s \in Source : RecordedIn(db', s) = RecordedIn(db, s)
  BY <1>0, <1>2
<1> HIDE DEF lines
<1>4. ImportsTyped'
  <2>1. reported' \subseteq Source \X Movement
    BY <1>0, <1>1 DEF StatementsIInv, ImportsTyped, lines
  <2>2. NoImport \notin Import /\ begun' \in 0..MaxImports
    BY <1>1, ImportUpdates, NoImportRests DEF StatementsIInv, ImportsTyped
  <2> QED BY <1>2, <1>3, <2>1, <2>2, TypedStep DEF StatementsIInv
<1>5. UndisturbedIsAlone'
  BY <1>0, <1>2, NoImportRests, AloneStep DEF StatementsIInv
<1>6. \A j \in AtWork' : j \in AtWork /\ j # i /\ Kept(j) /\ importer[j].stage # "none"
  BY <1>2, NoImportRests DEF Goes, Kept, AtWork
<1>7. \A j \in AtWork' : importer'[j].disturbed
  BY <1>0, <1>6 DEF StatementsIInv, UndisturbedIsAlone, Kept
<1>8. NothingLost'
  <2> SUFFICES ASSUME ~erased PROVE NothingLost'
    BY <1>1 DEF NothingLost
  <2>1. \A line \in lines : line[1] \in Source /\ line[2] \in RecordedIn(db, line[1])
    BY <1>0 DEF lines, StatementsIInv, NothingLost
  <2>2. \A line \in reported : line[1] \in Source /\ line[2] \in RecordedIn(db, line[1])
    BY DEF StatementsIInv, ImportsTyped, NothingLost, ReportedIn
  <2>3. \A line \in reported' : line[2] \in RecordedIn(db', line[1])
    BY <1>1, <1>3, <2>1, <2>2
  <2>4. Separate(db')
    BY <1>3 DEF StatementsIInv, NothingLost, Separate, Source
  <2>5. ASSUME NEW j \in AtWork'
        PROVE  /\ Separate(importer'[j].copy)
               /\ importer'[j].file \ importer'[j].todo \subseteq RecordedIn(db', importer'[j].source)
               /\ importer'[j].source = "revolut" /\ importer'[j].stage \in {"match", "record"}
                  => importer'[j].todo \cap db'.legacy = {}
    <3>1. j \in AtWork /\ Kept(j) /\ importer[j].stage # "none"
      BY <1>6
    <3>2. importer[j].source \in Source
      BY <3>1 DEF StatementsIInv, ImportsTyped, Import, AtWork, NoImport
    <3> QED BY <1>3, <3>1, <3>2 DEF StatementsIInv, NothingLost, Kept
  <2> QED BY <1>1, <1>7, <2>3, <2>4, <2>5 DEF NothingLost, ReportedIn, Separate, RecordedIn
<1>9. MatchedOnce'
  <2>1. Settled' = Settled
    BY <1>3 DEF Settled
  <2>2. ~erased /\ ~crossed => OnceEach(db')
    BY <1>3 DEF StatementsIInv, MatchedOnce, OnceEach
  <2> QED BY <1>1, <1>2, <2>1, <2>2, NoImportRests, MatchedOnceStep DEF StatementsIInv
<1>10. LateExcused'
  <2>1. closing => db'.missing \subseteq db'.late
    BY <1>2 DEF StatementsIInv, LateExcused
  <2> QED BY <1>1, <1>2, <2>1, NoImportRests, LateStep DEF StatementsIInv
<1> QED BY <1>4, <1>5, <1>8, <1>9, <1>10 DEF StatementsIInv

\* The copy of an import that was alone brings back what it started from.
LEMMA FailKeeps ==
    ASSUME StatementsIInv, NEW i \in Importer, Fail(i)
    PROVE  StatementsIInv'
<1> DEFINE import == importer[i]
           back == [import.copy EXCEPT
                       !.late = @ \cup Asking \cup (IF closing THEN import.copy.missing ELSE {})]
<1>0. i \in AtWork /\ import \in Import /\ Consistent(import.copy)
  BY AtWorkTyped DEF Fail, StatementsIInv
<1>1. /\ Commits(i, back, NoImport) /\ UNCHANGED <<begun, reported, crossed, closing>>
      /\ erased' = (erased \/ import.disturbed)
  BY DEF Fail, Restored
<1>2. Goes(i, NoImport) /\ db' = back
  BY <1>1, StepGoes DEF Commits, StatementsIInv
<1>a. Asking \subseteq Movement
  BY AtWorkTyped DEF Asking, AtWork, Import, StatementsIInv
<1>b. /\ back \in Database /\ back.paid = import.copy.paid /\ back.legacy = import.copy.legacy
      /\ back.missing = import.copy.missing /\ back.closed = import.copy.closed
      /\ Asking \subseteq back.late /\ import.copy.late \subseteq back.late
      /\ closing => back.missing \subseteq back.late
  BY <1>0, <1>a DEF Consistent, Database
<1>c. Consistent(db')
  BY <1>0, <1>2, <1>b DEF Consistent
<1> HIDE DEF back
<1>3. ImportsTyped'
  <2>1. NoImport \notin Import
    BY ImportUpdates, NoImportRests
  <2>2. begun' \in 0..MaxImports /\ reported' \subseteq Source \X Movement
    BY <1>1 DEF StatementsIInv, ImportsTyped
  <2> QED BY <1>2, <1>c, <2>1, <2>2, TypedStep DEF StatementsIInv
<1>4. UndisturbedIsAlone'
  BY <1>0, <1>2, NoImportRests, AloneStep DEF StatementsIInv
<1>5. ASSUME ~erased'
      PROVE  ~erased /\ ~import.disturbed /\ AtWork' = {} /\ Recording' = {}
  <2>1. ~erased /\ ~import.disturbed
    BY <1>1, <1>5
  <2>2. \A j \in AtWork : j = i
    BY <1>0, <2>1 DEF StatementsIInv, UndisturbedIsAlone
  <2>3. \A j \in Importer : importer'[j].stage = "none"
    BY <1>2, <2>2, NoImportRests DEF Goes, Kept, AtWork
  <2> QED BY <2>1, <2>3 DEF AtWork, Recording
<1>6. NothingLost'
  <2> SUFFICES ASSUME ~erased' PROVE NothingLost'
    BY DEF NothingLost
  <2>1. ReportedIn(import.copy) /\ Separate(import.copy)
    BY <1>0, <1>5 DEF StatementsIInv, NothingLost
  <2> QED BY <1>1, <1>2, <1>5, <1>b, <2>1 DEF NothingLost, ReportedIn, Separate, RecordedIn
<1>7. MatchedOnce'
  <2> SUFFICES ASSUME ~erased', ~crossed' PROVE MatchedOnce'
    BY DEF MatchedOnce
  <2>1. OnceEach(import.copy)
    BY <1>0, <1>1, <1>5 DEF StatementsIInv, MatchedOnce
  <2> QED BY <1>2, <1>5, <1>b, <2>1 DEF MatchedOnce, OnceEach
<1>8. LateExcused'
  <2>1. Asking' \subseteq Asking
    <3> SUFFICES ASSUME NEW j \in Importer, importer'[j].stage # "none"
                 PROVE  j \in AtWork /\ importer'[j].asking = importer[j].asking
      BY DEF Asking, AtWork
    <3>1. j # i
      BY <1>2, NoImportRests DEF Goes
    <3>2. Kept(j)
      BY <1>2, <3>1 DEF Goes
    <3> QED BY <3>2 DEF Kept, AtWork
  <2>2. closing' \in BOOLEAN
    BY <1>1 DEF StatementsIInv, LateExcused
  <2> QED BY <1>1, <1>2, <1>b, <2>1, <2>2 DEF LateExcused
<1> QED BY <1>3, <1>4, <1>6, <1>7, <1>8 DEF StatementsIInv

\* What others write leaves every payment where it is.
LEMMA OthersKeep ==
    ASSUME StatementsIInv, NEW d, OthersCommit(d), Consistent(d),
           d.paid = db.paid, d.legacy = db.legacy
    PROVE  ImportsTyped' /\ UndisturbedIsAlone' /\ NothingLost' /\ MatchedOnce' /\ Asking' \subseteq Asking
<1>1. /\ db' = d /\ importer' = Overtaken(Importer)
      /\ UNCHANGED <<begun, reported, erased, crossed>>
  BY DEF OthersCommit
<1>2. importer' = [j \in Importer |-> importer'[j]]
  BY <1>1 DEF Overtaken
<1>3. \A j \in Importer : Kept(j)
  BY <1>1, OvertakenKept DEF StatementsIInv
<1>4. \A j \in AtWork' : j \in AtWork /\ importer[j].stage # "none" /\ importer'[j].disturbed
  <2> SUFFICES ASSUME NEW j \in Importer, importer'[j].stage # "none"
               PROVE  j \in AtWork /\ importer[j].stage # "none" /\ importer'[j].disturbed
    BY DEF AtWork
  <2>1. j \in AtWork /\ importer[j].stage # "none"
    BY <1>3 DEF Kept, AtWork
  <2>2. j \in AtWork \cap Importer
    BY <2>1
  <2> QED BY <1>1, <2>1, <2>2, OvertakenKept DEF StatementsIInv
<1>5. ImportsTyped'
  <2>1. importer' \in [Importer -> Import \cup {NoImport}]
    BY <1>2, <1>3 DEF StatementsIInv, ImportsTyped, Kept, NoImport
  <2>2. Consistent(db)'
    BY <1>1 DEF Consistent, RecordedIn
  <2>3. \A j \in AtWork' :
          /\ Consistent(importer'[j].copy)
          /\ importer'[j].todo \subseteq importer'[j].file
          /\ importer'[j].stage = "record" => importer'[j].todo \subseteq DOMAIN importer'[j].match
          /\ importer'[j].stage = "claim" => importer'[j].source = "revolut"
          /\ importer'[j].stage \in {"sync", "stale"} => importer'[j].todo = {}
    BY <1>3, <1>4 DEF StatementsIInv, ImportsTyped, Kept, AtWork
  <2> QED BY <1>1, <2>1, <2>2, <2>3 DEF StatementsIInv, ImportsTyped, Consistent, RecordedIn
<1>6. UndisturbedIsAlone'
  BY <1>4 DEF UndisturbedIsAlone
<1>7. NothingLost'
  <2> SUFFICES ASSUME ~erased PROVE NothingLost'
    BY <1>1 DEF NothingLost
  <2>1. \A s : RecordedIn(db', s) = RecordedIn(db, s)
    BY <1>1 DEF RecordedIn
  <2>2. ReportedIn(db') /\ Separate(db')
    BY <1>1, <2>1 DEF StatementsIInv, NothingLost, ReportedIn, Separate
  <2>3. \A j \in AtWork' : Truthful(importer'[j], db')
    BY <1>1, <1>3, <1>4, <2>1 DEF StatementsIInv, NothingLost, Truthful, Kept, AtWork
  <2> QED BY <1>1, <1>4, <2>2, <2>3 DEF NothingLost, Truthful, ReportedIn, Separate, RecordedIn
<1>8. MatchedOnce'
  <2> SUFFICES ASSUME ~erased, ~crossed PROVE MatchedOnce'
    BY <1>1 DEF MatchedOnce
  <2>1. Settled' = Settled /\ OnceEach(db')
    BY <1>1 DEF Settled, StatementsIInv, MatchedOnce, OnceEach
  <2>2. \A j \in Recording' : j \in Recording /\ Kept(j) /\ importer[j].stage # "none"
    BY <1>3 DEF Recording, Kept
  <2>3. \A j \in Recording' : MatchesStand(j)'
    BY <2>1, <2>2 DEF StatementsIInv, MatchedOnce, MatchesStand, Kept, Offered
  <2>4. ASSUME NEW j \in AtWork' PROVE OnceEach(importer'[j].copy)
    <3>1. j \in AtWork /\ Kept(j)
      BY <1>3, <1>4 DEF AtWork
    <3>2. importer'[j].copy = importer[j].copy
      BY <3>1 DEF Kept, AtWork
    <3>3. OnceEach(importer[j].copy)
      BY <3>1 DEF StatementsIInv, MatchedOnce
    <3> QED BY <3>2, <3>3
  <2> QED BY <2>1, <2>2, <2>3, <2>4 DEF StatementsIInv, MatchedOnce, OnceEach
<1>9. Asking' \subseteq Asking
  <2> SUFFICES ASSUME NEW j \in AtWork' PROVE importer'[j].asking \subseteq Asking
    BY DEF Asking
  <2>1. j \in AtWork /\ Kept(j) /\ importer[j].stage # "none"
    BY <1>3, <1>4 DEF AtWork
  <2> QED BY <2>1 DEF Kept, Asking
<1> QED BY <1>5, <1>6, <1>7, <1>8, <1>9

LEMMA AnswerMissingKeeps ==
    ASSUME StatementsIInv, NEW m \in Movement, AnswerMissing(m)
    PROVE  StatementsIInv'
<1> DEFINE d == [db EXCEPT !.missing = @ \ {m}]
<1>1. Consistent(db)
  BY DEF StatementsIInv, ImportsTyped
<1>2. d \in Database /\ d.paid = db.paid /\ d.legacy = db.legacy /\ d.closed = db.closed
      /\ d.missing = db.missing \ {m} /\ d.late = db.late
  BY <1>1 DEF Consistent, Database
<1>3. Consistent(d)
  BY <1>1, <1>2 DEF Consistent
<1>4. OthersCommit(d) /\ db' = d /\ closing' = closing
  BY DEF AnswerMissing, OthersCommit
<1> HIDE DEF d
<1> QED BY <1>2, <1>3, <1>4, OthersKeep DEF StatementsIInv, LateExcused

\* Nothing but the close moves.
LEMMA SameKeeps ==
    ASSUME StatementsIInv, UNCHANGED <<db, importer, begun, reported, erased, crossed>>
    PROVE  ImportsTyped' /\ UndisturbedIsAlone' /\ NothingLost' /\ MatchedOnce'
<1>2. AtWork' = AtWork /\ Recording' = Recording /\ Settled' = Settled
  BY DEF AtWork, Recording, Settled
<1>3. ImportsTyped' /\ UndisturbedIsAlone'
  BY <1>2 DEF StatementsIInv, ImportsTyped, UndisturbedIsAlone, Consistent
<1>4. NothingLost'
  BY <1>2 DEF StatementsIInv, NothingLost, ReportedIn, Separate, RecordedIn
<1>5. MatchedOnce'
  BY <1>2 DEF StatementsIInv, MatchedOnce, OnceEach, MatchesStand, Offered
<1> QED BY <1>3, <1>4, <1>5

\* The close only reads.
LEMMA BeginCloseStatementKeeps ==
    ASSUME StatementsIInv, BeginCloseStatement
    PROVE  StatementsIInv'
<1>1. /\ UNCHANGED <<db, importer, begun, reported, erased, crossed>>
      /\ db.missing = {} /\ closing' = TRUE
  BY DEF BeginCloseStatement
<1>2. LateExcused'
  BY <1>1 DEF StatementsIInv, LateExcused, Asking, AtWork
<1> QED BY <1>1, <1>2, SameKeeps DEF StatementsIInv

LEMMA EndCloseStatementKeeps ==
    ASSUME StatementsIInv, EndCloseStatement
    PROVE  StatementsIInv'
<1> DEFINE d == [db EXCEPT !.closed = TRUE, !.late = @ \cup Asking]
<1>1. db \in Database /\ db.missing \subseteq db.late
  BY DEF StatementsIInv, ImportsTyped, Consistent, LateExcused, EndCloseStatement
<1>2. Asking \subseteq Movement
  BY AtWorkTyped DEF Asking, AtWork, Import, StatementsIInv
<1>3. d \in Database /\ d.paid = db.paid /\ d.legacy = db.legacy /\ d.missing = db.missing /\ d.closed
      /\ d.late = db.late \cup Asking
  BY <1>1, <1>2 DEF Database
<1>4. Consistent(d)
  BY <1>1, <1>3 DEF Consistent
<1>5. OthersCommit(d) /\ db' = d /\ closing' = FALSE
  BY DEF EndCloseStatement, OthersCommit
<1> HIDE DEF d
<1> QED BY <1>3, <1>4, <1>5, OthersKeep DEF StatementsIInv, LateExcused

LEMMA StatementsStart == StatementsInit => StatementsIInv
<1> SUFFICES ASSUME StatementsInit PROVE StatementsIInv
  OBVIOUS
<1>1. importer = [i \in Importer |-> NoImport] /\ AtWork = {} /\ Recording = {}
  BY NoImportRests DEF StatementsInit, AtWork, Recording
<1>2. /\ db = [paid |-> [s \in Source |-> [m \in Movement |-> Absent]],
               legacy |-> Legacy, missing |-> {}, closed |-> FALSE, late |-> {}]
      /\ Legacy \in SUBSET Movement /\ MaxImports \in Nat /\ Absent \notin Journal
  BY StatementsAssumption DEF StatementsInit, StatementsAssumption
<1>3. \A s \in Source, m \in Movement : db.paid[s][m] = Absent
  BY <1>2
<1>4. db \in Database
  BY <1>2 DEF Database
<1>5. Consistent(db)
  BY <1>2, <1>4 DEF Consistent
<1>6. ImportsTyped /\ UndisturbedIsAlone
  BY <1>1, <1>2, <1>5 DEF ImportsTyped, UndisturbedIsAlone, StatementsInit
<1>7. NothingLost
  BY <1>1, <1>3 DEF NothingLost, ReportedIn, Separate, RecordedIn, StatementsInit, Source
<1>8. MatchedOnce
  BY <1>1, <1>2, <1>3 DEF MatchedOnce, OnceEach
<1>9. LateExcused
  <2>1. ~db.closed /\ closing = FALSE
    BY <1>2 DEF StatementsInit
  <2> QED BY <2>1 DEF LateExcused
<1> QED BY <1>6, <1>7, <1>8, <1>9 DEF StatementsIInv

LEMMA StatementsStep == StatementsIInv /\ StatementsNext => StatementsIInv'
BY BeginImportKeeps, LineChangedKeeps, ClaimKeeps, ClaimedKeeps, MatchKeeps, RecordKeeps,
   LookForMissingKeeps, CheckMissingKeeps, InsertMissingKeeps, LookForStaleKeeps,
   ResolveStaleMissingKeeps, FinishKeeps, FailKeeps, KillKeeps, AnswerMissingKeeps,
   BeginCloseStatementKeeps, EndCloseStatementKeeps DEF StatementsNext

LEMMA StatementsStutter == StatementsIInv /\ UNCHANGED statementsVars => StatementsIInv'
<1> SUFFICES ASSUME StatementsIInv, UNCHANGED statementsVars PROVE StatementsIInv'
  OBVIOUS
<1>1. UNCHANGED <<db, importer, begun, reported, erased, crossed>> /\ closing' = closing
  BY DEF statementsVars
<1>2. LateExcused'
  BY <1>1 DEF StatementsIInv, LateExcused, Asking, AtWork
<1> QED BY <1>1, <1>2, SameKeeps DEF StatementsIInv

\* The invariant has what the runs check.
LEMMA StatementsHold == StatementsIInv => StatementsInv /\ ReportedIsRecorded
<1> SUFFICES ASSUME StatementsIInv PROVE StatementsInv /\ ReportedIsRecorded
  OBVIOUS
<1>0. \A s \in Source : Recorded(s) = RecordedIn(db, s)
  BY DEF Recorded, RecordedIn
<1>1. StatementsTypeOK
  <2>1. \A i \in AtWork : importer[i] \in Import
    BY DEF StatementsIInv, ImportsTyped, AtWork, NoImport
  <2> QED BY <1>0, <2>1 DEF StatementsTypeOK, StatementsIInv, ImportsTyped, Consistent, Import, Source, LateExcused
<1>2. LegacyCountsOnce
  BY <1>0 DEF LegacyCountsOnce, StatementsIInv, NothingLost, Separate, Source
<1>3. RowSettledOnce
  BY DEF RowSettledOnce, StatementsIInv, MatchedOnce, OnceEach
<1>4. ClosedMissesNothing
  BY DEF ClosedMissesNothing, StatementsIInv, ImportsTyped, Consistent
<1>5. ReportedIsRecorded
  <2>1. \A line \in reported : line[1] \in Source
    BY DEF StatementsIInv, ImportsTyped
  <2> QED BY <1>0, <2>1 DEF ReportedIsRecorded, StatementsIInv, NothingLost, ReportedIn
<1> QED BY <1>1, <1>2, <1>3, <1>4, <1>5 DEF StatementsInv

-----------------------------------------------------------------------------
(* The recursive function in Matches is what its equation says *)
-----------------------------------------------------------------------------
(* The history: what an import under way knows *)

Migration ==
    [at : {"rest", "lines", "document", "row", "treatment", "questions", "filed", "classify"},
     book : Books \cup {<< >>}, report : Reports \cup {<< >>}, inventory : SUBSET HistoryQuarter,
     left : SUBSET (Line \cup HistoryQuarter), line : Line \cup {None},
     status : {None, "approved", "posted"}]

AtLine == migration.at \in {"document", "row", "treatment"}

\* What is left is of the kind that the stage goes through, and the line at
\* work is one of the book.
MigrationTyped ==
    /\ migration \in Migration
    /\ At("lines") \/ AtLine => migration.left \subseteq DOMAIN migration.book
    /\ AtLine => /\ migration.line \in DOMAIN migration.book \ migration.left
                 /\ migration.status \in {"approved", "posted"}
    /\ At("questions") => migration.left \subseteq DOMAIN migration.report
    /\ At("filed") \/ At("classify") => migration.left \subseteq HistoryQuarter

Gone(l) == entry[l].status \in Dropped

\* The treatment is written of the row as the book has it, or of a dropped one.
RowComesFirst ==
    At("treatment") =>
        /\ entry[migration.line].row # None
        /\ Gone(migration.line) \/ entry[migration.line].row = migration.book[migration.line]

\* A treatment that is not of its row is remembered, but for the line at work.
TornIsKnown ==
    \A l \in Line : entry[l].treat \notin {None, entry[l].row} /\ ~Gone(l)
                    => l \in torn \/ (At("treatment") /\ migration.line = l)

BookedAs(l, c) ==
    \/ entry[l].row = c /\ entry[l].treat = c
    \/ Gone(l) /\ c \in {entry[l].row, entry[l].treat}

\* The lines of its book that an import is past.
Past ==
    DOMAIN migration.book
        \ (IF AtLine THEN migration.left \cup {migration.line}
           ELSE IF At("lines") THEN migration.left ELSE {})

PastIsBooked ==
    /\ taken \in Books \cup {<< >>}
    /\ ~At("rest") => taken = << >>
    /\ \A l \in Past \ torn : BookedAs(l, migration.book[l])
    /\ \A l \in DOMAIN taken \ torn : BookedAs(l, taken[l])

\* Operations abroad of a quarter that was classified since are filed, or due
\* and the quarter neither closed nor about to be.
AbroadIsDue ==
    \A l \in Line :
        /\ entry[l].treat \in Abroad /\ entry[l].row # None /\ ~Gone(l)
        /\ Of[entry[l].row] \notin unclassified
        => \/ declared[Of[entry[l].row]] = "filed"
           \/ declared[Of[entry[l].row]] = "due" /\ Of[entry[l].row] \notin shut \cup shutting

HistoryIInv ==
    HistoryTypeOK /\ MigrationTyped /\ RowComesFirst /\ TornIsKnown /\ PastIsBooked /\ AbroadIsDue

-----------------------------------------------------------------------------
(* Shapes *)

Entry == [doc : Content \cup {None}, row : Content \cup {None}, treat : Content \cup {None},
          status : {None, "approved", "posted", "rejected"}]
Question == [state : {"none", "open", "resolved"}, about : Remark \cup {None}]

LEMMA HistoryConstants ==
    /\ Line \subseteq Nat /\ Abroad \subseteq Content /\ None \notin Content /\ None \notin Remark
    /\ None \notin {"due", "filed"}
    /\ \A book \in Books \cup {<< >>} :
          DOMAIN book \subseteq Line /\ \A l \in DOMAIN book : book[l] \in Content
    /\ \A report \in Reports \cup {<< >>} :
          DOMAIN report \subseteq Line /\ \A l \in DOMAIN report : report[l] \in Remark
    /\ \A inventory \in Inventories : inventory \subseteq HistoryQuarter
    /\ \A c \in Content : Of[c] \in HistoryQuarter
<1>1. DOMAIN << >> = {}
  OBVIOUS
<1>2. /\ Books \subseteq UNION {[ls -> Content] : ls \in SUBSET Line}
      /\ Reports \subseteq UNION {[ls -> Remark] : ls \in SUBSET Line}
      /\ Inventories \subseteq SUBSET HistoryQuarter
      /\ None \notin Content \cup Remark \cup {"due", "filed"}
      /\ Line \subseteq Nat /\ Abroad \subseteq Content
  BY HistoryAssumption DEF HistoryAssumption
<1>3. ASSUME NEW book \in Books
      PROVE  DOMAIN book \subseteq Line /\ \A l \in DOMAIN book : book[l] \in Content
  <2>1. PICK ls \in SUBSET Line : book \in [ls -> Content]
    BY <1>2
  <2> QED BY <2>1
<1>4. ASSUME NEW report \in Reports
      PROVE  DOMAIN report \subseteq Line /\ \A l \in DOMAIN report : report[l] \in Remark
  <2>1. PICK ls \in SUBSET Line : report \in [ls -> Remark]
    BY <1>2
  <2> QED BY <2>1
<1>5. \A c \in Content : Of[c] \in HistoryQuarter
  BY DEF HistoryQuarter
<1>6. \A inventory \in Inventories : inventory \subseteq HistoryQuarter
  BY <1>2
<1> QED BY <1>1, <1>2, <1>3, <1>4, <1>5, <1>6

LEMMA EntryUpdates ==
    ASSUME NEW e \in Entry
    PROVE  /\ \A c \in Content : [e EXCEPT !.doc = c] \in Entry /\ [e EXCEPT !.treat = c] \in Entry
           /\ \A s \in {"approved", "posted", "rejected"} : [e EXCEPT !.status = s] \in Entry
           /\ \A c \in Content, s \in {"approved", "posted"} :
                 [e EXCEPT !.row = c, !.status = s] \in Entry
BY DEF Entry

LEMMA MigrationFields ==
    ASSUME migration \in Migration
    PROVE  /\ migration.book \in Books \cup {<< >>} /\ migration.report \in Reports \cup {<< >>}
           /\ migration.inventory \subseteq HistoryQuarter
           /\ migration.left \subseteq Line \cup HistoryQuarter
           /\ migration.line \in Line \cup {None} /\ migration.status \in {None, "approved", "posted"}
BY DEF Migration

LEMMA HistoryStart == HistoryInit => HistoryIInv
<1> SUFFICES ASSUME HistoryInit PROVE HistoryIInv
  OBVIOUS
<1>1. DOMAIN << >> = {}
  OBVIOUS
<1>2. migration = Resting /\ taken = << >>
  BY DEF HistoryInit
<1>3. HistoryTypeOK
  BY <1>2, HistoryAssumption DEF HistoryInit, HistoryTypeOK, Resting, HistoryAssumption
<1>4. MigrationTyped
  BY <1>2 DEF MigrationTyped, Migration, Resting, At, AtLine
<1>5. RowComesFirst /\ TornIsKnown /\ AbroadIsDue
  BY <1>2 DEF RowComesFirst, TornIsKnown, AbroadIsDue, At, Resting, HistoryInit
<1>6. PastIsBooked
  BY <1>1, <1>2 DEF PastIsBooked, Past, At, Resting
<1> QED BY <1>3, <1>4, <1>5, <1>6 DEF HistoryIInv

-----------------------------------------------------------------------------
(* Steps that leave the entries *)

LEMMA StopKeeps == ASSUME HistoryIInv, Stop PROVE HistoryIInv'
<1>1. /\ migration' = Resting /\ ~At("rest") /\ taken' = taken /\ entry' = entry
      /\ torn \subseteq torn' /\ UNCHANGED <<question, declared, shutting, shut, migrations, byHand, unclassified>>
  BY DEF Stop, Tables
<1>2. taken' = << >> /\ Past' = {} /\ DOMAIN << >> = {}
  BY <1>1 DEF HistoryIInv, PastIsBooked, Past, Resting
<1>3. torn' \subseteq Line
  BY HistoryConstants, MigrationFields
     DEF Stop, HistoryIInv, HistoryTypeOK, MigrationTyped, AtLine, At
<1>4. HistoryTypeOK'
  BY <1>1, <1>3 DEF HistoryIInv, HistoryTypeOK, Resting
<1>5. MigrationTyped'
  BY <1>1 DEF MigrationTyped, Migration, Resting, At, AtLine
<1>6. RowComesFirst' /\ AbroadIsDue'
  BY <1>1 DEF HistoryIInv, RowComesFirst, AbroadIsDue, At, Resting, Gone
<1>7. TornIsKnown'
  BY <1>1 DEF HistoryIInv, TornIsKnown, At, Resting, Gone, Stop
<1>8. PastIsBooked'
  BY <1>2 DEF PastIsBooked
<1> QED BY <1>4, <1>5, <1>6, <1>7, <1>8 DEF HistoryIInv

LEMMA BeginMigrationKeeps ==
    ASSUME HistoryIInv, NEW book \in Books, NEW report \in Reports, NEW inventory \in Inventories,
           BeginMigration(book, report, inventory)
    PROVE  HistoryIInv'
<1>1. /\ migration' = [Resting EXCEPT !.at = "lines", !.book = book, !.report = report,
                          !.inventory = inventory, !.left = DOMAIN book]
      /\ At("rest") /\ migrations < MaxMigrations /\ migrations' = migrations + 1 /\ taken' = << >>
      /\ UNCHANGED <<entry, question, declared, shutting, shut, byHand, torn, unclassified>>
  BY DEF BeginMigration, Tables
<1>2. migration' = [at |-> "lines", book |-> book, report |-> report, inventory |-> inventory,
                    left |-> DOMAIN book, line |-> None, status |-> None]
  BY <1>1 DEF Resting
<1>3. DOMAIN book \subseteq Line /\ inventory \subseteq HistoryQuarter
  BY HistoryConstants
<1>4. HistoryTypeOK'
  BY <1>1, <1>2, HistoryAssumption DEF HistoryIInv, HistoryTypeOK, HistoryAssumption
<1>5. MigrationTyped'
  BY <1>2, <1>3 DEF MigrationTyped, Migration, At, AtLine
<1>6. RowComesFirst' /\ AbroadIsDue'
  BY <1>1, <1>2 DEF HistoryIInv, RowComesFirst, AbroadIsDue, At, Gone
<1>7. TornIsKnown'
  BY <1>1, <1>2 DEF HistoryIInv, TornIsKnown, At, Gone
<1>8. Past' = {} /\ DOMAIN << >> = {}
  BY <1>2 DEF Past, At, AtLine
<1>9. PastIsBooked'
  BY <1>1, <1>8 DEF PastIsBooked
<1> QED BY <1>4, <1>5, <1>6, <1>7, <1>9 DEF HistoryIInv

\* The import goes on with the entries as they are: what it says of its lines
\* is to be shown of every step.
LEMMA GoesOn ==
    ASSUME HistoryIInv, UNCHANGED <<entry, taken, torn>>, HistoryTypeOK', MigrationTyped',
           ~At("rest"), migration'.book = migration.book,
           ~At("treatment"), At("treatment")' => Gone(migration'.line) /\ entry[migration'.line].row # None,
           \A l \in Past' \ Past : l \in torn \/ BookedAs(l, migration.book[l]),
           AbroadIsDue'
    PROVE  HistoryIInv'
<1>1. RowComesFirst' /\ TornIsKnown'
  BY DEF HistoryIInv, RowComesFirst, TornIsKnown, Gone
<1>2. taken = << >> /\ DOMAIN << >> = {}
  BY DEF HistoryIInv, PastIsBooked
<1>3. PastIsBooked'
  BY <1>2 DEF HistoryIInv, PastIsBooked, BookedAs, Gone
<1> QED BY <1>1, <1>3 DEF HistoryIInv

\* The line that comes next.
LEMMA NextLine ==
    ASSUME HistoryIInv, At("lines"), migration.left # {}
    PROVE  /\ Min(migration.left) \in migration.left /\ Min(migration.left) \in DOMAIN migration.book
           /\ Min(migration.left) \in Line
           /\ migration.left \subseteq DOMAIN migration.book /\ migration.left \subseteq Line
<1>1. migration.left \subseteq DOMAIN migration.book /\ DOMAIN migration.book \subseteq Line
  BY HistoryConstants, MigrationFields DEF HistoryIInv, MigrationTyped
<1>2. migration.left \in SUBSET Nat
  BY <1>1, HistoryConstants
<1> QED BY <1>1, <1>2, MinIsLeast

LEMMA AbroadStays ==
    ASSUME AbroadIsDue, UNCHANGED <<entry, declared, shutting, shut, unclassified>> PROVE AbroadIsDue'
BY DEF AbroadIsDue, Gone

\* A row is of a quarter of the history.
LEMMA RowQuarter ==
    ASSUME HistoryTypeOK
    PROVE  \A l \in Line : entry[l].row # None => Of[entry[l].row] \in HistoryQuarter
BY HistoryConstants DEF HistoryTypeOK

LEMMA SkipKeeps == ASSUME HistoryIInv, Skip PROVE HistoryIInv'
<1> DEFINE l == Min(migration.left)
<1>1. l \in migration.left /\ l \in DOMAIN migration.book /\ l \in Line
  BY NextLine DEF Skip
<1>2. /\ At("lines") /\ migration' = [migration EXCEPT !.left = @ \ {l}]
      /\ Imported(l, migration.book[l])
      /\ UNCHANGED <<entry, question, declared, shutting, shut, migrations, byHand, taken, torn, unclassified>>
  BY DEF Skip, Tables, Ghosts
<1>3. migration \in Migration
  BY DEF HistoryIInv, MigrationTyped
<1>4. /\ migration'.at = "lines" /\ migration'.book = migration.book
      /\ migration'.left = migration.left \ {l} /\ migration'.line = migration.line
      /\ migration' \in Migration
  BY <1>2, <1>3 DEF Migration, At
<1>5. HistoryTypeOK'
  BY <1>2, <1>4 DEF HistoryIInv, HistoryTypeOK
<1>6. MigrationTyped'
  BY <1>2, <1>4 DEF HistoryIInv, MigrationTyped, At, AtLine
<1>7. Past' \ Past \subseteq {l}
  BY <1>2, <1>4 DEF Past, At, AtLine
<1>8. l \in torn \/ BookedAs(l, migration.book[l])
  BY <1>1, <1>2 DEF Imported, Complete, HistoryIInv, TornIsKnown, BookedAs, Gone, At
<1>9. AbroadIsDue'
  BY <1>2, AbroadStays DEF HistoryIInv
<1> QED BY <1>2, <1>4, <1>5, <1>6, <1>7, <1>8, <1>9, GoesOn DEF At

LEMMA CheckKeeps == ASSUME HistoryIInv, Check PROVE HistoryIInv'
<1> DEFINE l == Min(migration.left)
<1>1. l \in migration.left /\ l \in DOMAIN migration.book /\ l \in Line
  BY NextLine DEF Check
<1>2. /\ At("lines")
      /\ UNCHANGED <<entry, question, declared, shutting, shut, migrations, byHand, taken, torn, unclassified>>
  BY DEF Check, Tables, Ghosts
<1>3. migration \in Migration
  BY DEF HistoryIInv, MigrationTyped
<1>4. /\ migration'.at \in {"document", "treatment"} /\ migration'.book = migration.book
      /\ migration'.left = migration.left \ {l} /\ migration'.line = l
      /\ migration'.status \in {"approved", "posted"}
      /\ migration'.at = "treatment" => entry[l].status \in Dropped /\ entry[l].row # None
      /\ migration' \in Migration
  BY <1>1, <1>3 DEF Check, Migration, Complete
<1>5. HistoryTypeOK'
  BY <1>2, <1>4 DEF HistoryIInv, HistoryTypeOK
<1>6. MigrationTyped'
  BY <1>1, <1>2, <1>4 DEF HistoryIInv, MigrationTyped, At, AtLine
<1>7. Past' \subseteq Past
  BY <1>2, <1>4 DEF Past, At, AtLine
<1>8. AbroadIsDue'
  BY <1>2, AbroadStays DEF HistoryIInv
<1>9. At("treatment")' => Gone(migration'.line) /\ entry[migration'.line].row # None
  BY <1>4 DEF At, Gone
<1> QED BY <1>2, <1>4, <1>5, <1>6, <1>7, <1>8, <1>9, GoesOn DEF At


LEMMA EndLinesKeeps == ASSUME HistoryIInv, EndLines PROVE HistoryIInv'
<1>2. /\ At("lines") /\ migration.left = {}
      /\ migration' = [migration EXCEPT !.at = "questions", !.left = DOMAIN migration.report]
      /\ UNCHANGED <<entry, question, declared, shutting, shut, migrations, byHand, taken, torn, unclassified>>
  BY DEF EndLines, Tables, Ghosts
<1>3. migration \in Migration /\ DOMAIN migration.report \subseteq Line
  BY HistoryConstants, MigrationFields DEF HistoryIInv, MigrationTyped
<1>4. /\ migration'.at = "questions" /\ migration'.book = migration.book
      /\ migration'.left = DOMAIN migration.report /\ migration'.report = migration.report
      /\ migration' \in Migration
  BY <1>2, <1>3 DEF Migration, At
<1>5. HistoryTypeOK'
  BY <1>2, <1>4 DEF HistoryIInv, HistoryTypeOK
<1>6. MigrationTyped'
  BY <1>4 DEF MigrationTyped, At, AtLine
<1>7. Past' \subseteq Past
  BY <1>2, <1>4 DEF Past, At, AtLine
<1>8. AbroadIsDue'
  BY <1>2, AbroadStays DEF HistoryIInv
<1> QED BY <1>2, <1>4, <1>5, <1>6, <1>7, <1>8, GoesOn DEF At

\* Past the lines, the step from one stage to the next.
LEMMA LaterOn ==
    ASSUME HistoryIInv, UNCHANGED <<entry, taken, torn>>, HistoryTypeOK', MigrationTyped',
           migration.at \in {"questions", "filed", "classify"},
           migration'.at \in {"questions", "filed", "classify"},
           migration'.book = migration.book, AbroadIsDue'
    PROVE  HistoryIInv'
<1>1. Past' = Past
  BY DEF Past, At, AtLine
<1> QED BY <1>1, GoesOn DEF At

\* What an import may say of a question it does not settle by the book.
LEMMA AskedShape ==
    ASSUME NEW l \in Line, NEW remark \in Remark
    PROVE  Asked(l, remark) \in Question /\ Asked(l, remark).about = remark
BY DEF Asked, Question

LEMMA QuestionUpdates ==
    ASSUME NEW q \in Question
    PROVE  /\ [q EXCEPT !.state = "resolved"] \in Question
           /\ [q EXCEPT !.state = "resolved"].state = "resolved"
           /\ [q EXCEPT !.state = "resolved"].about = q.about
BY DEF Question

LEMMA NextQuestion ==
    ASSUME HistoryIInv, At("questions"), migration.left # {}
    PROVE  /\ Min(migration.left) \in migration.left /\ Min(migration.left) \in Line
           /\ migration.report[Min(migration.left)] \in Remark
           /\ migration.left \subseteq Line
<1>1. migration.left \subseteq DOMAIN migration.report /\ DOMAIN migration.report \subseteq Line
  BY HistoryConstants, MigrationFields DEF HistoryIInv, MigrationTyped
<1>2. migration.left \in SUBSET Nat
  BY <1>1, HistoryConstants
<1>3. Min(migration.left) \in migration.left
  BY <1>2, MinIsLeast
<1> QED BY <1>1, <1>3, HistoryConstants, MigrationFields DEF HistoryIInv, MigrationTyped

\* What an import and a person may do to a question.
QuestionStands(l) ==
    LET before == question[l]
        after == question'[l]
    IN  /\ before.state = "resolved" /\ after.state = "open" => after.about # before.about
        /\ after.about # before.about => after.state = "open"

LEMMA AskStands ==
    ASSUME HistoryIInv, Ask
    PROVE  question' \in [Line -> Question] /\ \A l \in Line : QuestionStands(l)
<1> DEFINE l == Min(migration.left)
           remark == migration.report[l]
<1>1. l \in Line /\ remark \in Remark
  BY NextQuestion DEF Ask
<1>2. question \in [Line -> Question]
  BY DEF HistoryIInv, HistoryTypeOK, Question
<1>3. question[l] \in Question
  BY <1>1, <1>2
<1>4. CASE ~SettledByBook(l)
  <2>1. question' = [question EXCEPT ![l] = Asked(l, remark)]
    BY <1>4 DEF Ask
  <2>2. Asked(l, remark) \in Question /\ Asked(l, remark).about = remark
    BY <1>1, AskedShape
  <2>3. question[l].state = "resolved" /\ Asked(l, remark).state = "open" => remark # question[l].about
    BY <1>3 DEF Asked, Question
  <2>4. remark # question[l].about => Asked(l, remark).state = "open"
    BY DEF Asked
  <2> QED BY <1>1, <1>2, <2>1, <2>2, <2>3, <2>4 DEF QuestionStands
<1>5. CASE SettledByBook(l) /\ question[l].state = "open"
  <2>1. question' = [question EXCEPT ![l] = [question[l] EXCEPT !.state = "resolved"]]
    BY <1>2, <1>3, <1>5 DEF Ask, Question
  <2> QED BY <1>1, <1>2, <1>3, <2>1, QuestionUpdates DEF QuestionStands
<1>6. CASE SettledByBook(l) /\ question[l].state # "open"
  BY <1>2, <1>6 DEF Ask, QuestionStands
<1> QED BY <1>4, <1>5, <1>6

LEMMA AskKeeps == ASSUME HistoryIInv, Ask PROVE HistoryIInv'
<1> DEFINE l == Min(migration.left)
<1>1. /\ At("questions") /\ migration.left # {}
      /\ migration' = [migration EXCEPT !.left = @ \ {l}]
      /\ UNCHANGED <<entry, declared, shutting, shut, migrations, byHand, taken, torn, unclassified>>
  BY DEF Ask, Ghosts
<1>2. migration \in Migration
  BY DEF HistoryIInv, MigrationTyped
<1>3. /\ migration'.at = "questions" /\ migration'.book = migration.book
      /\ migration'.left = migration.left \ {l} /\ migration'.report = migration.report
      /\ migration' \in Migration
  BY <1>1, <1>2 DEF Migration, At
<1>4. HistoryTypeOK'
  BY <1>1, <1>3, AskStands DEF HistoryIInv, HistoryTypeOK, Question
<1>5. MigrationTyped'
  BY <1>1, <1>3 DEF HistoryIInv, MigrationTyped, At, AtLine
<1>6. AbroadIsDue'
  BY <1>1, AbroadStays DEF HistoryIInv
<1> QED BY <1>1, <1>3, <1>4, <1>5, <1>6, LaterOn DEF At

LEMMA ResolveStaleStands ==
    ASSUME HistoryIInv, ResolveStale
    PROVE  question' \in [Line -> Question] /\ \A l \in Line : QuestionStands(l)
<1>1. question \in [Line -> Question]
  BY DEF HistoryIInv, HistoryTypeOK, Question
<1>2. ASSUME NEW l \in Line PROVE question'[l] \in Question /\ QuestionStands(l)
  <2>1. \/ question'[l] = question[l]
        \/ question'[l] = [question[l] EXCEPT !.state = "resolved"]
    BY DEF ResolveStale
  <2>2. question[l] \in Question
    BY <1>1
  <2> QED BY <2>1, <2>2, QuestionUpdates DEF QuestionStands
<1>3. question' = [l \in Line |-> question'[l]]
  BY DEF ResolveStale
<1> QED BY <1>2, <1>3

LEMMA ResolveStaleKeeps == ASSUME HistoryIInv, ResolveStale PROVE HistoryIInv'
<1>1. /\ At("questions")
      /\ migration' = [migration EXCEPT !.at = "filed", !.report = << >>,
                           !.left = migration.inventory, !.inventory = {}]
      /\ UNCHANGED <<entry, declared, shutting, shut, migrations, byHand, taken, torn, unclassified>>
  BY DEF ResolveStale, Ghosts
<1>2. migration \in Migration /\ migration.inventory \subseteq HistoryQuarter
  BY MigrationFields DEF HistoryIInv, MigrationTyped
<1>3. /\ migration'.at = "filed" /\ migration'.book = migration.book
      /\ migration'.left = migration.inventory /\ migration' \in Migration
  BY <1>1, <1>2 DEF Migration, At
<1>4. HistoryTypeOK'
  BY <1>1, <1>3, ResolveStaleStands DEF HistoryIInv, HistoryTypeOK, Question
<1>5. MigrationTyped'
  BY <1>2, <1>3 DEF MigrationTyped, At, AtLine
<1>6. AbroadIsDue'
  BY <1>1, AbroadStays DEF HistoryIInv
<1> QED BY <1>1, <1>3, <1>4, <1>5, <1>6, LaterOn DEF At

LEMMA EndInventoryKeeps == ASSUME HistoryIInv, EndInventory PROVE HistoryIInv'
<1> DEFINE quarters == {Of[migration.book[l]] : l \in DOMAIN migration.book}
<1>1. /\ At("filed")
      /\ migration' = [migration EXCEPT !.at = "classify", !.left = quarters]
      /\ UNCHANGED <<entry, question, declared, shutting, shut, migrations, byHand, taken, torn, unclassified>>
  BY DEF EndInventory, Tables, Ghosts
<1>2. migration \in Migration /\ quarters \subseteq HistoryQuarter
  BY HistoryConstants, MigrationFields DEF HistoryIInv, MigrationTyped
<1>3. /\ migration'.at = "classify" /\ migration'.book = migration.book
      /\ migration'.left = quarters /\ migration' \in Migration
  BY <1>1, <1>2 DEF Migration, At
<1>4. HistoryTypeOK'
  BY <1>1, <1>3 DEF HistoryIInv, HistoryTypeOK
<1>5. MigrationTyped'
  BY <1>2, <1>3 DEF MigrationTyped, At, AtLine
<1>6. AbroadIsDue'
  BY <1>1, AbroadStays DEF HistoryIInv
<1> QED BY <1>1, <1>3, <1>4, <1>5, <1>6, LaterOn DEF At

LEMMA InventoryKeeps == ASSUME HistoryIInv, NEW q \in HistoryQuarter, Inventory(q) PROVE HistoryIInv'
<1>1. /\ At("filed")
      /\ migration' = [migration EXCEPT !.left = @ \ {q}]
      /\ UNCHANGED <<entry, question, shutting, shut, migrations, byHand, taken, torn, unclassified>>
  BY DEF Inventory, Ghosts
<1>2. migration \in Migration
  BY DEF HistoryIInv, MigrationTyped
<1>3. /\ migration'.at = "filed" /\ migration'.book = migration.book
      /\ migration'.left = migration.left \ {q} /\ migration' \in Migration
  BY <1>1, <1>2 DEF Migration, At
<1>4. declared' = [declared EXCEPT ![q] = "filed"]
  BY DEF Inventory, Declares, HistoryIInv, HistoryTypeOK
<1>5. HistoryTypeOK'
  BY <1>1, <1>3, <1>4 DEF HistoryIInv, HistoryTypeOK
<1>6. MigrationTyped'
  BY <1>1, <1>3 DEF HistoryIInv, MigrationTyped, At, AtLine
<1>7. \A p \in HistoryQuarter : declared'[p] = IF p = q THEN "filed" ELSE declared[p]
  BY <1>4 DEF HistoryIInv, HistoryTypeOK
<1>8. AbroadIsDue'
  BY <1>1, <1>7, RowQuarter DEF HistoryIInv, AbroadIsDue, Gone
<1> QED BY <1>1, <1>3, <1>5, <1>6, <1>8, LaterOn DEF At

LEMMA ClassifyKeeps == ASSUME HistoryIInv, NEW q \in HistoryQuarter, Classify(q) PROVE HistoryIInv'
<1>1. /\ At("classify")
      /\ migration' = [migration EXCEPT !.left = @ \ {q}]
      /\ unclassified' = IF q \in shutting THEN unclassified \cup {q} ELSE unclassified \ {q}
      /\ UNCHANGED <<entry, question, shutting, shut, migrations, byHand, taken, torn>>
  BY DEF Classify
<1>2. migration \in Migration
  BY DEF HistoryIInv, MigrationTyped
<1>3. /\ migration'.at = "classify" /\ migration'.book = migration.book
      /\ migration'.left = migration.left \ {q} /\ migration' \in Migration
  BY <1>1, <1>2 DEF Migration, At
<1>4. \/ declared' = declared /\ declared[q] = "filed"
      \/ /\ q \notin shut
         /\ declared' = [declared EXCEPT ![q] = IF Reportable(q) # {} THEN "due" ELSE "waived"]
  BY DEF Classify, Declares
<1>5. HistoryTypeOK'
  BY <1>1, <1>3, <1>4 DEF HistoryIInv, HistoryTypeOK
<1>6. MigrationTyped'
  BY <1>1, <1>3 DEF HistoryIInv, MigrationTyped, At, AtLine
<1>7. \A p \in HistoryQuarter \ {q} : declared'[p] = declared[p]
  BY <1>4 DEF HistoryIInv, HistoryTypeOK
<1>8. Reportable(q) # {} =>
          \/ declared'[q] = "filed" \/ (declared'[q] = "due" /\ q \notin shut)
  BY <1>4 DEF HistoryIInv, HistoryTypeOK
<1>9. AbroadIsDue'
  <2> SUFFICES ASSUME NEW l \in Line, entry[l].treat \in Abroad, entry[l].row # None, ~Gone(l),
                      Of[entry[l].row] \notin unclassified'
               PROVE  LET p == Of[entry[l].row]
                      IN  \/ declared'[p] = "filed"
                          \/ declared'[p] = "due" /\ p \notin shut \cup shutting
    BY <1>1 DEF AbroadIsDue, Gone
  <2>1. Of[entry[l].row] \in HistoryQuarter
    BY RowQuarter DEF HistoryIInv
  <2>2. CASE Of[entry[l].row] = q
    BY <1>1, <1>8, <2>2 DEF Reportable
  <2>3. CASE Of[entry[l].row] # q
    BY <1>1, <1>7, <2>1, <2>3 DEF HistoryIInv, AbroadIsDue
  <2> QED BY <2>2, <2>3
<1> QED BY <1>1, <1>3, <1>5, <1>6, <1>9, LaterOn DEF At

LEMMA EndMigrationKeeps == ASSUME HistoryIInv, EndMigration PROVE HistoryIInv'
<1>1. /\ At("classify") /\ migration' = Resting /\ taken' = migration.book
      /\ UNCHANGED <<entry, question, shutting, shut, migrations, byHand, torn, unclassified>>
      /\ \A q \in HistoryQuarter : declared[q] = None => q \notin shut
      /\ declared' = [q \in HistoryQuarter |-> IF declared[q] = None THEN "unknown" ELSE declared[q]]
  BY DEF EndMigration
<1>2. migration.book \in Books \cup {<< >>} /\ DOMAIN << >> = {}
  BY MigrationFields DEF HistoryIInv, MigrationTyped
<1>3. Past = DOMAIN migration.book /\ Past' = {}
  BY <1>1, <1>2 DEF Past, At, AtLine, Resting
<1>4. HistoryTypeOK'
  BY <1>1 DEF HistoryIInv, HistoryTypeOK, Resting
<1>5. MigrationTyped'
  BY <1>1 DEF MigrationTyped, Migration, Resting, At, AtLine
<1>6. RowComesFirst' /\ TornIsKnown'
  BY <1>1 DEF HistoryIInv, RowComesFirst, TornIsKnown, At, Resting, Gone
<1>7. PastIsBooked'
  BY <1>1, <1>2, <1>3 DEF HistoryIInv, PastIsBooked, BookedAs, Gone, At, Resting
<1>8. AbroadIsDue'
  BY <1>1, RowQuarter, HistoryConstants DEF HistoryIInv, AbroadIsDue, Gone
<1> QED BY <1>4, <1>5, <1>6, <1>7, <1>8 DEF HistoryIInv

-----------------------------------------------------------------------------
(* Steps that write an entry *)

\* The line at work.
LEMMA LineAtWork ==
    ASSUME HistoryIInv, AtLine
    PROVE  LET l == migration.line
           IN  /\ l \in Line /\ l \in DOMAIN migration.book /\ l \notin migration.left
               /\ migration.book[l] \in Content /\ entry[l] \in Entry
               /\ migration.left \subseteq DOMAIN migration.book
BY HistoryConstants, MigrationFields DEF HistoryIInv, MigrationTyped, HistoryTypeOK, Entry

\* An entry but for line l is what it was.
OnlyLine(l) == \A k \in Line \ {l} : entry'[k] = entry[k]

LEMMA WriteDocumentKeeps == ASSUME HistoryIInv, WriteDocument PROVE HistoryIInv'
<1> DEFINE l == migration.line
           c == migration.book[l]
<1>1. /\ At("document") /\ migration' = [migration EXCEPT !.at = "row"]
      /\ entry' = [entry EXCEPT ![l] = [entry[l] EXCEPT !.doc = c]]
      /\ UNCHANGED <<question, declared, shutting, shut, migrations, byHand, taken, torn, unclassified>>
  BY LineAtWork DEF WriteDocument, Ghosts, At, AtLine, HistoryIInv, HistoryTypeOK
<1>2. /\ l \in Line /\ l \in DOMAIN migration.book /\ l \notin migration.left
      /\ c \in Content /\ entry[l] \in Entry /\ entry \in [Line -> Entry]
  BY <1>1, LineAtWork DEF At, AtLine, HistoryIInv, HistoryTypeOK, Entry
<1>3. migration \in Migration
  BY DEF HistoryIInv, MigrationTyped
<1>4. /\ migration'.at = "row" /\ migration'.book = migration.book /\ migration'.left = migration.left
      /\ migration'.line = l /\ migration'.status = migration.status /\ migration' \in Migration
  BY <1>1, <1>3 DEF Migration
<1>5. entry' \in [Line -> Entry]
  BY <1>1, <1>2, EntryUpdates
<1>6. \A k \in Line : /\ entry'[k].row = entry[k].row /\ entry'[k].treat = entry[k].treat
                      /\ entry'[k].status = entry[k].status
  BY <1>1, <1>2 DEF Entry
<1>7. HistoryTypeOK'
  BY <1>1, <1>4, <1>5 DEF HistoryIInv, HistoryTypeOK, Entry
<1>8. MigrationTyped'
  BY <1>1, <1>4 DEF HistoryIInv, MigrationTyped, At, AtLine
<1>9. RowComesFirst' /\ TornIsKnown' /\ AbroadIsDue'
  BY <1>1, <1>4, <1>6 DEF HistoryIInv, RowComesFirst, TornIsKnown, AbroadIsDue, At, Gone
<1>10. Past' = Past /\ Past \subseteq Line /\ DOMAIN taken = {}
  BY <1>1, <1>3, <1>4, HistoryConstants, MigrationFields
     DEF Past, At, AtLine, HistoryIInv, PastIsBooked
<1>11. PastIsBooked'
  BY <1>1, <1>4, <1>6, <1>10 DEF HistoryIInv, PastIsBooked, BookedAs, Gone, At
<1> QED BY <1>7, <1>8, <1>9, <1>11 DEF HistoryIInv

LEMMA WriteRowKeeps == ASSUME HistoryIInv, WriteRow PROVE HistoryIInv'
<1> DEFINE l == migration.line
           c == migration.book[l]
           s == migration.status
<1>1. /\ At("row") /\ migration' = [migration EXCEPT !.at = "treatment"]
      /\ entry' = [entry EXCEPT ![l] = [entry[l] EXCEPT !.row = c, !.status = s]]
      /\ unclassified' = unclassified \cup {Of[c]}
      /\ UNCHANGED <<question, declared, shutting, shut, migrations, byHand, taken, torn>>
  BY LineAtWork DEF WriteRow, At, AtLine, HistoryIInv, HistoryTypeOK, Entry
<1>2. /\ l \in Line /\ l \in DOMAIN migration.book /\ l \notin migration.left
      /\ c \in Content /\ entry[l] \in Entry /\ entry \in [Line -> Entry]
      /\ s \in {"approved", "posted"}
  BY <1>1, LineAtWork DEF At, AtLine, HistoryIInv, HistoryTypeOK, Entry, MigrationTyped
<1>3. migration \in Migration
  BY DEF HistoryIInv, MigrationTyped
<1>4. /\ migration'.at = "treatment" /\ migration'.book = migration.book /\ migration'.left = migration.left
      /\ migration'.line = l /\ migration'.status = migration.status /\ migration' \in Migration
  BY <1>1, <1>3 DEF Migration
<1>5. entry' \in [Line -> Entry]
  BY <1>1, <1>2, EntryUpdates
<1>6. /\ OnlyLine(l) /\ entry'[l].row = c /\ entry'[l].treat = entry[l].treat /\ entry'[l].status = s
  BY <1>1, <1>2 DEF Entry, OnlyLine
<1>7. HistoryTypeOK'
  BY <1>1, <1>2, <1>4, <1>5, HistoryConstants DEF HistoryIInv, HistoryTypeOK, Entry
<1>8. MigrationTyped'
  BY <1>1, <1>4 DEF HistoryIInv, MigrationTyped, At, AtLine
<1>9. RowComesFirst'
  BY <1>2, <1>4, <1>6, HistoryConstants DEF RowComesFirst
<1>10. TornIsKnown'
  BY <1>1, <1>4, <1>6 DEF HistoryIInv, TornIsKnown, At, Gone, OnlyLine
<1>11. AbroadIsDue'
  BY <1>1, <1>6 DEF HistoryIInv, AbroadIsDue, Gone, OnlyLine
<1>12. Past' = Past /\ Past \subseteq Line \ {l} /\ DOMAIN taken = {}
  BY <1>1, <1>3, <1>4, HistoryConstants, MigrationFields
     DEF Past, At, AtLine, HistoryIInv, PastIsBooked
<1>13. PastIsBooked'
  BY <1>1, <1>4, <1>6, <1>12 DEF HistoryIInv, PastIsBooked, BookedAs, Gone, At, OnlyLine
<1> QED BY <1>7, <1>8, <1>9, <1>10, <1>11, <1>13 DEF HistoryIInv

LEMMA WriteTreatmentKeeps == ASSUME HistoryIInv, WriteTreatment PROVE HistoryIInv'
<1> DEFINE l == migration.line
           c == migration.book[l]
<1>1. /\ At("treatment") /\ migration' = [migration EXCEPT !.at = "lines"]
      /\ entry' = [entry EXCEPT ![l] = [entry[l] EXCEPT !.treat = c]]
      /\ unclassified' = unclassified \cup {Of[entry[l].row]}
      /\ torn' = torn \ {l}
      /\ UNCHANGED <<question, declared, shutting, shut, migrations, byHand, taken>>
  BY LineAtWork DEF WriteTreatment, At, AtLine, HistoryIInv, HistoryTypeOK, Entry
<1>2. /\ l \in Line /\ l \in DOMAIN migration.book /\ l \notin migration.left
      /\ c \in Content /\ entry[l] \in Entry /\ entry \in [Line -> Entry]
  BY <1>1, LineAtWork DEF At, AtLine, HistoryIInv, HistoryTypeOK, Entry
<1>3. migration \in Migration
  BY DEF HistoryIInv, MigrationTyped
<1>4. /\ migration'.at = "lines" /\ migration'.book = migration.book /\ migration'.left = migration.left
      /\ migration' \in Migration
  BY <1>1, <1>3 DEF Migration
<1>5. entry' \in [Line -> Entry]
  BY <1>1, <1>2, EntryUpdates
<1>6. /\ OnlyLine(l) /\ entry'[l].row = entry[l].row /\ entry'[l].treat = c
      /\ entry'[l].status = entry[l].status
  BY <1>1, <1>2 DEF Entry, OnlyLine
<1>r. Of[entry[l].row] \in HistoryQuarter
  BY <1>1, <1>2, RowQuarter DEF HistoryIInv, RowComesFirst
<1>7. HistoryTypeOK'
  BY <1>1, <1>r, <1>4, <1>5 DEF HistoryIInv, HistoryTypeOK, Entry
<1>8. MigrationTyped'
  BY <1>1, <1>4 DEF HistoryIInv, MigrationTyped, At, AtLine
<1>9. RowComesFirst'
  BY <1>4 DEF RowComesFirst, At
<1>w. Gone(l) \/ entry[l].row = c
  BY <1>1 DEF HistoryIInv, RowComesFirst
<1>10. TornIsKnown'
  BY <1>1, <1>w, <1>4, <1>6 DEF HistoryIInv, TornIsKnown, At, Gone, OnlyLine
<1>11. AbroadIsDue'
  BY <1>1, <1>6 DEF HistoryIInv, AbroadIsDue, Gone, OnlyLine
<1>12. Past' \subseteq Past \cup {l} /\ Past \subseteq Line \ {l} /\ DOMAIN taken = {}
  BY <1>1, <1>3, <1>4, HistoryConstants, MigrationFields
     DEF Past, At, AtLine, HistoryIInv, PastIsBooked
<1>13. PastIsBooked'
  BY <1>1, <1>4, <1>6, <1>w, <1>12 DEF HistoryIInv, PastIsBooked, BookedAs, Gone, At, OnlyLine
<1> QED BY <1>7, <1>8, <1>9, <1>10, <1>11, <1>13 DEF HistoryIInv

-----------------------------------------------------------------------------
(* People *)

LEMMA AnswerKeeps == ASSUME HistoryIInv, NEW l \in Line, Answer(l) PROVE HistoryIInv'
<1>1. question' \in [Line -> Question]
  BY QuestionUpdates DEF Answer, HistoryIInv, HistoryTypeOK, Question
<1>2. UNCHANGED <<entry, declared, shutting, shut, migration, migrations, byHand, taken, torn, unclassified>>
  BY DEF Answer, Person, Ghosts
<1>3. HistoryTypeOK'
  BY <1>1, <1>2 DEF HistoryIInv, HistoryTypeOK, Question
<1>4. MigrationTyped' /\ RowComesFirst' /\ TornIsKnown' /\ AbroadIsDue' /\ PastIsBooked'
  BY <1>2 DEF HistoryIInv, MigrationTyped, RowComesFirst, TornIsKnown, AbroadIsDue, PastIsBooked,
              Past, BookedAs, Gone, At, AtLine
<1> QED BY <1>3, <1>4 DEF HistoryIInv

LEMMA MoveKeeps ==
    ASSUME HistoryIInv, NEW l \in Line, NEW s \in {"posted", "rejected"}, Move(l, s)
    PROVE  HistoryIInv'
<1>1. entry \in [Line -> Entry] /\ entry[l] \in Entry /\ entry[l].status = "approved"
  BY DEF Move, HistoryIInv, HistoryTypeOK, Entry
<1>2. entry' = [entry EXCEPT ![l] = [entry[l] EXCEPT !.status = s]]
  BY <1>1 DEF Move
<1>3. UNCHANGED <<question, declared, shutting, shut, migration, migrations, byHand, taken, torn, unclassified>>
  BY DEF Move, Person, Ghosts
<1>4. entry' \in [Line -> Entry]
  BY <1>1, <1>2, EntryUpdates
<1>5. \A k \in Line : /\ entry'[k].row = entry[k].row /\ entry'[k].treat = entry[k].treat
                      /\ entry'[k].status = IF k = l THEN s ELSE entry[k].status
                      /\ Gone(k) => Gone(k)'
  BY <1>1, <1>2 DEF Entry, Gone, Dropped
<1>6. HistoryTypeOK'
  BY <1>3, <1>4 DEF HistoryIInv, HistoryTypeOK, Entry
<1>7. MigrationTyped'
  BY <1>3 DEF HistoryIInv, MigrationTyped, At, AtLine
<1>8. RowComesFirst'
  BY <1>3, <1>5, LineAtWork DEF HistoryIInv, RowComesFirst, At, AtLine
<1>9. TornIsKnown' /\ AbroadIsDue'
  BY <1>3, <1>5 DEF HistoryIInv, TornIsKnown, AbroadIsDue, At
<1>10. Past \subseteq Line /\ DOMAIN taken \subseteq Line /\ Past' = Past
  BY <1>3, HistoryConstants, MigrationFields DEF Past, At, AtLine, HistoryIInv, PastIsBooked, MigrationTyped
<1>11. PastIsBooked'
  BY <1>3, <1>5, <1>10 DEF HistoryIInv, PastIsBooked, BookedAs, At
<1> QED BY <1>6, <1>7, <1>8, <1>9, <1>11 DEF HistoryIInv

\* A line treated by hand is torn, and its quarter to be classified again.
LEMMA TreatKeeps ==
    ASSUME HistoryIInv, NEW l \in Line, NEW c \in Content, Treat(l, c)
    PROVE  HistoryIInv'
<1>1. entry \in [Line -> Entry] /\ entry[l] \in Entry /\ entry[l].row # None
  BY DEF Treat, HistoryIInv, HistoryTypeOK, Entry
<1>2. entry' = [entry EXCEPT ![l] = [entry[l] EXCEPT !.treat = c]]
  BY <1>1 DEF Treat
<1>3. /\ torn' = torn \cup {l} /\ unclassified' = unclassified \cup {Of[entry[l].row]}
      /\ UNCHANGED <<question, declared, shutting, shut, migration, migrations, taken>>
      /\ byHand' \in 0..MaxByHand
  BY HistoryAssumption DEF Treat, ByHand, HistoryIInv, HistoryTypeOK, HistoryAssumption
<1>4. entry' \in [Line -> Entry]
  BY <1>1, <1>2, EntryUpdates
<1>5. /\ OnlyLine(l) /\ entry'[l].row = entry[l].row /\ entry'[l].status = entry[l].status
      /\ \A k \in Line : (Gone(k) <=> Gone(k)') /\ entry'[k].row = entry[k].row
  BY <1>1, <1>2 DEF Entry, OnlyLine, Gone
<1>6. HistoryTypeOK'
  BY <1>1, <1>3, <1>4, RowQuarter DEF HistoryIInv, HistoryTypeOK, Entry
<1>7. MigrationTyped'
  BY <1>3 DEF HistoryIInv, MigrationTyped, At, AtLine
<1>8. RowComesFirst'
  BY <1>3, <1>5, LineAtWork DEF HistoryIInv, RowComesFirst, At, AtLine
<1>9. TornIsKnown' /\ AbroadIsDue'
  BY <1>3, <1>5 DEF HistoryIInv, TornIsKnown, AbroadIsDue, At, OnlyLine
<1>10. Past \subseteq Line /\ DOMAIN taken \subseteq Line /\ Past' = Past
  BY <1>3, HistoryConstants, MigrationFields DEF Past, At, AtLine, HistoryIInv, PastIsBooked, MigrationTyped
<1>11. PastIsBooked'
  BY <1>3, <1>5, <1>10 DEF HistoryIInv, PastIsBooked, BookedAs, At, OnlyLine
<1> QED BY <1>6, <1>7, <1>8, <1>9, <1>11 DEF HistoryIInv

\* A declaration marked as anything but filed has to be classified again.
LEMMA MarkKeeps ==
    ASSUME HistoryIInv, NEW q \in HistoryQuarter,
           NEW status \in {"unknown", "due", "waived", "filed"}, Mark(q, status)
    PROVE  HistoryIInv'
<1>1. /\ declared' = [declared EXCEPT ![q] = status]
      /\ unclassified' = IF status = "filed" THEN unclassified ELSE unclassified \cup {q}
      /\ UNCHANGED <<entry, question, shutting, shut, migration, migrations, taken, torn>>
      /\ byHand' \in 0..MaxByHand
  BY HistoryAssumption DEF Mark, Declares, ByHand, HistoryIInv, HistoryTypeOK, HistoryAssumption
<1>2. HistoryTypeOK'
  BY <1>1 DEF HistoryIInv, HistoryTypeOK
<1>3. MigrationTyped' /\ RowComesFirst' /\ TornIsKnown' /\ PastIsBooked'
  BY <1>1 DEF HistoryIInv, MigrationTyped, RowComesFirst, TornIsKnown, PastIsBooked,
              Past, BookedAs, Gone, At, AtLine
<1>4. \A p \in HistoryQuarter : declared'[p] = IF p = q THEN status ELSE declared[p]
  BY <1>1 DEF HistoryIInv, HistoryTypeOK
<1>5. AbroadIsDue'
  BY <1>1, <1>4, RowQuarter DEF HistoryIInv, AbroadIsDue, Gone
<1> QED BY <1>2, <1>3, <1>5 DEF HistoryIInv

LEMMA BeginCloseHistoryKeeps ==
    ASSUME HistoryIInv, NEW q \in HistoryQuarter, BeginCloseHistory(q)
    PROVE  HistoryIInv'
<1>1. /\ declared[q] # "due" /\ shutting' = shutting \cup {q}
      /\ UNCHANGED <<entry, question, declared, shut, migration, migrations, byHand, taken, torn, unclassified>>
  BY DEF BeginCloseHistory, Person
<1>2. HistoryTypeOK'
  BY <1>1 DEF HistoryIInv, HistoryTypeOK
<1>3. MigrationTyped' /\ RowComesFirst' /\ TornIsKnown' /\ PastIsBooked'
  BY <1>1 DEF HistoryIInv, MigrationTyped, RowComesFirst, TornIsKnown, PastIsBooked,
              Past, BookedAs, Gone, At, AtLine
<1>4. AbroadIsDue'
  BY <1>1 DEF HistoryIInv, AbroadIsDue, Gone
<1> QED BY <1>2, <1>3, <1>4 DEF HistoryIInv

LEMMA EndCloseHistoryKeeps ==
    ASSUME HistoryIInv, NEW q \in HistoryQuarter, EndCloseHistory(q)
    PROVE  HistoryIInv'
<1>1. /\ shutting' = shutting \ {q} /\ shut' = shut \cup {q} /\ q \in shutting
      /\ UNCHANGED <<entry, question, declared, migration, migrations, byHand, taken, torn, unclassified>>
  BY DEF EndCloseHistory, Person
<1>2. HistoryTypeOK'
  BY <1>1 DEF HistoryIInv, HistoryTypeOK
<1>3. MigrationTyped' /\ RowComesFirst' /\ TornIsKnown' /\ PastIsBooked'
  BY <1>1 DEF HistoryIInv, MigrationTyped, RowComesFirst, TornIsKnown, PastIsBooked,
              Past, BookedAs, Gone, At, AtLine
<1>4. AbroadIsDue'
  BY <1>1 DEF HistoryIInv, AbroadIsDue, Gone
<1> QED BY <1>2, <1>3, <1>4 DEF HistoryIInv

-----------------------------------------------------------------------------

LEMMA HistoryStep == HistoryIInv /\ HistoryNext => HistoryIInv'
BY BeginMigrationKeeps, SkipKeeps, CheckKeeps, WriteDocumentKeeps, WriteRowKeeps, WriteTreatmentKeeps,
   EndLinesKeeps, AskKeeps, ResolveStaleKeeps, EndInventoryKeeps, EndMigrationKeeps, StopKeeps,
   InventoryKeeps, ClassifyKeeps, MarkKeeps, BeginCloseHistoryKeeps, EndCloseHistoryKeeps, AnswerKeeps,
   MoveKeeps, TreatKeeps DEF HistoryNext

LEMMA HistoryStutter == HistoryIInv /\ UNCHANGED historyVars => HistoryIInv'
BY DEF historyVars, HistoryIInv, HistoryTypeOK, MigrationTyped, RowComesFirst, TornIsKnown,
       PastIsBooked, AbroadIsDue, Past, BookedAs, Gone, At, AtLine

LEMMA HistoryHolds == HistoryIInv => HistoryInv
BY DEF HistoryIInv, HistoryInv, TakenIsBooked, ClosedDeclares, PastIsBooked, BookedAs, AbroadIsDue, Gone

\* QuestionsStand, step by step.
LEMMA QuestionStep == HistoryIInv /\ HistoryNext => \A l \in Line : QuestionStands(l)
<1> SUFFICES ASSUME HistoryIInv, HistoryNext, UNCHANGED question \/ \E l \in Line : Answer(l)
             PROVE  \A l \in Line : QuestionStands(l)
  BY AskStands, ResolveStaleStands
     DEF HistoryNext, Tables, BeginMigration, Skip, Check, WriteDocument, WriteRow, WriteTreatment,
         EndLines, EndInventory, EndMigration, Stop, Inventory, Classify, Mark, BeginCloseHistory,
         EndCloseHistory, Move, Treat
<1>1. question \in [Line -> Question]
  BY DEF HistoryIInv, HistoryTypeOK, Question
<1>2. CASE UNCHANGED question
  BY <1>2 DEF QuestionStands
<1>3. ASSUME NEW l \in Line, Answer(l) PROVE \A k \in Line : QuestionStands(k)
  <2>1. question' = [question EXCEPT ![l] = [question[l] EXCEPT !.state = "resolved"]]
    BY <1>1, <1>3 DEF Answer
  <2> QED BY <1>1, <2>1, QuestionUpdates DEF QuestionStands
<1> QED BY <1>2, <1>3

-----------------------------------------------------------------------------
(* The connections together *)

ConnectionsIInv == RaceIInv /\ StatementsIInv /\ HistoryIInv

LEMMA RaceStart == Init => RaceIInv
<1> SUFFICES ASSUME Init PROVE RaceIInv
  OBVIOUS
<1>1. rows \in [Transaction -> Row]
  BY RaceAssumption DEF RaceAssumption, Init, Row
<1>2. \A t \in Transaction : rows[t].status # "included_in_snapshot"
  BY DEF Init
<1> QED BY <1>1, <1>2 DEF Init, RaceIInv, TypeOK, PendingSound, FiledIsClosed

LEMMA RaceStep == RaceIInv /\ Next => RaceIInv'
BY ReadKeeps, WriteKeeps, PacketKeeps, AbandonKeeps DEF Next

LEMMA RaceStutter == RaceIInv /\ UNCHANGED vars => RaceIInv'
BY DEF RaceIInv, TypeOK, PendingSound, Sound, FiledIsClosed, vars

LEMMA ConnectionsStep ==
    ConnectionsIInv /\ [Handlers \/ Imports \/ Migrations]_connectionsVars => ConnectionsIInv'
<1>1. ConnectionsIInv /\ Handlers => ConnectionsIInv'
  BY RaceStep, StatementsStutter, HistoryStutter DEF ConnectionsIInv, Handlers
<1>2. ConnectionsIInv /\ Imports => ConnectionsIInv'
  BY RaceStutter, StatementsStep, HistoryStutter DEF ConnectionsIInv, Imports
<1>3. ConnectionsIInv /\ Migrations => ConnectionsIInv'
  BY RaceStutter, StatementsStutter, HistoryStep DEF ConnectionsIInv, Migrations
<1>4. ConnectionsIInv /\ UNCHANGED connectionsVars => ConnectionsIInv'
  BY RaceStutter, StatementsStutter, HistoryStutter DEF ConnectionsIInv, connectionsVars
<1> QED BY <1>1, <1>2, <1>3, <1>4

\* ConnectionsIInv is inductive.
LEMMA ConnectionsInvariant == ConnectionsSpec => []ConnectionsIInv
<1>1. ConnectionsInit => ConnectionsIInv
  BY RaceStart, StatementsStart, HistoryStart DEF ConnectionsInit, ConnectionsIInv
<1> QED BY <1>1, ConnectionsStep, PTL DEF ConnectionsSpec

\* TypeOK: whatever a stale handler writes back, a row stays a row.
THEOREM RaceTypes == ConnectionsSpec => []TypeOK
BY ConnectionsInvariant, PTL DEF ConnectionsIInv, RaceIInv

\* FiledIsClosed: the quarter of a final snapshot never reads open again, and no
\* row counts as included without one, however many handlers are under way.
THEOREM FilingSurvivesRaces == ConnectionsSpec => []FiledIsClosed
BY ConnectionsInvariant, PTL DEF ConnectionsIInv, RaceIInv

\* StatementsInv: no payment counts twice and no journal row is settled twice,
\* whichever imports run, fail or are killed, unless one of them puts its copy
\* back over others' commits or two match at once; and a closed quarter has no
\* open issue on a missing line but what was on its way while it closed.
THEOREM StatementsCountOnce == ConnectionsSpec => []StatementsInv
BY ConnectionsInvariant, StatementsHold, PTL DEF ConnectionsIInv

\* ReportedIsRecorded: what an import reported is in the table, unless a failing
\* import put a copy back that was older than somebody's commit.
THEOREM ReportsAreRecorded == ConnectionsSpec => []ReportedIsRecorded
BY ConnectionsInvariant, StatementsHold, PTL DEF ConnectionsIInv

\* HistoryInv: what an import of the history took is booked as its export said,
\* wherever earlier ones stopped, unless a line was treated by hand or torn by
\* such a stop; and a quarter closes over operations in other member states only
\* when they were filed, unless it changed after an import had classified it.
THEOREM HistoryIsBooked == ConnectionsSpec => []HistoryInv
BY ConnectionsInvariant, HistoryHolds, PTL DEF ConnectionsIInv

\* QuestionsStand: the answer to a remark stands until the reconciliation says
\* something else, and what it says anew is always asked.
THEOREM AnswersStand == ConnectionsSpec => QuestionsStand
<1> DEFINE Stands == \A l \in Line : QuestionStands(l)
<1>1. ConnectionsIInv /\ [Handlers \/ Imports \/ Migrations]_connectionsVars => [Stands]_historyVars
  BY QuestionStep DEF ConnectionsIInv, Handlers, Imports, Migrations, connectionsVars
<1>2. ConnectionsSpec => [][Stands]_historyVars
  BY <1>1, ConnectionsInvariant, PTL DEF ConnectionsSpec
<1> QED BY <1>2 DEF QuestionsStand, QuestionStands
=============================================================================
