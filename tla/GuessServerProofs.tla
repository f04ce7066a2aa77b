--------------------------- MODULE GuessServerProofs ---------------------------
(***************************************************************************)
(* That no dead child is forgotten and that the clients get the numbers in *)
(* turn, for every number of children and clients and every number file;   *)
(* and of a game, that no client is misled and that the attempts are       *)
(* enough, for every size of a guess, however its bytes arrive.            *)
(***************************************************************************)
EXTENDS GuessServer, GuessGame, SequenceTheorems, FiniteSetTheorems, TLAPS

\* The children and the signal, without the numbers.
ChildrenTypeOK ==
  /\ cpc \in [Children -> {"none", "born", "playing", "zombie"}]
  /\ handler \in BOOLEAN
  /\ sigchld \in BOOLEAN

Noticed == ChildrenTypeOK /\ ZombieIsNoticed

(* Nobody is dead when the server starts.                                  *)
LEMMA InitNoticed == Init => Noticed
  BY DEF Init, Noticed, ChildrenTypeOK, ZombieIsNoticed

(* The loop of the parent gives birth and reaps nobody.                    *)
LEMMA MainNoticed == Noticed /\ (Main \/ ServerExits) => Noticed'
<1> SUFFICES ASSUME Noticed, Main \/ ServerExits PROVE Noticed'
  OBVIOUS
<1> USE DEF Noticed, ChildrenTypeOK, ZombieIsNoticed, child_vars, signal_vars
<1>1. CASE Accept
  BY <1>1 DEF Accept
<1>2. CASE GetNumber
  BY <1>2 DEF GetNumber
<1>3. ASSUME NEW p \in Children, Fork(p) PROVE Noticed'
  BY <1>3 DEF Fork, Birth
<1>4. CASE CloseNewFd
  BY <1>4 DEF CloseNewFd
<1>5. CASE ServerExits
  BY <1>5 DEF ServerExits
<1> QED
  BY <1>1, <1>2, <1>3, <1>4, <1>5 DEF Main

(* The signal is taken off before the handler looks for the dead, and the  *)
(* handler ends only when there are none.                                  *)
LEMMA HandlerNoticed == Noticed /\ Handler => Noticed'
<1> SUFFICES ASSUME Noticed, Handler PROVE Noticed'
  OBVIOUS
<1> USE DEF Noticed, ChildrenTypeOK, ZombieIsNoticed, child_vars, signal_vars
<1>1. CASE EnterHandler
  BY <1>1 DEF EnterHandler
<1>2. ASSUME NEW p \in Children, Reap(p) PROVE Noticed'
  BY <1>2 DEF Reap
<1>3. CASE LeaveHandler
  BY <1>3 DEF LeaveHandler
<1> QED
  BY <1>1, <1>2, <1>3 DEF Handler

(* A child that dies raises the signal, unless nobody is to reap it.       *)
LEMMA ChildNoticed ==
  ASSUME Noticed, NEW p \in Children, CloseListener(p) \/ ChildEnds(p)
  PROVE  Noticed'
<1> USE DEF Noticed, ChildrenTypeOK, ZombieIsNoticed, signal_vars
<1>1. CASE CloseListener(p)
  BY <1>1 DEF CloseListener
<1>2. CASE ChildEnds(p)
  BY <1>2 DEF ChildEnds
<1> QED
  BY <1>1, <1>2

(* No step of the server leaves a dead child unnoticed.                    *)
LEMMA NextNoticed == Noticed /\ [Next]_vars => Noticed'
<1> SUFFICES ASSUME Noticed, [Next]_vars PROVE Noticed'
  OBVIOUS
<1>1. CASE Main \/ ServerExits
  BY <1>1, MainNoticed
<1>2. CASE Handler
  BY <1>2, HandlerNoticed
<1>3. ASSUME NEW p \in Children, CloseListener(p) \/ ChildEnds(p) PROVE Noticed'
  BY <1>3, ChildNoticed
<1>4. CASE Connect \/ UNCHANGED vars
  BY <1>4 DEF Connect, vars, child_vars, signal_vars, Noticed, ChildrenTypeOK,
              ZombieIsNoticed
<1> QED
  BY <1>1, <1>2, <1>3, <1>4 DEF Next

(* "reap all dead processes" (server.c:33): whenever a child is dead, the  *)
(* signal is pending or the handler is still at work.                      *)
THEOREM TheDeadAreNoticed == Spec => []ZombieIsNoticed
<1>1. Noticed => ZombieIsNoticed
  BY DEF Noticed
<1> QED
  BY InitNoticed, NextNoticed, <1>1, PTL DEF Spec

--------------------------------------------------------------------------------
(* The position in the ring of numbers.                                    *)

LEMMA DivMod ==
  ASSUME NEW a \in Nat, NEW n \in Nat \ {0}
  PROVE  a \div n \in Nat /\ a % n \in 0 .. n - 1 /\ a = n * (a \div n) + (a % n)
  BY SMTT(30)

(* A number has one remainder.                                             *)
LEMMA OneRemainder ==
  ASSUME NEW n \in Nat \ {0}, NEW q \in Nat, NEW r \in 0 .. n - 1,
         NEW p \in Nat, NEW m \in 0 .. n - 1, n * q + r = n * p + m
  PROVE  r = m
<1>1. n * (p - q) = r - m
  OBVIOUS
<1>2. CASE p - q >= 1
  <2>1. n * (p - q) >= n
    BY <1>2
  <2> QED
    BY <1>1, <2>1
<1>3. CASE p - q <= -1
  <2>1. n * (p - q) <= -n
    BY <1>3
  <2> QED
    BY <1>1, <2>1
<1>4. CASE p = q
  BY <1>4
<1> QED
  BY <1>2, <1>3, <1>4

(* One step in the ring is the place of the next number.                   *)
LEMMA NextPlace ==
  ASSUME NEW a \in Nat, NEW n \in Nat \ {0}
  PROVE  ((a % n) + 1) % n = (a + 1) % n
<1> DEFINE q == a \div n
           m == a % n
           p == (a + 1) \div n
           r == (a + 1) % n
<1>1. q \in Nat /\ m \in 0 .. n - 1 /\ a = n * q + m
  BY DivMod
<1>2. p \in Nat /\ r \in 0 .. n - 1 /\ a + 1 = n * p + r
  <2>1. a + 1 \in Nat
    OBVIOUS
  <2> QED
    BY <2>1, DivMod
<1> HIDE DEF q, m, p, r
<1>3. CASE m + 1 < n
  <2>1. (m + 1) % n = m + 1
    BY <1>1, <1>3
  <2>2. n * p + r = n * q + (m + 1)
    BY <1>1, <1>2
  <2>3. r = m + 1
    BY <1>1, <1>2, <1>3, <2>2, OneRemainder
  <2> QED
    BY <2>1, <2>3 DEF m, r
<1>4. CASE m + 1 = n
  <2>1. (m + 1) % n = 0
    BY <1>1, <1>4
  <2>2. n * p + r = n * (q + 1) + 0
    BY <1>1, <1>2, <1>4
  <2>3. q + 1 \in Nat /\ 0 \in 0 .. n - 1
    BY <1>1
  <2>4. r = 0
    BY <1>2, <2>2, <2>3, OneRemainder
  <2> QED
    BY <2>1, <2>4 DEF m, r
<1> QED
  BY <1>1, <1>3, <1>4

\* The position is the number of clients that have been given a number, and
\* the number in hand is the one of the client accepted last.
PosFollowsTurn ==
  data # <<>> =>
    IF main_pc = "get"
    THEN turn > 0 /\ pos = (turn - 1) % Len(data)
    ELSE /\ pos = turn % Len(data)
         /\ main_pc = "fork" => turn > 0 /\ number = data[((turn - 1) % Len(data)) + 1]

\* Nobody is accepted who has not come.
AcceptedCame == turn + queue <= clients

InTurn == TypeOK /\ AcceptedCame /\ PosFollowsTurn /\ NumbersInTurn

(* Before anybody comes the source stands at its beginning.                *)
LEMMA InitInTurn == Init => InTurn
<1> SUFFICES ASSUME Init PROVE InTurn
  OBVIOUS
<1>1. data \in Seq(0 .. MAX)
  BY FilesAssumption DEF Init
<1>2. data # <<>> => Len(data) \in Nat \ {0}
  BY <1>1
<1>3. data # <<>> => 0 % Len(data) = 0
  BY <1>2
<1>4. /\ pos = 0 /\ main_pc = "accept" /\ number = 0 /\ handler = FALSE /\ sigchld = FALSE
      /\ queue = 0 /\ clients = 0 /\ turn = 0
      /\ cpc = [p \in Children |-> "none"]
      /\ child_number = [p \in Children |-> 0]
      /\ child_turn = [p \in Children |-> 0]
  BY DEF Init
<1>5. 0 \in 0 .. MAX /\ 0 \in 0 .. MaxClients /\ 0 \in 0 .. MAX_CONNECTIONS
  BY GuessAssumption, NumberAssumption
<1>6. TypeOK
  BY <1>1, <1>4, <1>5 DEF TypeOK
<1>7. AcceptedCame
  BY <1>4 DEF AcceptedCame
<1> QED
  BY <1>3, <1>4, <1>6, <1>7 DEF InTurn, PosFollowsTurn, NumbersInTurn

(* The loop of the parent hands the numbers out in turn.                   *)
LEMMA MainInTurn == InTurn /\ (Main \/ ServerExits) => InTurn'
<1> SUFFICES ASSUME InTurn, Main \/ ServerExits PROVE InTurn'
  OBVIOUS
<1> USE DEF InTurn, TypeOK, AcceptedCame, PosFollowsTurn, NumbersInTurn, child_vars,
            signal_vars, client_vars, MainGoes
<1>0. queue \in Nat /\ turn \in Nat /\ clients \in Nat
  BY GuessAssumption
<1>1. CASE Accept
  <2>1. queue - 1 \in 0 .. MAX_CONNECTIONS /\ turn + 1 \in 0 .. MaxClients
    BY <1>0, <1>1, GuessAssumption DEF Accept
  <2>2. turn' > 0 /\ turn' - 1 = turn /\ turn' + queue' <= clients'
    BY <1>0, <1>1 DEF Accept
  <2>3. TypeOK' /\ AcceptedCame'
    BY <1>1, <2>1, <2>2 DEF Accept
  <2>4. PosFollowsTurn' /\ NumbersInTurn'
    BY <1>1, <2>2 DEF Accept
  <2> QED
    BY <2>3, <2>4
<1>2. CASE GetNumber
  <2>1. CASE data = <<>>
    BY <1>2, <2>1 DEF GetNumber, Numbers, NextPos
  <2>2. CASE data # <<>>
    <3>1. Len(data) \in Nat \ {0}
      BY <2>2
    <3>2. turn - 1 \in Nat /\ pos = (turn - 1) % Len(data)
      BY <1>2, <2>2 DEF GetNumber
    <3>3. (pos + 1) % Len(data) = turn % Len(data)
      <4>1. (pos + 1) % Len(data) = ((turn - 1) + 1) % Len(data)
        BY <3>1, <3>2, NextPlace
      <4>2. (turn - 1) + 1 = turn
        BY <1>0
      <4> QED
        BY <4>1, <4>2
    <3>4. pos \in 0 .. Len(data) - 1 /\ data[pos + 1] \in 0 .. MAX
      <4>1. pos \in 0 .. Len(data) - 1
        BY <3>1, <3>2, DivMod
      <4>2. pos + 1 \in 1 .. Len(data)
        BY <3>1, <4>1
      <4>3. data \in Seq(0 .. MAX)
        OBVIOUS
      <4>4. data[pos + 1] \in 0 .. MAX
        BY ONLY <4>2, <4>3, ElementOfSeq
      <4> QED
        BY <4>1, <4>4
    <3>5. pos' = turn % Len(data) /\ number' = data[pos + 1]
      BY <1>2, <2>2, <3>3 DEF GetNumber, Numbers, NextPos
    <3>6. pos' \in 0 .. Len(data) - 1
      BY <1>0, <3>1, <3>5, DivMod
    <3> QED
      BY <1>2, <2>2, <3>2, <3>4, <3>5, <3>6 DEF GetNumber
  <2> QED
    BY <2>1, <2>2
<1>3. ASSUME NEW p \in Children, Fork(p) PROVE InTurn'
  BY <1>3 DEF Fork, Birth
<1>4. CASE CloseNewFd
  BY <1>4, NumberAssumption DEF CloseNewFd
<1>5. CASE ServerExits
  <2>1. queue' = 0 /\ 0 \in 0 .. MAX_CONNECTIONS /\ turn + 0 <= clients
    BY <1>0, <1>5, GuessAssumption DEF ServerExits
  <2>2. \A p \in Children : cpc'[p] # "none" => cpc[p] # "none"
    BY <1>5 DEF ServerExits
  <2>3. cpc' \in [Children -> {"none", "born", "playing", "zombie"}]
    BY <1>5 DEF ServerExits
  <2> QED
    BY <1>5, <2>1, <2>2, <2>3 DEF ServerExits
<1> QED
  BY <1>1, <1>2, <1>3, <1>4, <1>5 DEF Main

(* Nobody else touches the source, or a number that has been given.        *)
LEMMA OthersInTurn ==
  ASSUME InTurn,
         \/ Handler \/ Connect \/ UNCHANGED vars
         \/ \E p \in Children : CloseListener(p) \/ ChildEnds(p)
  PROVE  InTurn'
<1> USE DEF InTurn, TypeOK, AcceptedCame, PosFollowsTurn, NumbersInTurn, parent_vars,
            child_vars, signal_vars, client_vars
<1>1. CASE Handler
  BY <1>1 DEF Handler, EnterHandler, Reap, LeaveHandler
<1>2. CASE Connect
  <2>1. queue + 1 \in 0 .. MAX_CONNECTIONS /\ clients + 1 \in 0 .. MaxClients
    BY <1>2, GuessAssumption DEF Connect
  <2>2. turn + (queue + 1) <= clients + 1
    BY GuessAssumption
  <2> QED
    BY <1>2, <2>1, <2>2 DEF Connect
<1>4. CASE UNCHANGED vars
  BY <1>4 DEF vars
<1>3. ASSUME NEW p \in Children, CloseListener(p) \/ ChildEnds(p) PROVE InTurn'
  BY <1>3 DEF CloseListener, ChildEnds
<1> QED
  BY <1>1, <1>2, <1>3, <1>4

(* Whichever child plays with which client, the clients are given the      *)
(* numbers of the file in turn (numbers.c:35-46, server.c:124).            *)
THEOREM NumbersAreGivenInTurn == Spec => [](TypeOK /\ NumbersInTurn)
<1>1. InTurn /\ [Next]_vars => InTurn'
  BY MainInTurn, OthersInTurn DEF Next
<1>2. InTurn => TypeOK /\ NumbersInTurn
  BY DEF InTurn
<1> QED
  BY InitInTurn, <1>1, <1>2, PTL DEF Spec

--------------------------------------------------------------------------------
(* The bytes of a guess.                                                   *)

Product == INSTANCE FoldProofs WITH Op <- Times

Digits == INSTANCE FoldProofs WITH Op <- NextByte

(* Power, and the bytes read as a number, are folds: what is proved of     *)
(* every fold holds of them.                                               *)
LEMMA PowerIsFold ==
  ASSUME NEW b, NEW k
  PROVE  Power(b, k) = Product!Fold(1, [i \in 1 .. k |-> b])
  BY DEF Power, FoldLeft, MapThenFoldSet, Max, Product!Fold, Product!FoldLeft,
         Product!MapThenFoldSet, Product!Max

(* So are the bytes of a guess, read as a number.                          *)
LEMMA NetworkOrderIsFold ==
  ASSUME NEW bytes
  PROVE  NetworkOrder(bytes) = Digits!Fold(0, bytes)
  BY DEF NetworkOrder, FoldLeft, MapThenFoldSet, Max, Digits!Fold, Digits!FoldLeft,
         Digits!MapThenFoldSet, Digits!Max

(* What a power is, one factor at a time.                                  *)
LEMMA PowerZero == ASSUME NEW b PROVE Power(b, 0) = 1
<1>1. [i \in 1 .. 0 |-> b] = <<>>
  OBVIOUS
<1> QED
  BY <1>1, PowerIsFold, Product!FoldEmpty

(* One more factor.                                                        *)
LEMMA PowerNext ==
  ASSUME NEW b, NEW k \in Nat
  PROVE  Power(b, k + 1) = Power(b, k) * b
<1> DEFINE s == [i \in 1 .. k |-> b]
           t == [i \in 1 .. k + 1 |-> b]
<1>1. s \in Seq({b}) /\ b \in {b} /\ t = Append(s, b)
  OBVIOUS
<1> HIDE DEF s, t
<1>2. Product!Fold(1, Append(s, b)) = Times(Product!Fold(1, s), b)
  BY <1>1, Product!FoldAppend
<1> QED
  BY <1>1, <1>2, PowerIsFold DEF Times, s, t

(* A power of a positive number is positive.                               *)
LEMMA PowerType ==
  ASSUME NEW b \in Nat \ {0}, NEW k \in Nat
  PROVE  Power(b, k) \in Nat \ {0}
<1> DEFINE S == {n \in Nat : Power(b, n) \in Nat \ {0}}
<1>1. 0 \in S
  BY PowerZero
<1>2. ASSUME NEW n \in Nat, n \in S PROVE n + 1 \in S
  <2>1. Power(b, n) * b \in Nat \ {0}
    <3>1. \A x, y \in Nat \ {0} : x * y \in Nat \ {0}
      OBVIOUS
    <3> QED
      BY <1>2, <3>1
  <2> QED
    BY <2>1, PowerNext
<1> HIDE DEF S
<1>3. k \in S
  BY <1>1, <1>2, Product!NatSetInduction
<1> QED
  BY <1>3 DEF S

(* A number has one quotient.                                              *)
LEMMA SameQuotient ==
  ASSUME NEW n \in Nat \ {0}, NEW q \in Nat, NEW r \in 0 .. n - 1,
         NEW p \in Nat, NEW m \in 0 .. n - 1, n * q + r = n * p + m
  PROVE  q = p
<1>1. n * (p - q) = r - m
  OBVIOUS
<1>2. CASE p - q >= 1
  <2>1. n * (p - q) >= n
    BY <1>2
  <2> QED
    BY <1>1, <2>1
<1>3. CASE p - q <= -1
  <2>1. n * (p - q) <= -n
    BY <1>3
  <2> QED
    BY <1>1, <2>1
<1> QED
  BY <1>2, <1>3

(* To divide by p is to divide by p * b, and to put back the digit that    *)
(* this took off.                                                          *)
LEMMA DivTwice ==
  ASSUME NEW g \in Nat, NEW p \in Nat \ {0}, NEW b \in Nat \ {0}
  PROVE  g \div p = (g \div (p * b)) * b + ((g \div p) % b)
<1> DEFINE a == g \div p
           r == g % p
           q == a \div b
           s == a % b
           n == p * b
           z == g \div n
           m == g % n
<1>1. a \in Nat /\ r \in 0 .. p - 1 /\ g = p * a + r
  BY DivMod
<1>2. q \in Nat /\ s \in 0 .. b - 1 /\ a = b * q + s
  BY <1>1, DivMod
<1>3. n \in Nat \ {0}
  <2>1. \A x, y \in Nat \ {0} : x * y \in Nat \ {0}
    OBVIOUS
  <2> QED
    BY <2>1
<1>4. z \in Nat /\ m \in 0 .. n - 1 /\ g = n * z + m
  BY <1>3, DivMod
<1>5. g = n * q + (p * s + r)
  <2> HIDE DEF a, r, q, s
  <2>1. p * a = p * (b * q) + p * s
    BY <1>2
  <2>2. p * (b * q) = n * q
    BY <1>2
  <2> HIDE DEF n
  <2> QED
    BY <1>1, <1>2, <1>3, <2>1, <2>2
<1>6. p * s + r \in 0 .. n - 1
  <2> HIDE DEF a, r, q, s
  <2>1. p * s <= p * (b - 1) /\ p * s >= 0 /\ p * s \in Int
    <3>1. \A x \in 0 .. b - 1 : p * x <= p * (b - 1) /\ p * x >= 0 /\ p * x \in Int
      OBVIOUS
    <3> QED
      BY <1>2, <3>1
  <2>2. p * (b - 1) = n - p
    OBVIOUS
  <2> HIDE DEF n
  <2> QED
    BY <1>1, <1>3, <2>1, <2>2
<1> HIDE DEF a, r, q, s, n, z, m
<1>7. q = z
  BY <1>2, <1>3, <1>4, <1>5, <1>6, SameQuotient
<1> QED
  BY <1>2, <1>4, <1>7 DEF a, s, z, n

(* The bytes of a guess are GUESS_BYTES bytes.                             *)
LEMMA HtonlType ==
  ASSUME NEW g \in Guesses
  PROVE  /\ HtonlBytes(g) \in Seq(Bytes) /\ Len(HtonlBytes(g)) = GUESS_BYTES
         /\ \A i \in 1 .. GUESS_BYTES :
              HtonlBytes(g)[i] = (g \div Power(BASE, GUESS_BYTES - i)) % BASE
<1>1. g \in Nat /\ GUESS_BYTES \in Nat /\ BASE \in Nat \ {0}
  <2>1. BASE \in Nat \ {0} /\ GUESS_BYTES \in Nat
    BY GameAssumption
  <2> QED
    BY <2>1, PowerType DEF Guesses
<1>2. ASSUME NEW i \in 1 .. GUESS_BYTES
      PROVE  (g \div Power(BASE, GUESS_BYTES - i)) % BASE \in Bytes
  <2>1. Power(BASE, GUESS_BYTES - i) \in Nat \ {0}
    BY <1>1, PowerType
  <2>2. g \div Power(BASE, GUESS_BYTES - i) \in Nat
    BY <1>1, <2>1, DivMod
  <2> QED
    BY <1>1, <2>2, DivMod DEF Bytes
<1> QED
  BY <1>1, <1>2 DEF HtonlBytes

(* ntohl(htonl(g)) = g: the digits of a guess, read most significant       *)
(* first, give the guess again. By induction, the first j bytes are the    *)
(* guess without its last GUESS_BYTES - j digits.                          *)
LEMMA BytesGiveGuess ==
  ASSUME NEW g \in Guesses
  PROVE  NetworkOrder(HtonlBytes(g)) = g
<1> DEFINE h == HtonlBytes(g)
           After(j) == Digits!Fold(0, SubSeq(h, 1, j))
           S == {j \in Nat : j <= GUESS_BYTES =>
                   After(j) = g \div Power(BASE, GUESS_BYTES - j)}
<1>1. /\ BASE \in Nat \ {0} /\ GUESS_BYTES \in Nat
      /\ g \in Nat /\ g < Power(BASE, GUESS_BYTES)
  <2>1. BASE \in Nat \ {0} /\ GUESS_BYTES \in Nat
    BY GameAssumption
  <2> QED
    BY <2>1, PowerType DEF Guesses
<1>2. /\ h \in Seq(Bytes) /\ Len(h) = GUESS_BYTES
      /\ \A i \in 1 .. GUESS_BYTES : h[i] = (g \div Power(BASE, GUESS_BYTES - i)) % BASE
  BY HtonlType
<1> HIDE DEF h
<1>3. 0 \in S
  <2>1. After(0) = 0
    <3>1. SubSeq(h, 1, 0) = <<>>
      OBVIOUS
    <3> QED
      BY <3>1, Digits!FoldEmpty
  <2>2. g \div Power(BASE, GUESS_BYTES) = 0
    <3>1. Power(BASE, GUESS_BYTES) \in Nat \ {0}
      BY <1>1, PowerType
    <3> QED
      BY <1>1, <3>1
  <2>3. GUESS_BYTES - 0 = GUESS_BYTES
    BY <1>1
  <2> QED
    BY <2>1, <2>2, <2>3
<1>4. ASSUME NEW j \in Nat, j \in S PROVE j + 1 \in S
  <2> SUFFICES ASSUME j + 1 <= GUESS_BYTES
               PROVE  After(j + 1) = g \div Power(BASE, GUESS_BYTES - (j + 1))
    OBVIOUS
  <2> DEFINE p == Power(BASE, GUESS_BYTES - (j + 1))
  <2>1. After(j + 1) = After(j) * BASE + h[j + 1]
    <3>1. j + 1 \in 1 .. Len(h) /\ (j + 1) - 1 = j
      BY <1>1, <1>2
    <3> QED
      BY <1>2, <3>1, Digits!FoldPrefix DEF NextByte
  <2>2. After(j) = g \div Power(BASE, GUESS_BYTES - j)
    BY <1>1, <1>4
  <2>3. Power(BASE, GUESS_BYTES - j) = p * BASE /\ p \in Nat \ {0}
    <3>1. GUESS_BYTES - (j + 1) \in Nat /\ (GUESS_BYTES - (j + 1)) + 1 = GUESS_BYTES - j
      BY <1>1
    <3>2. Power(BASE, (GUESS_BYTES - (j + 1)) + 1) = p * BASE
      BY <3>1, PowerNext
    <3> QED
      BY <1>1, <3>1, <3>2, PowerType
  <2>4. h[j + 1] = (g \div p) % BASE
    <3>1. j + 1 \in 1 .. GUESS_BYTES
      BY <1>1
    <3> QED
      BY <1>2, <3>1
  <2> HIDE DEF p, After
  <2>5. g \div p = (g \div (p * BASE)) * BASE + ((g \div p) % BASE)
    BY <1>1, <2>3, DivTwice
  <2> QED
    BY <2>1, <2>2, <2>3, <2>4, <2>5 DEF p
<1> HIDE DEF S
<1>5. GUESS_BYTES \in S
  BY <1>1, <1>3, <1>4, Product!NatSetInduction
<1>6. SubSeq(h, 1, GUESS_BYTES) = h
  BY <1>2
<1>7. Power(BASE, GUESS_BYTES - GUESS_BYTES) = 1
  BY <1>1, PowerZero
<1>8. g \div 1 = g
  BY <1>1
<1>9. After(GUESS_BYTES) = g \div Power(BASE, GUESS_BYTES - GUESS_BYTES)
  <2> HIDE DEF After
  <2>1. GUESS_BYTES <= GUESS_BYTES
    BY <1>1
  <2> QED
    BY <1>5, <2>1 DEF S
<1> QED
  BY <1>6, <1>7, <1>8, <1>9, NetworkOrderIsFold DEF h


--------------------------------------------------------------------------------
(* That nobody is misled.                                                  *)

\* What the child has not answered: the bytes, and how many guesses they are of.
Unread == buffer \o to_server

Pending == Len(sent) - Len(answers)

UnreadIsSent ==
  /\ 0 <= Pending
  /\ Len(Unread) <= GUESS_BYTES * Pending
  /\ ~client_eof => Len(Unread) = GUESS_BYTES * Pending
  /\ \A j \in 1 .. Pending : \A i \in 1 .. GUESS_BYTES :
       GUESS_BYTES * (j - 1) + i <= Len(Unread) =>
         Unread[GUESS_BYTES * (j - 1) + i] = HtonlBytes(sent[Len(answers) + j])[i]

AttemptCounts ==
  /\ attempt = Len(answers) + 1
  /\ pc \in {"recv", "send"} => attempt <= MAX_ATTEMPTS
  /\ pc \in {"close", "closed"} /\ ~client_eof => Len(answers) = MAX_ATTEMPTS
  /\ pc = "send" => Len(buffer) = GUESS_BYTES

AllFit ==
  \A i \in 1 .. Len(answers) : Fits(game_number, sent[i], answers[i])

GameInv == GameTypeOK /\ UnreadIsSent /\ AttemptCounts /\ AllFit

(* What a concatenation holds, and when two sequences are one.             *)
LEMMA Concatenated ==
  ASSUME NEW S, NEW s \in Seq(S), NEW t \in Seq(S)
  PROVE  /\ s \o t \in Seq(S) /\ Len(s \o t) = Len(s) + Len(t)
         /\ Len(s) \in Nat /\ Len(t) \in Nat
         /\ \A i \in 1 .. Len(s) : (s \o t)[i] = s[i]
         /\ \A i \in 1 .. Len(t) : (s \o t)[Len(s) + i] = t[i]
  OBVIOUS

(* Sequences with the same elements are the same.                          *)
LEMMA SameElements ==
  ASSUME NEW S, NEW s \in Seq(S), NEW t \in Seq(S), Len(s) = Len(t),
         \A i \in 1 .. Len(s) : s[i] = t[i]
  PROVE  s = t
  OBVIOUS

(* What recv() takes from one stream and puts into the buffer leaves the   *)
(* bytes in their order.                                                   *)
LEMMA CutAndJoined ==
  ASSUME NEW S, NEW s \in Seq(S), NEW t \in Seq(S), NEW k \in 0 .. Len(t)
  PROVE  (s \o SubSeq(t, 1, k)) \o SubSeq(t, k + 1, Len(t)) = s \o t
<1> DEFINE a == SubSeq(t, 1, k)
           b == SubSeq(t, k + 1, Len(t))
<1>1. /\ a \in Seq(S) /\ Len(a) = k /\ \A i \in 1 .. k : a[i] = t[i]
      /\ b \in Seq(S) /\ Len(b) = Len(t) - k
      /\ \A i \in 1 .. Len(t) - k : b[i] = t[k + i]
  OBVIOUS
<1> HIDE DEF a, b
<1>2. a \o b = t
  <2>1. a \o b \in Seq(S) /\ Len(a \o b) = Len(t)
    <3>1. a \o b \in Seq(S) /\ Len(a \o b) = Len(a) + Len(b)
      BY <1>1, Concatenated, Zenon
    <3>2. Len(t) \in Nat
      OBVIOUS
    <3> QED
      BY <1>1, <3>1, <3>2
  <2>2. \A i \in 1 .. Len(a \o b) : (a \o b)[i] = t[i]
    <3> TAKE i \in 1 .. Len(a \o b)
    <3>1. CASE i <= k
      BY <1>1, <2>1, <3>1
    <3>2. CASE i > k
      <4>1. i - k \in 1 .. Len(b) /\ k + (i - k) = i
        BY <1>1, <2>1, <3>2
      <4>2. (a \o b)[k + (i - k)] = b[i - k]
        BY <1>1, <4>1, Concatenated
      <4> QED
        BY <1>1, <4>1, <4>2
    <3> QED
      BY <3>1, <3>2
  <2> QED
    BY <2>1, <2>2, SameElements
<1>3. (s \o a) \o b = s \o (a \o b)
  BY <1>1, ConcatAssociative
<1> QED
  BY <1>2, <1>3 DEF a, b

(* What the constants are.                                                 *)
LEMMA GameConstants ==
  /\ GUESS_BYTES \in Nat \ {0} /\ MAX_ATTEMPTS \in Nat /\ MAX \in Nat
  /\ BASE \in Nat \ {0, 1} /\ Guesses \subseteq Nat
  BY GameAssumption, NumberAssumption DEF Guesses

(* Nothing has been sent when the child starts.                            *)
LEMMA GameInitInv == GameInit => GameInv
<1> SUFFICES ASSUME GameInit PROVE GameInv
  OBVIOUS
<1> USE GameConstants
<1>1. GameTypeOK
  <2>1. <<>> \in Seq(Bytes) /\ <<>> \in Seq(Answers) /\ <<>> \in Seq(Guesses) /\ Len(<<>>) = 0
    OBVIOUS
  <2>2. 1 \in 1 .. MAX_ATTEMPTS + 1
    OBVIOUS
  <2>3. pc \in {"recv", "send", "close", "closed", "killed"} /\ client_eof \in BOOLEAN
    BY DEF GameInit
  <2> QED
    BY <2>1, <2>2, <2>3 DEF GameInit, GameTypeOK
<1>2. UnreadIsSent
  BY DEF GameInit, UnreadIsSent, Unread, Pending
<1>3. AttemptCounts
  BY DEF GameInit, AttemptCounts
<1>4. AllFit
  BY DEF GameInit, AllFit
<1> QED
  BY <1>1, <1>2, <1>3, <1>4 DEF GameInv

(* A recv() moves the bytes, whatever their number: what is unread stays   *)
(* what was sent.                                                          *)
LEMMA RecvInv ==
  ASSUME GameInv, NEW k \in 1 .. GUESS_BYTES, Recv(k)
  PROVE  GameInv'
<1> USE GameConstants
<1>1. /\ buffer \in Seq(Bytes) /\ to_server \in Seq(Bytes) /\ Len(buffer) <= GUESS_BYTES
      /\ k \in 1 .. GUESS_BYTES - Len(buffer) /\ k <= Len(to_server)
      /\ buffer' = buffer \o SubSeq(to_server, 1, k)
      /\ to_server' = SubSeq(to_server, k + 1, Len(to_server))
  BY DEF GameInv, GameTypeOK, Recv
<1>2. /\ buffer' \in Seq(Bytes) /\ to_server' \in Seq(Bytes)
      /\ Len(buffer') = Len(buffer) + k
  BY <1>1
<1>3. GameTypeOK'
  BY <1>1, <1>2 DEF GameInv, GameTypeOK, Recv
<1>4. Unread' = Unread
  <2>1. k \in 0 .. Len(to_server)
    BY <1>1
  <2>2. (buffer \o SubSeq(to_server, 1, k)) \o SubSeq(to_server, k + 1, Len(to_server))
        = buffer \o to_server
    BY <1>1, <2>1, CutAndJoined
  <2> QED
    BY <1>1, <2>2 DEF Unread
<1>5. UnreadIsSent'
  BY <1>4 DEF GameInv, UnreadIsSent, Pending, Recv
<1>6. AttemptCounts'
  BY <1>2 DEF GameInv, AttemptCounts, Recv, Received
<1>7. AllFit'
  BY DEF GameInv, AllFit, Recv
<1> QED
  BY <1>3, <1>5, <1>6, <1>7 DEF GameInv

(* A full buffer holds the guess the answer is due to.                     *)
LEMMA BufferIsGuess ==
  ASSUME GameInv, pc = "send"
  PROVE  /\ Pending \in Nat \ {0} /\ sent[Len(answers) + 1] \in Guesses
         /\ NetworkOrder(buffer) = sent[Len(answers) + 1]
<1> USE GameConstants
<1> DEFINE g == sent[Len(answers) + 1]
<1>1. /\ buffer \in Seq(Bytes) /\ to_server \in Seq(Bytes) /\ Len(buffer) = GUESS_BYTES
      /\ sent \in Seq(Guesses) /\ answers \in Seq(Answers)
  BY DEF GameInv, GameTypeOK, AttemptCounts
<1>2. Len(Unread) >= GUESS_BYTES /\ Pending \in Int /\ 0 <= Pending
  BY <1>1 DEF GameInv, UnreadIsSent, Unread, Pending
<1>3. Pending # 0
  <2>1. Len(Unread) \in Nat /\ Len(Unread) <= GUESS_BYTES * Pending
    BY <1>1 DEF GameInv, UnreadIsSent, Unread
  <2>2. GUESS_BYTES * 0 = 0
    OBVIOUS
  <2> QED
    BY <1>2, <2>1, <2>2
<1>4. Pending \in Nat \ {0} /\ g \in Guesses
  BY <1>1, <1>2, <1>3 DEF Pending
<1>5. HtonlBytes(g) \in Seq(Bytes) /\ Len(HtonlBytes(g)) = GUESS_BYTES
  BY <1>4, HtonlType
<1>6. ASSUME NEW i \in 1 .. GUESS_BYTES PROVE buffer[i] = HtonlBytes(g)[i]
  <2>1. 1 \in 1 .. Pending /\ GUESS_BYTES * (1 - 1) + i = i /\ i <= Len(Unread)
    BY <1>2, <1>4
  <2>2. Unread[i] = HtonlBytes(g)[i]
    BY <2>1 DEF GameInv, UnreadIsSent
  <2> QED
    BY <1>1, <2>2 DEF Unread
<1>7. buffer = HtonlBytes(g)
  <2> DEFINE h == HtonlBytes(g)
  <2>1. h \in Seq(Bytes) /\ Len(h) = Len(buffer) /\ \A i \in 1 .. Len(buffer) : buffer[i] = h[i]
    BY <1>1, <1>5, <1>6
  <2> HIDE DEF h
  <2>2. buffer = h
    BY <1>1, <2>1
  <2> QED
    BY <2>2 DEF h
<1> QED
  BY <1>4, <1>7, BytesGiveGuess

(* An answer is true of the number and the guess.                          *)
LEMMA ResponseFits ==
  ASSUME NEW x \in Nat, NEW g \in Nat
  PROVE  RespondToGuess(x, g) \in Answers /\ Fits(x, g, RespondToGuess(x, g))
<1>1. CASE x > g
  BY <1>1 DEF RespondToGuess, Answers, Fits
<1>2. CASE x < g
  BY <1>2 DEF RespondToGuess, Answers, Fits
<1>3. CASE x = g
  BY <1>3 DEF RespondToGuess, Answers, Fits
<1> QED
  BY <1>1, <1>2, <1>3

(* A full buffer is the first guess that has no answer, so the answer goes *)
(* to it; what is left is the rest.                                        *)
LEMMA SendInv == GameInv /\ Send => GameInv'
<1> SUFFICES ASSUME GameInv, Send PROVE GameInv'
  OBVIOUS
<1> USE GameConstants
<1> DEFINE n == Len(answers)
           a == RespondToGuess(game_number, NetworkOrder(buffer))
<1>1. /\ buffer \in Seq(Bytes) /\ to_server \in Seq(Bytes) /\ Len(buffer) = GUESS_BYTES
      /\ sent \in Seq(Guesses) /\ answers \in Seq(Answers) /\ game_number \in 0 .. MAX
      /\ attempt = n + 1 /\ attempt \in 1 .. MAX_ATTEMPTS
  BY DEF GameInv, GameTypeOK, AttemptCounts, Send
<1>2. /\ Pending \in Nat \ {0} /\ sent[n + 1] \in Guesses
      /\ NetworkOrder(buffer) = sent[n + 1]
  BY BufferIsGuess DEF Send
<1>3. a \in Answers /\ Fits(game_number, sent[n + 1], a)
  <2>1. game_number \in Nat
    BY <1>1
  <2>2. sent[n + 1] \in Nat
    BY <1>2
  <2> QED
    BY <1>2, <2>1, <2>2, ResponseFits
<1>4. /\ answers' = Append(answers, a) /\ buffer' = <<>> /\ to_server' = to_server
      /\ sent' = sent /\ game_number' = game_number /\ client_eof' = client_eof
      /\ attempt' = attempt + 1 /\ ~client_eof
      /\ pc' = IF OutOfAttempts(attempt') THEN "close" ELSE "recv"
  BY DEF Send
<1> HIDE DEF a
<1>5. /\ answers' \in Seq(Answers) /\ Len(answers') = n + 1
      /\ \A i \in 1 .. n : answers'[i] = answers[i]
      /\ answers'[n + 1] = a
  BY <1>1, <1>3, <1>4
<1>6. GameTypeOK'
  BY <1>1, <1>4, <1>5 DEF GameTypeOK, GameInv
<1>7. UnreadIsSent'
  <2>1. Pending' = Pending - 1
    BY <1>1, <1>4, <1>5 DEF Pending
  <2>2. Len(Unread) = GUESS_BYTES * Pending
    BY <1>4 DEF GameInv, UnreadIsSent
  <2>3. GUESS_BYTES * Pending = GUESS_BYTES * (Pending - 1) + GUESS_BYTES
    BY <1>2
  <2>4. /\ Len(Unread) = GUESS_BYTES + Len(to_server)
        /\ Unread' = to_server
        /\ \A k \in 1 .. Len(to_server) : Unread[GUESS_BYTES + k] = to_server[k]
    <3>1. Unread' = to_server
      BY <1>1, <1>4 DEF Unread
    <3> DEFINE w == buffer \o to_server
    <3>2. /\ w \in Seq(Bytes)
          /\ Len(w) = Len(buffer) + Len(to_server)
          /\ Len(buffer) \in Nat /\ Len(to_server) \in Nat
          /\ \A k \in 1 .. Len(buffer) : w[k] = buffer[k]
          /\ \A k \in 1 .. Len(to_server) : w[Len(buffer) + k] = to_server[k]
      <4>1. buffer \in Seq(Bytes) /\ to_server \in Seq(Bytes)
        BY <1>1
      <4> QED
        BY ONLY <4>1, Concatenated
    <3>3. Unread = w
      BY DEF Unread
    <3> HIDE DEF w
    <3> QED
      BY <1>1, <3>1, <3>2, <3>3
  <2>5. Len(Unread') = GUESS_BYTES * Pending'
    BY <1>1, <1>2, <2>1, <2>2, <2>3, <2>4
  <2>6. ASSUME NEW j \in 1 .. Pending', NEW i \in 1 .. GUESS_BYTES,
               GUESS_BYTES * (j - 1) + i <= Len(Unread')
        PROVE  Unread'[GUESS_BYTES * (j - 1) + i] = HtonlBytes(sent'[Len(answers') + j])[i]
    <3> DEFINE k == GUESS_BYTES * (j - 1) + i
    <3>1. j \in Nat \ {0} /\ j + 1 \in 1 .. Pending
      BY <1>2, <2>1
    <3>2. GUESS_BYTES * ((j + 1) - 1) + i = GUESS_BYTES + k
      BY <3>1
    <3>3. k \in 1 .. Len(to_server) /\ GUESS_BYTES + k <= Len(Unread)
      <4>1. \A x \in Nat : GUESS_BYTES * x \in Nat
        OBVIOUS
      <4>2. GUESS_BYTES * (j - 1) \in Nat
        BY <3>1, <4>1
      <4>3. Len(to_server) \in Nat /\ k <= Len(to_server)
        BY <1>1, <2>4, <2>6
      <4> DEFINE x == GUESS_BYTES * (j - 1)
      <4>4. x \in Nat /\ i \in 1 .. GUESS_BYTES /\ x + i <= Len(to_server)
        BY <4>2, <4>3
      <4> HIDE DEF x
      <4>5. x + i \in 1 .. Len(to_server) /\ GUESS_BYTES + (x + i) <= Len(Unread)
        BY <2>4, <4>3, <4>4
      <4> QED
        BY <4>5 DEF x
    <3>4. Unread[GUESS_BYTES + k] = HtonlBytes(sent[n + (j + 1)])[i]
      <4> HIDE DEF k
      <4> QED
        BY <3>1, <3>2, <3>3 DEF GameInv, UnreadIsSent
    <3>5. n + (j + 1) = Len(answers') + j
      BY <1>1, <1>5, <3>1
    <3> HIDE DEF k
    <3> QED
      BY <1>4, <2>4, <3>3, <3>4, <3>5 DEF k
  <2>7. 0 <= Pending'
    BY <1>2, <2>1
  <2>8. Len(Unread') <= GUESS_BYTES * Pending'
    <3>1. Len(Unread') \in Int
      BY <1>1, <2>4
    <3> QED
      BY <2>5, <3>1
  <2> QED
    BY <2>5, <2>6, <2>7, <2>8 DEF UnreadIsSent
<1>8. AttemptCounts'
  BY <1>1, <1>4, <1>5 DEF AttemptCounts, OutOfAttempts
<1>9. AllFit'
  <2>1. ASSUME NEW i \in 1 .. n + 1 PROVE Fits(game_number, sent[i], answers'[i])
    <3>1. CASE i = n + 1
      BY <1>3, <1>5, <3>1
    <3>2. CASE i # n + 1
      <4>1. i \in 1 .. n
        BY <1>1, <3>2
      <4> QED
        BY <1>5, <4>1 DEF GameInv, AllFit
    <3> QED
      BY <3>1, <3>2
  <2> QED
    BY <1>4, <1>5, <2>1 DEF AllFit
<1> QED
  BY <1>6, <1>7, <1>8, <1>9 DEF GameInv

(* What the client sends stands behind what has not been answered.         *)
LEMMA SendGuessInv ==
  ASSUME GameInv, NEW g \in Guesses, SendGuess(g)
  PROVE  GameInv'
<1> USE GameConstants
<1> DEFINE n == Len(answers)
           h == HtonlBytes(g)
<1>1. /\ buffer \in Seq(Bytes) /\ to_server \in Seq(Bytes)
      /\ sent \in Seq(Guesses) /\ answers \in Seq(Answers)
  BY DEF GameInv, GameTypeOK
<1>2. h \in Seq(Bytes) /\ Len(h) = GUESS_BYTES
  BY HtonlType
<1>3. /\ to_server' = to_server \o h /\ sent' = Append(sent, g) /\ buffer' = buffer
      /\ answers' = answers /\ ~client_eof /\ client_eof' = client_eof
      /\ game_number' = game_number /\ pc' = pc /\ attempt' = attempt
  BY DEF SendGuess
<1> HIDE DEF h
<1>4. /\ sent' \in Seq(Guesses) /\ Len(sent') = Len(sent) + 1 /\ sent'[Len(sent) + 1] = g
      /\ \A i \in 1 .. Len(sent) : sent'[i] = sent[i]
  BY <1>1, <1>3
<1>5. GameTypeOK'
  <2>1. to_server' \in Seq(Bytes)
    BY <1>1, <1>2, <1>3
  <2> QED
    BY <1>3, <1>4, <2>1 DEF GameInv, GameTypeOK
<1>6. Pending \in Nat /\ Pending' = Pending + 1 /\ n \in Nat
      /\ Len(Unread) = GUESS_BYTES * Pending /\ Len(sent) = n + Pending
  BY <1>1, <1>3, <1>4 DEF GameInv, UnreadIsSent, Pending
<1>7. /\ Len(Unread') = Len(Unread) + GUESS_BYTES /\ Len(Unread) \in Nat
      /\ \A k \in 1 .. Len(Unread) : Unread'[k] = Unread[k]
      /\ \A k \in 1 .. GUESS_BYTES : Unread'[Len(Unread) + k] = h[k]
  <2>1. Unread \in Seq(Bytes)
    BY <1>1, Concatenated DEF Unread
  <2>2. Unread' = Unread \o h
    <3>1. Unread' = buffer \o (to_server \o h)
      BY <1>3 DEF Unread
    <3>2. (buffer \o to_server) \o h = buffer \o (to_server \o h)
      BY ONLY <1>1, <1>2, ConcatAssociative
    <3> QED
      BY <3>1, <3>2 DEF Unread
  <2>3. /\ Len(Unread \o h) = Len(Unread) + Len(h) /\ Len(Unread) \in Nat
        /\ \A i \in 1 .. Len(Unread) : (Unread \o h)[i] = Unread[i]
        /\ \A i \in 1 .. Len(h) : (Unread \o h)[Len(Unread) + i] = h[i]
    <3>1. Unread \in Seq(Bytes) /\ h \in Seq(Bytes)
      BY <1>2, <2>1
    <3> HIDE DEF Unread
    <3> QED
      BY ONLY <3>1, Concatenated
  <2> QED
    BY <1>2, <2>2, <2>3
<1>8. UnreadIsSent'
  <2>1. GUESS_BYTES * (Pending + 1) = GUESS_BYTES * Pending + GUESS_BYTES
    BY <1>6
  <2>2. Len(Unread') = GUESS_BYTES * Pending' /\ Len(Unread') \in Nat /\ 0 <= Pending'
    BY <1>6, <1>7, <2>1
  <2>3. ASSUME NEW j \in 1 .. Pending', NEW i \in 1 .. GUESS_BYTES,
               GUESS_BYTES * (j - 1) + i <= Len(Unread')
        PROVE  Unread'[GUESS_BYTES * (j - 1) + i] = HtonlBytes(sent'[Len(answers') + j])[i]
    <3>1. CASE j = Pending + 1
      <4>1. GUESS_BYTES * (j - 1) + i = Len(Unread) + i
        BY <1>6, <3>1
      <4>2. sent'[Len(answers') + j] = g
        BY <1>3, <1>4, <1>6, <3>1
      <4> QED
        BY <1>7, <4>1, <4>2 DEF h
    <3>2. CASE j # Pending + 1
      <4>1. j \in 1 .. Pending /\ n + j \in 1 .. Len(sent)
        BY <1>6, <3>2
      <4>2. sent'[Len(answers') + j] = sent[n + j]
        BY <1>3, <1>4, <4>1
      <4>3. GUESS_BYTES * (j - 1) + i \in 1 .. Len(Unread)
        <5>1. \A x, y \in Nat : x < y => GUESS_BYTES * x + GUESS_BYTES <= GUESS_BYTES * y
          <6> TAKE x, y \in Nat
          <6> HAVE x < y
          <6>1. GUESS_BYTES * (y - x - 1) >= 0
            BY GameConstants
          <6> QED
            BY <6>1
        <5>2. j - 1 \in Nat /\ j - 1 < Pending
          BY <1>6, <4>1
        <5>3. GUESS_BYTES * (j - 1) + GUESS_BYTES <= Len(Unread)
          BY <1>6, <5>1, <5>2
        <5>4. GUESS_BYTES * (j - 1) \in Nat
          BY <5>2
        <5>5. Len(Unread) \in Nat /\ i \in 1 .. GUESS_BYTES
          BY <1>7
        <5> DEFINE x == GUESS_BYTES * (j - 1)
        <5>6. x \in Nat /\ x + GUESS_BYTES <= Len(Unread)
          BY <5>3, <5>4
        <5> HIDE DEF x
        <5>7. x + i \in 1 .. Len(Unread)
          BY <5>5, <5>6
        <5> QED
          BY <5>7 DEF x
      <4>4. Unread[GUESS_BYTES * (j - 1) + i] = HtonlBytes(sent[n + j])[i]
        <5>1. GUESS_BYTES * (j - 1) + i <= Len(Unread)
          BY <1>7, <4>3
        <5> QED
          BY <4>1, <5>1 DEF GameInv, UnreadIsSent
      <4> QED
        BY <1>7, <4>2, <4>3, <4>4
    <3> QED
      BY <3>1, <3>2
  <2>4. Len(Unread') <= GUESS_BYTES * Pending'
    BY <2>2
  <2> QED
    BY <2>2, <2>3, <2>4 DEF UnreadIsSent
<1>9. AttemptCounts'
  BY <1>3 DEF GameInv, AttemptCounts
<1>10. AllFit'
  <2>1. \A i \in 1 .. n : i \in 1 .. Len(sent)
    BY <1>6
  <2> QED
    BY <1>3, <1>4, <2>1 DEF GameInv, AllFit
<1> QED
  BY <1>5, <1>8, <1>9, <1>10 DEF GameInv

(* A client that leaves takes back the end of what it sent.                *)
LEMMA HangupInv ==
  ASSUME GameInv, NEW k \in 0 .. GUESS_BYTES - 1, Hangup(k)
  PROVE  GameInv'
<1> USE GameConstants
<1> DEFINE t == SubSeq(to_server, 1, Len(to_server) - k)
<1>1. /\ buffer \in Seq(Bytes) /\ to_server \in Seq(Bytes) /\ k <= Len(to_server)
      /\ sent \in Seq(Guesses) /\ answers \in Seq(Answers)
      /\ to_server' = t /\ buffer' = buffer /\ client_eof' = TRUE
      /\ sent' = sent /\ answers' = answers
  BY DEF GameInv, GameTypeOK, Hangup
<1>2. t \in Seq(Bytes) /\ Len(t) <= Len(to_server) /\ Len(t) \in Nat
      /\ \A i \in 1 .. Len(t) : t[i] = to_server[i]
  BY <1>1
<1> HIDE DEF t
<1>3. GameTypeOK'
  BY <1>1, <1>2 DEF GameInv, GameTypeOK, Hangup
<1>4. /\ Len(Unread') <= Len(Unread) /\ Len(Unread) \in Nat /\ Len(Unread') \in Nat
      /\ \A i \in 1 .. Len(Unread') : Unread'[i] = Unread[i]
  <2> DEFINE w == buffer \o to_server
             v == buffer \o t
  <2>1. buffer \in Seq(Bytes) /\ to_server \in Seq(Bytes) /\ t \in Seq(Bytes)
    BY <1>1, <1>2
  <2>2. /\ Len(w) = Len(buffer) + Len(to_server) /\ Len(v) = Len(buffer) + Len(t)
        /\ Len(buffer) \in Nat /\ Len(to_server) \in Nat /\ Len(t) \in Nat
    BY ONLY <2>1
  <2>3. \A i \in 1 .. Len(v) : v[i] = w[i]
    BY ONLY <1>2, <2>1, <2>2
  <2>4. Unread = w /\ Unread' = v
    BY <1>1 DEF Unread
  <2> HIDE DEF w, v
  <2> QED
    BY <1>2, <2>2, <2>3, <2>4
<1>5. Pending' = Pending /\ Pending \in Nat
  BY <1>1 DEF GameInv, UnreadIsSent, Pending
<1>6. UnreadIsSent'
  <2>1. GUESS_BYTES * Pending \in Nat
    BY <1>5
  <2>2. Len(Unread') <= GUESS_BYTES * Pending'
    BY <1>4, <1>5, <2>1 DEF GameInv, UnreadIsSent
  <2>3. ASSUME NEW j \in 1 .. Pending', NEW i \in 1 .. GUESS_BYTES,
               GUESS_BYTES * (j - 1) + i <= Len(Unread')
        PROVE  Unread'[GUESS_BYTES * (j - 1) + i] = HtonlBytes(sent'[Len(answers') + j])[i]
    <3>1. j \in 1 .. Pending /\ j - 1 \in Nat
      BY <1>5
    <3>2. GUESS_BYTES * (j - 1) \in Nat
      BY <3>1
    <3>3. GUESS_BYTES * (j - 1) + i \in 1 .. Len(Unread')
          /\ GUESS_BYTES * (j - 1) + i <= Len(Unread)
      BY <1>4, <2>3, <3>2
    <3>4. Unread[GUESS_BYTES * (j - 1) + i] = HtonlBytes(sent[Len(answers) + j])[i]
      BY <3>1, <3>3 DEF GameInv, UnreadIsSent
    <3> QED
      BY <1>1, <1>4, <3>3, <3>4
  <2> QED
    BY <1>1, <1>5, <2>2, <2>3 DEF UnreadIsSent
<1>7. AttemptCounts'
  BY <1>1 DEF GameInv, AttemptCounts, Hangup
<1>8. AllFit'
  BY <1>1 DEF GameInv, AllFit, Hangup
<1> QED
  BY <1>3, <1>6, <1>7, <1>8 DEF GameInv

(* No other step changes the streams.                                      *)
LEMMA GameNextInv == GameInv /\ [GameNext]_game_vars => GameInv'
<1> SUFFICES ASSUME GameInv, [GameNext]_game_vars PROVE GameInv'
  OBVIOUS
<1>1. ASSUME NEW k \in 1 .. GUESS_BYTES, Recv(k) PROVE GameInv'
  BY <1>1, RecvInv
<1>2. CASE Send
  BY <1>2, SendInv
<1>3. ASSUME NEW g \in Guesses, SendGuess(g) PROVE GameInv'
  BY <1>3, SendGuessInv
<1>4. ASSUME NEW k \in 0 .. GUESS_BYTES - 1, Hangup(k) PROVE GameInv'
  BY <1>4, HangupInv
<1>5. CASE RecvFails \/ SendKills \/ CloseSocket \/ UNCHANGED game_vars
  <2>1. /\ UNCHANGED <<game_number, attempt, buffer, to_server, client_eof, answers, sent>>
        /\ \/ pc' = pc
           \/ pc' = "killed"
           \/ pc' = "close" /\ client_eof
           \/ pc' = "closed" /\ pc = "close"
    BY <1>5 DEF RecvFails, SendKills, CloseSocket, game_vars
  <2>2. GameTypeOK'
    BY <2>1 DEF GameInv, GameTypeOK
  <2>3. UnreadIsSent'
    BY <2>1 DEF GameInv, UnreadIsSent, Unread, Pending
  <2>4. AttemptCounts'
    BY <2>1 DEF GameInv, AttemptCounts
  <2>5. AllFit'
    BY <2>1 DEF GameInv, AllFit
  <2> QED
    BY <2>2, <2>3, <2>4, <2>5 DEF GameInv
<1> QED
  BY <1>1, <1>2, <1>3, <1>4, <1>5 DEF GameNext, Child, Client

(* Every answer given is true of the number.                               *)
LEMMA GameInvNeverMisled == GameInv => NeverMisled
  BY GameConstants DEF GameInv, GameTypeOK, UnreadIsSent, Pending, AllFit, NeverMisled, Candidates

(* The guesses and the answers never get out of step: however recv() cuts  *)
(* up the bytes (RecvAll, hw5/server.c) and however far the client runs    *)
(* ahead, every answer is true of the guess the client takes it for, so    *)
(* the number is never excluded.                                           *)
THEOREM NobodyMisled == GameSpec => []NeverMisled
  BY GameInitInv, GameNextInv, GameInvNeverMisled, PTL DEF GameSpec


--------------------------------------------------------------------------------
(* That halving is enough.                                                 *)

LEMMA MiddleHalves ==
  ASSUME NEW C \in SUBSET Nat, IsFiniteSet(C), NEW m, IsMiddle(m, C)
  PROVE  /\ Cardinality({x \in C : x < m}) * 2 <= Cardinality(C)
         /\ Cardinality({x \in C : x > m}) * 2 <= Cardinality(C)
<1> DEFINE L == {x \in C : x < m}
           G == {x \in C : x > m}
           c == Cardinality(C)
<1>1. m \in C /\ Cardinality(L) = (c - 1) \div 2
  BY DEF IsMiddle
<1>2. L \in SUBSET C /\ G \in SUBSET C /\ L \cap G = {} /\ L \cup G = C \ {m}
  <2>1. m \in Nat /\ \A x \in C : x \in Nat /\ (x # m <=> x < m \/ x > m)
    BY <1>1
  <2>2. L \cap G = {}
    <3>1. \A x \in C : ~(x < m /\ x > m)
      BY <2>1
    <3> QED
      BY <3>1, Zenon
  <2>3. L \cup G = C \ {m}
    BY <2>1
  <2> QED
    BY <2>2, <2>3
<1>3. C # {}
  BY <1>1
<1> HIDE DEF L, G
<1>4. /\ c \in Nat /\ IsFiniteSet(L) /\ IsFiniteSet(G)
      /\ Cardinality(L) \in Nat /\ Cardinality(G) \in Nat
  BY <1>2, FS_Subset, FS_CardinalityType
<1>5. Cardinality(C \ {m}) = c - 1
  BY <1>1, FS_RemoveElement
<1>6. c # 0
  BY <1>3, FS_EmptySet
<1>7. Cardinality(L \cup G) = Cardinality(L) + Cardinality(G)
  <2>1. Cardinality(L \cup G) = Cardinality(L) + Cardinality(G) - Cardinality(L \cap G)
    BY <1>4, FS_Union
  <2>2. Cardinality(L \cap G) = 0
    BY <1>2, FS_EmptySet
  <2> QED
    BY <1>4, <2>1, <2>2
<1>8. Cardinality(L) + Cardinality(G) = c - 1
  BY <1>2, <1>5, <1>7
<1> HIDE DEF c
<1>9. Cardinality(L) * 2 <= c /\ Cardinality(G) * 2 <= c
  BY <1>1, <1>4, <1>6, <1>8
<1> QED
  BY <1>9 DEF c, L, G

(* Each answer that is not "=" leaves at most half of the numbers.         *)
LEMMA AnswerHalves ==
  ASSUME GameInv, HasHalved, NEW k \in 0 .. Len(answers) - 1, answers[k + 1] # "="
  PROVE  /\ IsFiniteSet(Candidates(k)) /\ IsFiniteSet(Candidates(k + 1))
         /\ Cardinality(Candidates(k + 1)) * 2 <= Cardinality(Candidates(k))
<1> DEFINE C == Candidates(k)
           D == Candidates(k + 1)
           m == sent[k + 1]
<1>1. Len(answers) \in Nat /\ k \in Nat /\ k + 1 \in 1 .. Len(answers)
  BY DEF GameInv, GameTypeOK
<1>2. answers[k + 1] \in Answers
  BY <1>1 DEF GameInv, GameTypeOK
<1>3. C \in SUBSET (0 .. MAX) /\ D = {x \in C : Fits(x, m, answers[k + 1])}
  <2>1. \A i : i \in 1 .. k + 1 <=> i \in 1 .. k \/ i = k + 1
    BY <1>1
  <2> QED
    BY <2>1 DEF Candidates
<1>4. IsMiddle(m, C)
  <2>1. IsMiddle(sent[k + 1], Candidates((k + 1) - 1)) /\ (k + 1) - 1 = k
    BY <1>1 DEF HasHalved
  <2> QED
    BY <2>1
<1>5. IsFiniteSet(0 .. MAX)
  BY GameConstants, FS_Interval
<1> HIDE DEF C, D, m
<1>6. IsFiniteSet(C) /\ C \in SUBSET Nat /\ D \in SUBSET C
  <2>1. IsFiniteSet(C)
    BY <1>3, <1>5, FS_Subset
  <2>2. 0 .. MAX \subseteq Nat
    BY GameConstants
  <2> QED
    BY <1>3, <2>1, <2>2
<1>7. IsFiniteSet(D)
  BY <1>6, FS_Subset
<1>8. Cardinality(D) * 2 <= Cardinality(C)
  <2>1. \/ D = {x \in C : x > m}
        \/ D = {x \in C : x < m}
    BY <1>2, <1>3 DEF Answers, Fits
  <2> QED
    BY <1>4, <1>6, <2>1, MiddleHalves
<1> QED
  BY <1>6, <1>7, <1>8 DEF C, D

(* Without a "=", MAX_ATTEMPTS answers would leave at most (MAX + 1) /     *)
(* 2^MAX_ATTEMPTS numbers, less than one; but the number itself is always  *)
(* left.                                                                   *)
LEMMA GameInvHalvingClientWins == GameInv => HalvingClientWins
<1> SUFFICES ASSUME GameInv, pc = "closed", ~client_eof, HasHalved,
                    \A i \in 1 .. Len(answers) : answers[i] # "="
             PROVE  FALSE
  BY DEF HalvingClientWins
<1> DEFINE Left(k) == Cardinality(Candidates(k))
           n == Len(answers)
           S == {k \in Nat : k <= n => Left(k) * Power(2, k) <= MAX + 1}
<1>1. n \in Nat /\ n = MAX_ATTEMPTS
  BY GameConstants DEF GameInv, GameTypeOK, AttemptCounts
<1>2. 0 \in S
  <2>1. Candidates(0) = 0 .. MAX
    BY DEF Candidates
  <2>2. Left(0) = MAX + 1
    BY <2>1, GameConstants, FS_Interval
  <2> QED
    BY <2>2, PowerZero, GameConstants
<1>3. ASSUME NEW k \in Nat, k \in S PROVE k + 1 \in S
  <2> SUFFICES ASSUME k + 1 <= n PROVE Left(k + 1) * Power(2, k + 1) <= MAX + 1
    OBVIOUS
  <2>1. k \in 0 .. n - 1 /\ answers[k + 1] # "="
    BY <1>1
  <2>2. /\ Left(k) \in Nat /\ Left(k + 1) \in Nat
        /\ Left(k + 1) * 2 <= Left(k)
    BY <2>1, AnswerHalves, FS_CardinalityType
  <2>3. Left(k) * Power(2, k) <= MAX + 1
    BY <1>1, <1>3
  <2>4. Power(2, k + 1) = Power(2, k) * 2 /\ Power(2, k) \in Nat \ {0}
    <3>1. 2 \in Nat \ {0}
      OBVIOUS
    <3> QED
      BY <3>1, PowerNext, PowerType
  <2> DEFINE a == Left(k)
             b == Left(k + 1)
             p == Power(2, k)
  <2>5. /\ a \in Nat /\ b \in Nat /\ p \in Nat \ {0} /\ b * 2 <= a /\ a * p <= MAX + 1
    BY <2>2, <2>3, <2>4
  <2> HIDE DEF a, b, p
  <2>6. b * (p * 2) <= MAX + 1
    <3>1. (a - b * 2) * p >= 0
      BY <2>5
    <3>2. b * (p * 2) = (b * 2) * p /\ (a - b * 2) * p = a * p - (b * 2) * p
      BY <2>5
    <3>3. a * p \in Int /\ (b * 2) * p \in Int
      BY <2>5
    <3> QED
      BY <2>5, <3>1, <3>2, <3>3, GameConstants
  <2> QED
    BY <2>4, <2>6 DEF b, p
<1> HIDE DEF S
<1>4. n \in S
  BY <1>1, <1>2, <1>3, Product!NatSetInduction
<1>5. Left(n) * Power(2, n) <= MAX + 1
  BY <1>1, <1>4 DEF S
<1>6. Left(n) \in Nat \ {0}
  <2>1. game_number \in Candidates(n)
    BY GameInvNeverMisled DEF NeverMisled
  <2>2. IsFiniteSet(0 .. MAX) /\ Candidates(n) \in SUBSET (0 .. MAX)
    BY GameConstants, FS_Interval DEF Candidates
  <2>3. IsFiniteSet(Candidates(n))
    BY <2>2, FS_Subset
  <2> QED
    BY <2>1, <2>3, FS_CardinalityType, FS_EmptySet
<1>7. Power(2, n) \in Nat \ {0}
  BY <1>1, PowerType
<1>8. Left(n) * Power(2, n) >= Power(2, n)
  <2>1. \A x, y \in Nat \ {0} : x * y >= y
    <3> TAKE x, y \in Nat \ {0}
    <3>1. (x - 1) * y >= 0
      OBVIOUS
    <3> QED
      BY <3>1
  <2> HIDE DEF n, Left
  <2> QED
    BY <1>6, <1>7, <2>1
<1>9. Left(n) * Power(2, n) \in Int
  <2>1. \A x, y \in Nat : x * y \in Int
    OBVIOUS
  <2> HIDE DEF n, Left
  <2> QED
    BY <1>6, <1>7, <2>1
<1> HIDE DEF n, Left
<1> QED
  BY <1>1, <1>5, <1>7, <1>8, <1>9, AttemptsAssumption, GameConstants

(* The variables of a game keep their types.                               *)
THEOREM GameTypes == GameSpec => []GameTypeOK
<1>1. GameInv => GameTypeOK
  BY DEF GameInv
<1> QED
  BY GameInitInv, GameNextInv, <1>1, PTL DEF GameSpec

(* MAX_ATTEMPTS is enough (32, hw5/server.c:20, for numbers to 10^9): a     *)
(* client that guesses the number in the middle has won when it is sent    *)
(* away.                                                                   *)
THEOREM HalvingWins == GameSpec => []HalvingClientWins
  BY GameInitInv, GameNextInv, GameInvHalvingClientWins, PTL DEF GameSpec

================================================================================
