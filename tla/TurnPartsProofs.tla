-------------------------- MODULE TurnPartsProofs --------------------------
(***************************************************************************)
(* The two parts of a turn that TurnPartsMC puts side by side, each on its   *)
(* own and for every value of its constants: the pinned session it appends   *)
(* to and the mailbox it drains.                                             *)
(***************************************************************************)
EXTENDS TurnPartsMC, SequenceTheorems, FiniteSetTheorems, TLAPS

-----------------------------------------------------------------------------
(***************************************************************************)
(* The pinned session, for any number of events and keys and all bounds.     *)
(* Inv is the inductive invariant: the type invariant, where a turn may be   *)
(* with its iterations and calls, that a handle is a prefix of its session   *)
(* (it was read from it, and the session only grows), and that the chain of  *)
(* a key holds exactly the dispatches that are queued or run, each once, the *)
(* running one in front.  A turn whose first append fits has then the whole  *)
(* session, and nobody else appends to it.  CallsInv and AccInv, further     *)
(* down, strengthen it for the two promises about the conversation.          *)
(***************************************************************************)

Waits == {"queued"} \cup Running

Prefix(h, s) == Len(h) <= Len(s) /\ \A i \in 1 .. Len(h) : h[i] = s[i]

TurnFits ==
  \A d \in Dispatches :
    /\ pc[d] \notin Running => turn[d] = NoTurn
    /\ pc[d] \in {"asking", "tools"} => turn[d].iteration < MaxIterations
    /\ pc[d] = "tools" => turn[d].answers < turn[d].blocks

Prefixes == \A d \in Dispatches : Prefix(handle[d], stored[key[d]])

\* The places of a chain.
InChain ==
  \A k \in Keys : \A i \in 1 .. Len(chain[k]) :
    /\ key[chain[k][i]] = k /\ pc[chain[k][i]] \in Waits
    /\ i > 1 => pc[chain[k][i]] = "queued"

OnePlace ==
  \A k \in Keys : \A i, j \in 1 .. Len(chain[k]) : chain[k][i] = chain[k][j] => i = j

\* Who waits or runs has a place.
HasPlace ==
  \A d \in Dispatches : pc[d] \in Waits =>
    \E i \in 1 .. Len(chain[key[d]]) : chain[key[d]][i] = d

Chained == InChain /\ OnePlace /\ HasPlace

Inv == TypeOK /\ TurnFits /\ Prefixes /\ RequestSeesAll /\ Chained

-----------------------------------------------------------------------------
(* Sequences *)

LEMMA BoundsAreNumbers ==
  /\ MaxIterations \in Nat /\ MaxIterations > 0 /\ MaxBlocks \in Nat /\ MaxBlocks > 0
  /\ MaxFaults \in Nat /\ MaxCrashes \in Nat
<1> QED BY PinnedAssumption

\* A prefix stays one when the session grows.
LEMMA PrefixAppend ==
  ASSUME NEW S, NEW h \in Seq(S), NEW s \in Seq(S), NEW m \in S, Prefix(h, s)
  PROVE  Prefix(h, Append(s, m))
<1> QED BY DEF Prefix

\* A prefix that is no shorter is all of it.
LEMMA PrefixWhole ==
  ASSUME NEW S, NEW h \in Seq(S), NEW s \in Seq(S), Prefix(h, s), Len(s) <= Len(h)
  PROVE  h = s
<1>1. Len(h) = Len(s) /\ Len(h) \in Nat
  BY DEF Prefix
<1>2. \A i \in 1 .. Len(h) : h[i] = s[i]
  BY DEF Prefix
<1> QED BY <1>1, <1>2, SeqEqual

LEMMA EmptyPrefix ==
  ASSUME NEW S, NEW s \in Seq(S)
  PROVE  Prefix(<<>>, s)
<1> QED BY DEF Prefix

LEMMA SelfPrefix ==
  ASSUME NEW S, NEW s \in Seq(S)
  PROVE  Prefix(s, s)
<1> QED BY DEF Prefix

-----------------------------------------------------------------------------
(* The lock *)

\* The holder of the lock is at the front of its chain, and so is who runs.
LEMMA Front ==
  ASSUME Inv, NEW d \in Dispatches, pc[d] \in Running
  PROVE  HasLock(d)
<1>1. PICK i \in 1 .. Len(chain[key[d]]) : chain[key[d]][i] = d
  BY DEF Inv, Chained, HasPlace, Waits
<1>2. key[d] \in Keys /\ pc[d] # "queued"
  BY DEF Inv, TypeOK, Running
<1>3. i = 1
  BY <1>1, <1>2 DEF Inv, Chained, InChain
<1>4. chain[key[d]] \in Seq(Dispatches)
  BY <1>2 DEF Inv, TypeOK
<1> QED BY <1>1, <1>3, <1>4 DEF HasLock

\* Two dispatches of one key never run at once.
LEMMA OneRuns ==
  ASSUME Inv, NEW d \in Dispatches, NEW e \in Dispatches, HasLock(d),
         pc[e] \in Running, key[e] = key[d]
  PROVE  e = d
<1> QED BY Front DEF HasLock

\* A dispatch that neither waits nor runs, before and after, touches no chain.
LEMMA Outside ==
  ASSUME Inv, NEW d \in Dispatches, NEW v, pc[d] \notin Waits, v \notin Waits,
         key' = key, chain' = chain, pc' = [pc EXCEPT ![d] = v]
  PROVE  Chained'
<1>1. pc \in [Dispatches -> {"idle", "queued"} \cup Resolved \cup Running]
  BY DEF Inv, TypeOK
<1>2. \A e \in Dispatches : pc[e] \in Waits <=> pc'[e] \in Waits
  BY <1>1
<1>3. \A k \in Keys : \A i \in 1 .. Len(chain[k]) :
        chain[k][i] \in Dispatches /\ pc'[chain[k][i]] = pc[chain[k][i]]
  <2> TAKE k \in Keys
  <2> TAKE i \in 1 .. Len(chain[k])
  <2>1. chain[k] \in Seq(Dispatches)
    BY DEF Inv, TypeOK
  <2>2. chain[k][i] \in Dispatches
    BY <2>1
  <2>3. chain[k][i] # d
    BY DEF Inv, Chained, InChain
  <2> QED BY <1>1, <2>2, <2>3
<1>4. InChain'
  BY <1>3 DEF Inv, Chained, InChain
<1>5. OnePlace' /\ HasPlace'
  BY <1>2 DEF Inv, Chained, OnePlace, HasPlace
<1> QED BY <1>4, <1>5 DEF Chained

\* The holder of the lock starts or goes on.
LEMMA Goes ==
  ASSUME Inv, NEW d \in Dispatches, NEW v \in Running, HasLock(d), pc[d] \in Waits,
         key' = key, chain' = chain, pc' = [pc EXCEPT ![d] = v]
  PROVE  Chained'
<1>1. pc \in [Dispatches -> {"idle", "queued"} \cup Resolved \cup Running]
  BY DEF Inv, TypeOK
<1>2. \A e \in Dispatches : pc[e] \in Waits <=> pc'[e] \in Waits
  BY <1>1 DEF Waits
<1>3. \A k \in Keys : \A i \in 1 .. Len(chain[k]) :
        /\ chain[k][i] \in Dispatches
        /\ i > 1 => pc'[chain[k][i]] = pc[chain[k][i]]
  <2> TAKE k \in Keys
  <2> TAKE i \in 1 .. Len(chain[k])
  <2>1. chain[k] \in Seq(Dispatches) /\ Len(chain[k]) \in Nat
    BY DEF Inv, TypeOK
  <2>2. chain[k][i] \in Dispatches
    BY <2>1
  <2>3. ASSUME i > 1 PROVE chain[k][i] # d
    <3>1. SUFFICES ASSUME chain[k][i] = d PROVE FALSE
      OBVIOUS
    <3>2. key[d] = k
      BY <3>1 DEF Inv, Chained, InChain
    <3>3. chain[k][1] = d /\ 1 \in 1 .. Len(chain[k])
      BY <2>1, <3>2 DEF HasLock
    <3> QED BY <2>3, <3>1, <3>3 DEF Inv, Chained, OnePlace
  <2> QED BY <1>1, <2>2, <2>3
<1>4. InChain'
  BY <1>2, <1>3 DEF Inv, Chained, InChain
<1>5. OnePlace' /\ HasPlace'
  BY <1>2 DEF Inv, Chained, OnePlace, HasPlace
<1> QED BY <1>4, <1>5 DEF Chained

\* runForSession puts the turn behind the others.
LEMMA Joins ==
  ASSUME Inv, NEW d \in Dispatches, Enqueue(d)
  PROVE  Chained' /\ chain' \in [Keys -> Seq(Dispatches)]
<1> DEFINE k0 == key[d]
           last == Len(chain[k0]) + 1
<1>1. /\ pc \in [Dispatches -> {"idle", "queued"} \cup Resolved \cup Running]
      /\ chain \in [Keys -> Seq(Dispatches)] /\ k0 \in Keys
  BY DEF Inv, TypeOK
<1>2. /\ chain' = [chain EXCEPT ![k0] = Append(chain[k0], d)] /\ key' = key
      /\ pc' = [pc EXCEPT ![d] = "queued"] /\ pc[d] \notin Waits
  BY DEF Enqueue, Waits, Running
<1>3. chain[k0] \in Seq(Dispatches) /\ chain'[k0] = Append(chain[k0], d)
  BY <1>1, <1>2
<1>4. /\ Len(chain'[k0]) = last /\ chain'[k0][last] = d /\ last \in Nat
      /\ \A i \in 1 .. Len(chain[k0]) : chain'[k0][i] = chain[k0][i]
      /\ Len(chain[k0]) \in Nat
  BY <1>3
<1>5. \A k \in Keys \ {k0} : chain'[k] = chain[k]
  BY <1>1, <1>2
<1>6. \A k \in Keys : \A i \in 1 .. Len(chain[k]) :
        /\ chain[k][i] \in Dispatches \ {d} /\ pc'[chain[k][i]] = pc[chain[k][i]]
  <2> TAKE k \in Keys
  <2> TAKE i \in 1 .. Len(chain[k])
  <2>1. chain[k] \in Seq(Dispatches)
    BY <1>1
  <2>2. chain[k][i] \in Dispatches
    BY <2>1
  <2>3. chain[k][i] # d
    BY <1>2 DEF Inv, Chained, InChain
  <2> QED BY <1>1, <1>2, <2>2, <2>3
<1>7. chain' \in [Keys -> Seq(Dispatches)]
  <2>1. Append(chain[k0], d) \in Seq(Dispatches)
    BY <1>3
  <2> QED BY <1>1, <1>2, <2>1
<1>8. pc'[d] = "queued"
  BY <1>1, <1>2
<1>9. InChain'
  <2> SUFFICES ASSUME NEW k \in Keys, NEW i \in 1 .. Len(chain'[k])
               PROVE  /\ key[chain'[k][i]] = k /\ pc'[chain'[k][i]] \in Waits
                      /\ i > 1 => pc'[chain'[k][i]] = "queued"
    BY <1>2 DEF InChain
  <2>1. CASE k = k0 /\ i = last
    BY <2>1, <1>4, <1>8 DEF Waits
  <2>2. CASE ~(k = k0 /\ i = last)
    <3>1. i \in 1 .. Len(chain[k]) /\ chain'[k][i] = chain[k][i]
      BY <2>2, <1>4, <1>5
    <3> QED BY <3>1, <1>6 DEF Inv, Chained, InChain
  <2> QED BY <2>1, <2>2
<1>10. OnePlace'
  <2> SUFFICES ASSUME NEW k \in Keys, NEW i \in 1 .. Len(chain'[k]),
                      NEW j \in 1 .. Len(chain'[k]), chain'[k][i] = chain'[k][j]
               PROVE  i = j
    BY DEF OnePlace
  <2>1. CASE k # k0
    BY <2>1, <1>5 DEF Inv, Chained, OnePlace
  <2>2. CASE k = k0
    <3>1. \A m \in 1 .. last : m # last => m \in 1 .. Len(chain[k0]) /\ chain'[k0][m] # d
      <4> TAKE m \in 1 .. last
      <4> HAVE m # last
      <4>1. m \in 1 .. Len(chain[k0])
        BY <1>4
      <4>2. chain[k0][m] # d
        BY <4>1, <1>1, <1>6
      <4> QED BY <4>1, <4>2, <1>4
    <3>2. i \in 1 .. last /\ j \in 1 .. last
      BY <2>2, <1>4
    <3>3. CASE i = last \/ j = last
      BY <3>1, <3>2, <3>3, <2>2, <1>4
    <3>4. CASE i # last /\ j # last
      BY <3>1, <3>2, <3>4, <2>2, <1>4, <1>1 DEF Inv, Chained, OnePlace
    <3> QED BY <3>3, <3>4
  <2> QED BY <2>1, <2>2
<1>11. HasPlace'
  <2> SUFFICES ASSUME NEW e \in Dispatches, pc'[e] \in Waits
               PROVE  \E i \in 1 .. Len(chain'[key[e]]) : chain'[key[e]][i] = e
    BY <1>2 DEF HasPlace
  <2>1. CASE e = d
    <3>1. last \in 1 .. Len(chain'[k0])
      BY <1>4
    <3> QED BY <2>1, <3>1, <1>4
  <2>2. CASE e # d
    <3>1. pc[e] \in Waits /\ key[e] \in Keys
      BY <2>2, <1>1, <1>2 DEF Inv, TypeOK
    <3>2. PICK i \in 1 .. Len(chain[key[e]]) : chain[key[e]][i] = e
      BY <3>1 DEF Inv, Chained, HasPlace
    <3>3. i \in 1 .. Len(chain'[key[e]]) /\ chain'[key[e]][i] = e
      BY <3>1, <3>2, <1>4, <1>5
    <3> QED BY <3>3
  <2> QED BY <2>1, <2>2
<1> QED BY <1>7, <1>9, <1>10, <1>11 DEF Chained

\* The lock goes to the next.
LEMMA Leaves ==
  ASSUME Inv, NEW d \in Dispatches, HasLock(d), Release(d), key' = key,
         pc' = [pc EXCEPT ![d] = "idle"]
  PROVE  Chained' /\ chain' \in [Keys -> Seq(Dispatches)]
<1> DEFINE k0 == key[d]
<1>1. /\ pc \in [Dispatches -> {"idle", "queued"} \cup Resolved \cup Running]
      /\ chain \in [Keys -> Seq(Dispatches)] /\ k0 \in Keys
  BY DEF Inv, TypeOK
<1>2. chain' = [chain EXCEPT ![k0] = Tail(chain[k0])]
  BY DEF Release
<1>3. chain[k0] \in Seq(Dispatches) /\ chain[k0] # <<>> /\ chain'[k0] = Tail(chain[k0])
  BY <1>1, <1>2 DEF HasLock
<1>4. /\ Len(chain[k0]) \in Nat /\ Len(chain[k0]) > 0
      /\ Len(chain'[k0]) = Len(chain[k0]) - 1
      /\ \A i \in 1 .. Len(chain'[k0]) : chain'[k0][i] = chain[k0][i + 1]
      /\ chain[k0][1] = d
  BY <1>3 DEF HasLock
<1>5. \A k \in Keys \ {k0} : chain'[k] = chain[k]
  BY <1>1, <1>2
<1>6. chain' \in [Keys -> Seq(Dispatches)]
  <2>1. Tail(chain[k0]) \in Seq(Dispatches)
    BY <1>3
  <2> QED BY <1>1, <1>2, <2>1
<1>7. \A e \in Dispatches \ {d} : pc'[e] = pc[e]
  BY <1>1
<1>8. \A i \in 1 .. Len(chain'[k0]) :
        i + 1 \in 1 .. Len(chain[k0]) /\ i + 1 > 1 /\ chain[k0][i + 1] \in Dispatches \ {d}
  <2> TAKE i \in 1 .. Len(chain'[k0])
  <2>1. i + 1 \in 1 .. Len(chain[k0]) /\ i + 1 > 1 /\ 1 \in 1 .. Len(chain[k0])
    BY <1>4
  <2>2. chain[k0][i + 1] \in Dispatches
    BY <2>1, <1>3
  <2>3. chain[k0][i + 1] # d
    BY <2>1, <1>4, <1>1 DEF Inv, Chained, OnePlace
  <2> QED BY <2>1, <2>2, <2>3
<1>9. \A k \in Keys \ {k0} : \A i \in 1 .. Len(chain[k]) : chain[k][i] \in Dispatches \ {d}
  <2> TAKE k \in Keys \ {k0}
  <2> TAKE i \in 1 .. Len(chain[k])
  <2>1. chain[k] \in Seq(Dispatches)
    BY <1>1
  <2>2. chain[k][i] # d
    BY DEF Inv, Chained, InChain
  <2> QED BY <2>1, <2>2
<1>10. InChain'
  <2> SUFFICES ASSUME NEW k \in Keys, NEW i \in 1 .. Len(chain'[k])
               PROVE  /\ key[chain'[k][i]] = k /\ pc'[chain'[k][i]] \in Waits
                      /\ i > 1 => pc'[chain'[k][i]] = "queued"
    BY DEF InChain
  <2>1. CASE k = k0
    <3>1. /\ i + 1 \in 1 .. Len(chain[k0]) /\ i + 1 > 1
          /\ chain'[k][i] = chain[k0][i + 1] /\ pc'[chain'[k][i]] = pc[chain[k0][i + 1]]
      BY <2>1, <1>4, <1>7, <1>8
    <3> QED BY <2>1, <3>1, <1>1 DEF Inv, Chained, InChain
  <2>2. CASE k # k0
    BY <2>2, <1>5, <1>7, <1>9 DEF Inv, Chained, InChain
  <2> QED BY <2>1, <2>2
<1>11. OnePlace'
  <2> SUFFICES ASSUME NEW k \in Keys, NEW i \in 1 .. Len(chain'[k]),
                      NEW j \in 1 .. Len(chain'[k]), chain'[k][i] = chain'[k][j]
               PROVE  i = j
    BY DEF OnePlace
  <2>1. CASE k # k0
    BY <2>1, <1>5 DEF Inv, Chained, OnePlace
  <2>2. CASE k = k0
    <3>1. i + 1 \in 1 .. Len(chain[k0]) /\ j + 1 \in 1 .. Len(chain[k0])
      BY <2>2, <1>8
    <3>2. chain[k0][i + 1] = chain[k0][j + 1]
      BY <2>2, <1>4
    <3>3. i + 1 = j + 1
      BY <3>1, <3>2, <1>1 DEF Inv, Chained, OnePlace
    <3> QED BY <3>3
  <2> QED BY <2>1, <2>2
<1>12. HasPlace'
  <2> SUFFICES ASSUME NEW e \in Dispatches, pc'[e] \in Waits
               PROVE  \E i \in 1 .. Len(chain'[key[e]]) : chain'[key[e]][i] = e
    BY DEF HasPlace
  <2>1. e # d /\ pc[e] \in Waits /\ key[e] \in Keys
    BY <1>1 DEF Waits, Running, Inv, TypeOK
  <2>2. PICK i \in 1 .. Len(chain[key[e]]) : chain[key[e]][i] = e
    BY <2>1 DEF Inv, Chained, HasPlace
  <2>3. CASE key[e] # k0
    BY <2>1, <2>2, <2>3, <1>5
  <2>4. CASE key[e] = k0
    <3>1. i # 1
      BY <2>1, <2>2, <2>4, <1>4
    <3>2. i - 1 \in 1 .. Len(chain'[k0])
      BY <2>2, <2>4, <3>1, <1>4
    <3>3. chain'[k0][i - 1] = e
      BY <2>2, <2>4, <3>2, <1>4
    <3> QED BY <2>4, <3>2, <3>3
  <2> QED BY <2>3, <2>4
<1> QED BY <1>6, <1>10, <1>11, <1>12 DEF Chained

-----------------------------------------------------------------------------
(* The transcript *)

\* What d appends it has, every other handle stays a prefix, and nobody else
\* runs on its session.
LEMMA Appended ==
  ASSUME Inv, NEW d \in Dispatches, HasLock(d), Fits(d),
         NEW kind \in {"user", "text", "calls", "results"}, NEW n \in 0 .. MaxBlocks,
         Appends(d, Message(d, kind, n)), key' = key,
         \A e \in Dispatches \ {d} : pc'[e] = pc[e]
  PROVE  /\ stored' \in [Keys -> Transcript] /\ handle' \in [Dispatches -> Transcript]
         /\ Prefixes' /\ RequestSeesAll'
<1> DEFINE M == [of : Dispatches, kind : {"user", "text", "calls", "results"}, n : 0 .. MaxBlocks]
           m == Message(d, kind, n)
           k0 == key[d]
<1>1. m \in M
  BY DEF Message
<1>2. /\ stored \in [Keys -> Seq(M)] /\ handle \in [Dispatches -> Seq(M)]
      /\ key \in [Dispatches -> Keys]
  BY DEF Inv, TypeOK, Transcript
<1> HIDE DEF M, m
<1>3. stored[k0] \in Seq(M) /\ handle[d] \in Seq(M) /\ k0 \in Keys
  BY <1>2
<1>4. handle[d] = stored[k0]
  BY <1>3, PrefixWhole DEF Inv, Prefixes, Fits
<1>5. /\ stored' = [stored EXCEPT ![k0] = Append(stored[k0], m)]
      /\ handle' = [handle EXCEPT ![d] = Append(handle[d], m)]
  BY DEF Appends, m
<1>6. Append(stored[k0], m) \in Seq(M) /\ Append(handle[d], m) \in Seq(M)
  BY <1>1, <1>3
<1>7. stored' \in [Keys -> Seq(M)] /\ handle' \in [Dispatches -> Seq(M)]
  BY <1>2, <1>5, <1>6
<1>8. handle'[d] = stored'[k0]
  BY <1>2, <1>3, <1>4, <1>5
<1>9. \A e \in Dispatches \ {d} : handle'[e] = handle[e]
  BY <1>2, <1>5
<1>10. \A k \in Keys \ {k0} : stored'[k] = stored[k]
  BY <1>2, <1>5
<1>11. Prefixes'
  <2> SUFFICES ASSUME NEW e \in Dispatches PROVE Prefix(handle'[e], stored'[key[e]])
    BY DEF Prefixes
  <2>1. CASE e = d
    BY <2>1, <1>3, <1>7, <1>8, SelfPrefix
  <2>2. CASE e # d /\ key[e] = k0
    <3>1. Prefix(handle[e], stored[k0])
      BY <2>2 DEF Inv, Prefixes
    <3>2. Prefix(handle[e], Append(stored[k0], m))
      BY <3>1, <1>1, <1>2, <1>3, PrefixAppend
    <3> QED BY <2>2, <3>2, <1>2, <1>3, <1>5, <1>9
  <2>3. CASE e # d /\ key[e] # k0
    BY <2>3, <1>2, <1>9, <1>10 DEF Inv, Prefixes
  <2> QED BY <2>1, <2>2, <2>3
<1>12. RequestSeesAll'
  <2> SUFFICES ASSUME NEW e \in Dispatches, pc'[e] \in Running
               PROVE  handle'[e] = stored'[key[e]]
    BY DEF RequestSeesAll, Running
  <2>1. CASE e = d
    BY <2>1, <1>8
  <2>2. CASE e # d
    <3>1. pc[e] \in Running
      BY <2>2
    <3>2. key[e] # k0
      BY <2>2, <3>1, OneRuns
    <3> QED BY <2>2, <3>1, <3>2, <1>2, <1>9, <1>10 DEF Inv, RequestSeesAll
  <2> QED BY <2>1, <2>2
<1> QED BY <1>7, <1>11, <1>12 DEF Transcript, M

\* A dispatch that ends forgets its handle.
LEMMA Ended ==
  ASSUME Inv, NEW d \in Dispatches, NEW o \in Outcomes, Ends(d, o),
         UNCHANGED <<key, stored>>
  PROVE  /\ handle' \in [Dispatches -> Transcript] /\ Prefixes' /\ RequestSeesAll' /\ TurnFits'
         /\ pc' \in [Dispatches -> {"idle", "queued"} \cup Resolved \cup Running]
         /\ turn' \in [Dispatches -> [iteration : 0 .. MaxIterations, blocks : 0 .. MaxBlocks,
                                       answers : 0 .. MaxBlocks]]
         /\ outcome' \in [Dispatches -> Outcomes]
<1>1. /\ stored \in [Keys -> Transcript] /\ handle \in [Dispatches -> Transcript]
      /\ key \in [Dispatches -> Keys]
      /\ pc \in [Dispatches -> {"idle", "queued"} \cup Resolved \cup Running]
      /\ turn \in [Dispatches -> [iteration : 0 .. MaxIterations, blocks : 0 .. MaxBlocks,
                                   answers : 0 .. MaxBlocks]]
      /\ outcome \in [Dispatches -> Outcomes]
  BY DEF Inv, TypeOK
<1>2. <<>> \in Transcript
  BY DEF Transcript
<1>3. NoTurn \in [iteration : 0 .. MaxIterations, blocks : 0 .. MaxBlocks, answers : 0 .. MaxBlocks]
  BY BoundsAreNumbers DEF NoTurn
<1>4. /\ pc' = [pc EXCEPT ![d] = "idle"] /\ handle' = [handle EXCEPT ![d] = <<>>]
      /\ turn' = [turn EXCEPT ![d] = NoTurn] /\ outcome' = [outcome EXCEPT ![d] = o]
  BY DEF Ends
<1>5. \A e \in Dispatches \ {d} :
        pc'[e] = pc[e] /\ handle'[e] = handle[e] /\ turn'[e] = turn[e]
  BY <1>1, <1>4
<1>6. pc'[d] = "idle" /\ handle'[d] = <<>> /\ turn'[d] = NoTurn
  BY <1>1, <1>4
<1>7. Prefix(<<>>, stored[key[d]])
  BY <1>1, EmptyPrefix DEF Transcript
<1>8. Prefixes'
  BY <1>5, <1>6, <1>7 DEF Inv, Prefixes
<1>9. RequestSeesAll'
  BY <1>5, <1>6 DEF Inv, RequestSeesAll, Running
<1>10. TurnFits'
  BY <1>5, <1>6 DEF Inv, TurnFits, Running
<1> QED BY <1>1, <1>2, <1>3, <1>4, <1>8, <1>9, <1>10

-----------------------------------------------------------------------------
(* Steps *)

\* A step of d moves only d, between two places outside runAgent.
LEMMA OthersStay ==
  ASSUME TypeOK, NEW d \in Dispatches, NEW v, pc' = [pc EXCEPT ![d] = v],
         pc[d] \notin Running, v \notin Running
  PROVE  \A e \in Dispatches : pc'[e] = pc[e] \/ (pc'[e] \notin Running /\ pc[e] \notin Running)
<1>1. pc \in [Dispatches -> {"idle", "queued"} \cup Resolved \cup Running]
  BY DEF TypeOK
<1> TAKE e \in Dispatches
<1>2. CASE e = d
  BY <1>1, <1>2
<1>3. CASE e # d
  <2>1. pc'[e] = pc[e]
    BY <1>1, <1>3
  <2> QED BY <2>1
<1> QED BY <1>2, <1>3

LEMMA InitInv == Init => Inv
<1> SUFFICES ASSUME Init PROVE Inv OBVIOUS
<1>1. TypeOK
  <2>1. <<>> \in Transcript /\ <<>> \in Seq(Dispatches)
    BY DEF Transcript
  <2>2. NoTurn \in [iteration : 0 .. MaxIterations, blocks : 0 .. MaxBlocks, answers : 0 .. MaxBlocks]
    BY BoundsAreNumbers DEF NoTurn
  <2>3. faultsLeft \in 0 .. MaxFaults /\ crashesLeft \in 0 .. MaxCrashes
    BY BoundsAreNumbers DEF Init
  <2> QED BY <2>1, <2>2, <2>3 DEF Init, TypeOK, Outcomes
<1>2. TurnFits /\ RequestSeesAll
  BY DEF Init, TurnFits, RequestSeesAll, Running
<1>3. Prefixes
  BY EmptyPrefix, <1>1 DEF Init, Prefixes, TypeOK, Transcript
<1>4. Chained
  <2>1. \A k \in Keys : chain[k] = <<>> /\ Len(chain[k]) = 0
    BY DEF Init
  <2>2. \A d \in Dispatches : pc[d] \notin Waits
    BY DEF Init, Waits, Running
  <2> QED BY <2>1, <2>2 DEF Chained, InChain, OnePlace, HasPlace
<1> QED BY <1>1, <1>2, <1>3, <1>4 DEF Inv

\* What a step of d leaves as it is when neither its handle nor a session moves.
LEMMA SameTranscript ==
  ASSUME Inv, UNCHANGED <<key, stored, handle>>,
         \A e \in Dispatches : pc'[e] \in Running => pc[e] \in Running
  PROVE  Prefixes' /\ RequestSeesAll'
<1> QED BY DEF Inv, Prefixes, RequestSeesAll

LEMMA ResolveInv == ASSUME Inv, NEW d \in Dispatches, Resolve(d) PROVE Inv'
<1>1. TypeOK /\ key[d] \in Keys /\ stored[key[d]] \in Transcript
  BY DEF Inv, TypeOK
<1>2. PICK v \in {"found", "missed"} :
        pc' = [pc EXCEPT ![d] = v] /\ (v = "missed" => handle' = handle)
        /\ (v = "found" => handle' = [handle EXCEPT ![d] = stored[key[d]]])
  BY DEF Resolve, Opened
<1>3. UNCHANGED <<key, store, chain, turn, outcome, cut, budget>> /\ pc[d] = "idle"
      /\ shared' \subseteq Dispatches
  BY <1>1 DEF Resolve, Peers, TypeOK
<1>4. \A e \in Dispatches \ {d} : pc'[e] = pc[e] /\ handle'[e] = handle[e]
  BY <1>1, <1>2 DEF TypeOK
<1>5. pc'[d] = v /\ (handle'[d] = handle[d] \/ handle'[d] = stored[key[d]])
  BY <1>1, <1>2 DEF TypeOK
<1>6. TypeOK'
  BY <1>1, <1>2, <1>3 DEF TypeOK, store, budget, Resolved
<1>7. TurnFits' /\ RequestSeesAll'
  BY <1>3, <1>4, <1>5 DEF Inv, TurnFits, RequestSeesAll, Running, store
<1>8. Prefixes'
  BY <1>1, <1>3, <1>4, <1>5, SelfPrefix DEF Inv, Prefixes, store, Transcript
<1>9. Chained'
  BY <1>2, <1>3, Outside DEF Waits, Running
<1> QED BY <1>6, <1>7, <1>8, <1>9 DEF Inv

LEMMA CreateInv == ASSUME Inv, NEW d \in Dispatches, Create(d) PROVE Inv'
<1>1. TypeOK /\ pc[d] = "missed" /\ UNCHANGED <<key, stored, chain, shared, cut, budget>>
  BY DEF Inv, Create
<1>2. CASE /\ pinned' = pinned \cup {key[d]} /\ pc' = [pc EXCEPT ![d] = "created"]
           /\ UNCHANGED <<handle, turn, outcome>>
  <2>1. TypeOK'
    BY <1>1, <1>2 DEF TypeOK, budget, Resolved
  <2>2. \A e \in Dispatches : pc'[e] = pc[e] \/ (pc'[e] \notin Running /\ pc[e] \notin Running)
    BY <1>1, <1>2, OthersStay DEF TypeOK, Running
  <2>3. TurnFits'
    BY <1>1, <1>2, <2>2 DEF Inv, TurnFits, Running
  <2>4. Prefixes' /\ RequestSeesAll'
    BY <1>1, <1>2, <2>2, SameTranscript
  <2>5. Chained'
    BY <1>1, <1>2, Outside DEF Waits, Running
  <2> QED BY <2>1, <2>3, <2>4, <2>5 DEF Inv
<1>3. CASE Ends(d, "pin-taken") /\ UNCHANGED pinned
  <2>1. Chained'
    BY <1>1, <1>3, Outside DEF Ends, Waits, Running
  <2>2. /\ handle' \in [Dispatches -> Transcript] /\ Prefixes' /\ RequestSeesAll' /\ TurnFits'
        /\ pc' \in [Dispatches -> {"idle", "queued"} \cup Resolved \cup Running]
        /\ turn' \in [Dispatches -> [iteration : 0 .. MaxIterations, blocks : 0 .. MaxBlocks,
                                      answers : 0 .. MaxBlocks]]
        /\ outcome' \in [Dispatches -> Outcomes]
    BY <1>1, <1>3, Ended DEF Outcomes
  <2>3. TypeOK'
    BY <1>1, <1>3, <2>2 DEF TypeOK, budget
  <2> QED BY <2>1, <2>2, <2>3 DEF Inv
<1> QED BY <1>2, <1>3 DEF Create

LEMMA RefuseInv == ASSUME Inv, NEW d \in Dispatches, Refuse(d) PROVE Inv'
<1>1. /\ TypeOK /\ pc[d] \in {"found", "created"} /\ Ends(d, "circuit-open")
      /\ UNCHANGED <<key, store, chain, shared, cut, budget>>
  BY DEF Inv, Refuse
<1>2. Chained'
  BY <1>1, Outside DEF Ends, Waits, Running
<1>3. /\ handle' \in [Dispatches -> Transcript] /\ Prefixes' /\ RequestSeesAll' /\ TurnFits'
      /\ pc' \in [Dispatches -> {"idle", "queued"} \cup Resolved \cup Running]
      /\ turn' \in [Dispatches -> [iteration : 0 .. MaxIterations, blocks : 0 .. MaxBlocks,
                                    answers : 0 .. MaxBlocks]]
      /\ outcome' \in [Dispatches -> Outcomes]
  BY <1>1, Ended DEF Outcomes, store
<1>4. TypeOK'
  BY <1>1, <1>3 DEF TypeOK, store, budget
<1> QED BY <1>2, <1>3, <1>4 DEF Inv

LEMMA EnqueueInv == ASSUME Inv, NEW d \in Dispatches, Enqueue(d) PROVE Inv'
<1>1. /\ TypeOK /\ pc[d] \in {"found", "created"} /\ pc' = [pc EXCEPT ![d] = "queued"]
      /\ UNCHANGED <<key, store, handle, turn, outcome, shared, cut, budget>>
  BY DEF Inv, Enqueue
<1>2. Chained' /\ chain' \in [Keys -> Seq(Dispatches)]
  BY Joins
<1>3. \A e \in Dispatches : pc'[e] = pc[e] \/ (pc'[e] \notin Running /\ pc[e] \notin Running)
  BY <1>1, OthersStay DEF TypeOK, Running
<1>4. TypeOK'
  BY <1>1, <1>2 DEF TypeOK, store, budget
<1>5. TurnFits'
  BY <1>1, <1>3 DEF Inv, TurnFits, Running
<1>6. Prefixes' /\ RequestSeesAll'
  BY <1>1, <1>3, SameTranscript DEF store
<1> QED BY <1>2, <1>4, <1>5, <1>6 DEF Inv

\* A step of d that appends: what is left to show is where its turn goes on.
LEMMA AppendInv ==
  ASSUME Inv, NEW d \in Dispatches, HasLock(d), Fits(d), pc[d] \in Waits,
         NEW kind \in {"user", "text", "calls", "results"}, NEW n \in 0 .. MaxBlocks,
         Appends(d, Message(d, kind, n)), NEW v \in Running, pc' = [pc EXCEPT ![d] = v],
         turn' \in [Dispatches -> [iteration : 0 .. MaxIterations, blocks : 0 .. MaxBlocks,
                                    answers : 0 .. MaxBlocks]],
         \A e \in Dispatches \ {d} : turn'[e] = turn[e],
         v \in {"asking", "tools"} => turn'[d].iteration < MaxIterations,
         v = "tools" => turn'[d].answers < turn'[d].blocks,
         UNCHANGED <<key, pinned, chain, outcome, shared, cut, budget>>
  PROVE  Inv'
<1>1. TypeOK
  BY DEF Inv
<1>2. pc \in [Dispatches -> {"idle", "queued"} \cup Resolved \cup Running]
  BY <1>1 DEF TypeOK
<1>3. pc'[d] = v /\ \A e \in Dispatches \ {d} : pc'[e] = pc[e]
  BY <1>2
<1>4. /\ stored' \in [Keys -> Transcript] /\ handle' \in [Dispatches -> Transcript]
      /\ Prefixes' /\ RequestSeesAll'
  BY <1>3, Appended
<1>5. TypeOK'
  BY <1>1, <1>4 DEF TypeOK, budget
<1>6. TurnFits'
  BY <1>3 DEF Inv, TurnFits
<1>7. Chained'
  BY Goes
<1> QED BY <1>4, <1>5, <1>6, <1>7 DEF Inv

\* A turn that is over, in whatever way, leaves the front of its chain.
LEMMA EndInv ==
  ASSUME Inv, NEW d \in Dispatches, HasLock(d), NEW o \in Outcomes, Ends(d, o), Release(d),
         UNCHANGED <<key, store, shared, cut, budget>>
  PROVE  Inv'
<1>1. TypeOK /\ UNCHANGED <<key, stored>> /\ pc' = [pc EXCEPT ![d] = "idle"]
  BY DEF Inv, store, Ends
<1>2. /\ handle' \in [Dispatches -> Transcript] /\ Prefixes' /\ RequestSeesAll' /\ TurnFits'
      /\ pc' \in [Dispatches -> {"idle", "queued"} \cup Resolved \cup Running]
      /\ turn' \in [Dispatches -> [iteration : 0 .. MaxIterations, blocks : 0 .. MaxBlocks,
                                    answers : 0 .. MaxBlocks]]
      /\ outcome' \in [Dispatches -> Outcomes]
  BY <1>1, Ended
<1>3. Chained' /\ chain' \in [Keys -> Seq(Dispatches)]
  BY <1>1, Leaves
<1>4. TypeOK'
  BY <1>1, <1>2, <1>3 DEF TypeOK, store, budget
<1> QED BY <1>2, <1>3, <1>4 DEF Inv

LEMMA BeginInv == ASSUME Inv, NEW d \in Dispatches, Begin(d) PROVE Inv'
<1>1. pc[d] = "queued" /\ HasLock(d) /\ UNCHANGED <<key, pinned, shared, cut, budget>>
  BY DEF Begin
<1>2. /\ turn[d] = NoTurn
      /\ turn \in [Dispatches -> [iteration : 0 .. MaxIterations, blocks : 0 .. MaxBlocks,
                                   answers : 0 .. MaxBlocks]]
  BY <1>1 DEF Inv, TypeOK, TurnFits, Running
<1>3. CASE /\ Fits(d) /\ Appends(d, Message(d, "user", 0))
           /\ pc' = [pc EXCEPT ![d] = "asking"] /\ UNCHANGED <<chain, turn, outcome>>
  <2>1. 0 \in 0 .. MaxBlocks /\ NoTurn.iteration < MaxIterations
    BY BoundsAreNumbers DEF NoTurn
  <2>2. "asking" \in Running /\ pc[d] \in Waits
    BY <1>1 DEF Running, Waits
  <2> QED BY <1>1, <1>2, <1>3, <2>1, <2>2, AppendInv
<1>4. CASE Ends(d, "stale") /\ Release(d) /\ UNCHANGED stored
  BY <1>1, <1>4, EndInv DEF Outcomes, store
<1> QED BY <1>3, <1>4 DEF Begin

\* A step of d that only moves its turn on.
LEMMA MoveInv ==
  ASSUME Inv, NEW d \in Dispatches, pc[d] \in Running,
         NEW v \in Running, pc' = [pc EXCEPT ![d] = v],
         turn' \in [Dispatches -> [iteration : 0 .. MaxIterations, blocks : 0 .. MaxBlocks,
                                    answers : 0 .. MaxBlocks]],
         \A e \in Dispatches \ {d} : turn'[e] = turn[e],
         v \in {"asking", "tools"} => turn'[d].iteration < MaxIterations,
         v = "tools" => turn'[d].answers < turn'[d].blocks,
         cut' \subseteq Keys \X Nat, faultsLeft' \in 0 .. MaxFaults,
         UNCHANGED <<key, store, handle, chain, outcome, shared, crashesLeft>>
  PROVE  Inv'
<1>1. TypeOK
  BY DEF Inv
<1>2. pc \in [Dispatches -> {"idle", "queued"} \cup Resolved \cup Running]
  BY <1>1 DEF TypeOK
<1>3. pc'[d] = v /\ \A e \in Dispatches \ {d} : pc'[e] = pc[e]
  BY <1>2
<1>4. TypeOK'
  BY <1>1 DEF TypeOK, store
<1>5. TurnFits'
  BY <1>3 DEF Inv, TurnFits
<1>6. Prefixes' /\ RequestSeesAll'
  BY <1>3, SameTranscript DEF store
<1>7. Chained'
  BY Front, Goes DEF Waits
<1> QED BY <1>4, <1>5, <1>6, <1>7 DEF Inv

LEMMA ProviderFailsInv == ASSUME Inv, NEW d \in Dispatches, ProviderFails(d) PROVE Inv'
<1>1. TypeOK
  BY DEF Inv
<1> QED BY <1>1, MoveInv DEF ProviderFails, TypeOK, budget, Running

LEMMA CutOffInv == ASSUME Inv, NEW d \in Dispatches, CutOff(d) PROVE Inv'
<1>1. TypeOK
  BY DEF Inv
<1>2. key[d] \in Keys /\ Len(stored[key[d]]) \in Nat
  BY <1>1 DEF TypeOK, Transcript
<1>3. cut' \subseteq Keys \X Nat
  BY <1>1, <1>2 DEF CutOff, CutShort, TypeOK
<1>4. faultsLeft' \in 0 .. MaxFaults
  BY <1>1, BoundsAreNumbers DEF CutOff, TypeOK
<1> QED BY <1>1, <1>3, <1>4, MoveInv DEF CutOff, TypeOK, Running

LEMMA NextBlockInv == ASSUME Inv, NEW d \in Dispatches, NextBlock(d) PROVE Inv'
<1> DEFINE T == [iteration : 0 .. MaxIterations, blocks : 0 .. MaxBlocks,
                 answers : 0 .. MaxBlocks]
<1>1. TypeOK /\ turn \in [Dispatches -> T] /\ turn[d] \in T
  BY DEF Inv, TypeOK
<1>2. /\ pc[d] = "tools" /\ turn[d].answers + 1 < turn[d].blocks
      /\ turn' = [turn EXCEPT ![d].answers = turn[d].answers + 1]
      /\ UNCHANGED <<key, store, pc, handle, chain, outcome, shared, cut, budget>>
  BY DEF NextBlock, Answered
<1>3. turn[d].answers + 1 \in 0 .. MaxBlocks
  BY <1>1, <1>2, BoundsAreNumbers
<1>4. turn' \in [Dispatches -> T]
  BY <1>1, <1>2, <1>3
<1>5. /\ turn'[d].iteration = turn[d].iteration /\ turn'[d].blocks = turn[d].blocks
      /\ turn'[d].answers = turn[d].answers + 1
      /\ \A e \in Dispatches \ {d} : turn'[e] = turn[e]
  BY <1>1, <1>2
<1>6. turn[d].iteration < MaxIterations
  BY <1>2 DEF Inv, TurnFits
<1>7. pc' = [pc EXCEPT ![d] = "tools"]
  BY <1>1, <1>2 DEF TypeOK
<1>8. cut' \subseteq Keys \X Nat /\ faultsLeft' \in 0 .. MaxFaults /\ crashesLeft' = crashesLeft
  BY <1>1, <1>2 DEF TypeOK, budget
<1> QED BY <1>2, <1>4, <1>5, <1>6, <1>7, <1>8, MoveInv DEF Running

LEMMA AnswerInv == ASSUME Inv, NEW d \in Dispatches, Answer(d) PROVE Inv'
<1>1. TypeOK
  BY DEF Inv
<1>2. pc[d] \in Running /\ pc[d] \in Waits /\ Fits(d) /\ Appends(d, Message(d, "text", 0))
  BY DEF Answer, Running, Waits
<1>3. 0 \in 0 .. MaxBlocks
  BY BoundsAreNumbers
<1>4. HasLock(d)
  BY <1>2, Front
<1> QED BY <1>1, <1>2, <1>3, <1>4, AppendInv DEF Answer, TypeOK, Running

LEMMA AskInv ==
  ASSUME Inv, NEW d \in Dispatches, NEW n \in 1 .. MaxBlocks, Ask(d, n) PROVE Inv'
<1> DEFINE T == [iteration : 0 .. MaxIterations, blocks : 0 .. MaxBlocks,
                 answers : 0 .. MaxBlocks]
<1>1. TypeOK /\ turn \in [Dispatches -> T] /\ turn[d] \in T
  BY DEF Inv, TypeOK
<1>2. pc[d] \in Running /\ pc[d] \in Waits /\ Fits(d) /\ Appends(d, Message(d, "calls", n))
  BY DEF Ask, Running, Waits
<1>3. HasLock(d)
  BY <1>2, Front
<1>4. n \in 0 .. MaxBlocks /\ 0 \in 0 .. MaxBlocks /\ 0 < n
  BY BoundsAreNumbers
<1>5. turn' = [turn EXCEPT ![d].blocks = n, ![d].answers = 0]
  BY DEF Ask
<1>6. turn' \in [Dispatches -> T]
  BY <1>1, <1>4, <1>5
<1>7. /\ turn'[d].iteration = turn[d].iteration /\ turn'[d].blocks = n /\ turn'[d].answers = 0
      /\ \A e \in Dispatches \ {d} : turn'[e] = turn[e]
  BY <1>1, <1>5
<1>8. turn[d].iteration < MaxIterations
  BY DEF Ask, Inv, TurnFits
<1>9. UNCHANGED <<key, pinned, chain, outcome, shared, cut, budget>>
      /\ pc' = [pc EXCEPT ![d] = "tools"]
  BY DEF Ask
<1> QED BY <1>2, <1>3, <1>4, <1>6, <1>7, <1>8, <1>9, AppendInv DEF Running

LEMMA LastBlockInv ==
  ASSUME Inv, NEW d \in Dispatches, NEW escalates \in BOOLEAN, LastBlock(d, escalates)
  PROVE  Inv'
<1> DEFINE T == [iteration : 0 .. MaxIterations, blocks : 0 .. MaxBlocks,
                 answers : 0 .. MaxBlocks]
           a == Answered(d, escalates)
           v == IF escalates \/ turn[d].iteration + 1 = MaxIterations THEN "ending" ELSE "asking"
<1>1. TypeOK /\ turn \in [Dispatches -> T] /\ turn[d] \in T
  BY DEF Inv, TypeOK
<1>2. pc[d] = "tools" /\ pc[d] \in Running /\ pc[d] \in Waits /\ Fits(d)
  BY DEF LastBlock, Running, Waits
<1>3. HasLock(d)
  BY <1>2, Front
<1>4. turn[d].iteration < MaxIterations /\ turn[d].answers < turn[d].blocks
  BY <1>2 DEF Inv, TurnFits
<1>5. a \in 0 .. MaxBlocks
  BY <1>1, <1>4, BoundsAreNumbers DEF Answered
<1>6. turn' = [turn EXCEPT ![d].iteration = turn[d].iteration + 1]
  BY DEF LastBlock
<1>7. turn[d].iteration + 1 \in 0 .. MaxIterations
  BY <1>1, <1>4, BoundsAreNumbers
<1>8. turn' \in [Dispatches -> T]
  BY <1>1, <1>6, <1>7
<1>9. /\ turn'[d].iteration = turn[d].iteration + 1
      /\ \A e \in Dispatches \ {d} : turn'[e] = turn[e]
  BY <1>1, <1>6
<1>10. pc' = [pc EXCEPT ![d] = v] /\ Appends(d, Message(d, "results", a))
       /\ UNCHANGED <<key, pinned, chain, outcome, shared, cut, budget>>
  BY DEF LastBlock
<1>11. v \in Running /\ v # "tools"
  BY DEF Running
<1>12. v = "asking" => turn'[d].iteration < MaxIterations
  BY <1>1, <1>4, <1>9, BoundsAreNumbers
<1> HIDE DEF v, a
<1> QED BY <1>2, <1>3, <1>5, <1>8, <1>9, <1>10, <1>11, <1>12, AppendInv

LEMMA FinishInv == ASSUME Inv, NEW d \in Dispatches, Finish(d) PROVE Inv'
<1>1. HasLock(d)
  BY Front DEF Finish, Running
<1> QED BY <1>1, EndInv DEF Finish, Outcomes

LEMMA CrashInv == ASSUME Inv, Crash PROVE Inv'
<1>1. TypeOK /\ UNCHANGED <<key, store, outcome, shared, faultsLeft>>
  BY DEF Inv, Crash
<1>2. /\ \A d \in Dispatches : pc'[d] = "idle" /\ handle'[d] = <<>> /\ turn'[d] = NoTurn
      /\ \A k \in Keys : chain'[k] = <<>> /\ Len(chain'[k]) = 0
  BY DEF Crash
<1>3. /\ pc' \in [Dispatches -> {"idle", "queued"} \cup Resolved \cup Running]
      /\ handle' \in [Dispatches -> Transcript] /\ chain' \in [Keys -> Seq(Dispatches)]
  <2>1. <<>> \in Transcript /\ <<>> \in Seq(Dispatches)
    BY DEF Transcript
  <2> QED BY <2>1 DEF Crash
<1>4. turn' \in [Dispatches -> [iteration : 0 .. MaxIterations, blocks : 0 .. MaxBlocks,
                                 answers : 0 .. MaxBlocks]]
  <2>1. NoTurn \in [iteration : 0 .. MaxIterations, blocks : 0 .. MaxBlocks,
                    answers : 0 .. MaxBlocks]
    BY BoundsAreNumbers DEF NoTurn
  <2> QED BY <2>1 DEF Crash
<1>5. cut' \subseteq Keys \X Nat
  <2>1. \A d \in Dispatches : key[d] \in Keys /\ Len(stored[key[d]]) \in Nat
    BY <1>1 DEF TypeOK, Transcript
  <2> QED BY <1>1, <2>1 DEF Crash, TypeOK
<1>6. crashesLeft' \in 0 .. MaxCrashes
  BY <1>1, BoundsAreNumbers DEF Crash, TypeOK
<1>7. TypeOK'
  BY <1>1, <1>3, <1>4, <1>5, <1>6 DEF TypeOK, store
<1>8. TurnFits' /\ RequestSeesAll'
  BY <1>2 DEF TurnFits, RequestSeesAll, Running
<1>9. Prefixes'
  <2> SUFFICES ASSUME NEW d \in Dispatches PROVE Prefix(handle'[d], stored'[key'[d]])
    BY DEF Prefixes
  <2>1. stored'[key'[d]] \in Transcript
    BY <1>1 DEF TypeOK, store
  <2> QED BY <2>1, <1>2, EmptyPrefix DEF Transcript
<1>10. Chained'
  BY <1>2 DEF Chained, InChain, OnePlace, HasPlace, Waits, Running
<1> QED BY <1>7, <1>8, <1>9, <1>10 DEF Inv

-----------------------------------------------------------------------------
LEMMA StepInv == Inv /\ [Next]_vars => Inv'
<1> SUFFICES ASSUME Inv, [Next]_vars PROVE Inv' OBVIOUS
<1>1. CASE Next
  <2>1. ASSUME NEW d \in Dispatches, Resolve(d) PROVE Inv'
    BY <2>1, ResolveInv
  <2>2. ASSUME NEW d \in Dispatches, Create(d) PROVE Inv'
    BY <2>2, CreateInv
  <2>3. ASSUME NEW d \in Dispatches, Refuse(d) PROVE Inv'
    BY <2>3, RefuseInv
  <2>4. ASSUME NEW d \in Dispatches, Enqueue(d) PROVE Inv'
    BY <2>4, EnqueueInv
  <2>5. ASSUME NEW d \in Dispatches, Turn(d) PROVE Inv'
    BY <2>5, BeginInv, ProviderFailsInv, AnswerInv, AskInv, CutOffInv, NextBlockInv,
       LastBlockInv, FinishInv DEF Turn
  <2>6. CASE Crash
    BY <2>6, CrashInv
  <2> QED BY <1>1, <2>1, <2>2, <2>3, <2>4, <2>5, <2>6 DEF Next
<1>2. CASE UNCHANGED vars
  <2>1. UNCHANGED <<key, pinned, stored, pc, handle, chain, turn, outcome, shared, cut,
                    faultsLeft, crashesLeft>>
    BY <1>2 DEF vars, store, memory, budget
  <2>2. TypeOK' /\ TurnFits'
    BY <2>1 DEF Inv, TypeOK, TurnFits
  <2>3. Prefixes' /\ RequestSeesAll'
    BY <2>1 DEF Inv, Prefixes, RequestSeesAll
  <2>4. Chained'
    BY <2>1 DEF Inv, Chained, InChain, OnePlace, HasPlace
  <2> QED BY <2>2, <2>3, <2>4 DEF Inv
<1> QED BY <1>1, <1>2

LEMMA AlwaysInv == Spec => []Inv
<1> QED BY InitInv, StepInv, PTL DEF Spec

\* Every chain holds queued or running dispatches, each once.
LEMMA LockFromInv == Inv => LockIsLive
<1> SUFFICES ASSUME Inv, NEW k \in Keys, chain[k] # <<>>
             PROVE  /\ pc[Head(chain[k])] \in {"queued"} \cup Running
                    /\ \A i, j \in DOMAIN chain[k] : chain[k][i] = chain[k][j] => i = j
  BY DEF LockIsLive
<1>1. /\ chain[k] \in Seq(Dispatches) /\ DOMAIN chain[k] = 1 .. Len(chain[k])
      /\ Head(chain[k]) = chain[k][1] /\ 1 \in 1 .. Len(chain[k])
  BY DEF Inv, TypeOK
<1> QED BY <1>1 DEF Inv, Chained, InChain, OnePlace, Waits

\* Sessions, handles, chains and turns keep their shape at every step of the
\* dispatcher and of the turns, for any number of events and keys: no turn runs
\* more iterations, or answers more blocks, than it may.
THEOREM TypeCorrect == Spec => []TypeOK
<1>1. Inv => TypeOK
  BY DEF Inv
<1> QED BY <1>1, AlwaysInv, PTL

\* The per-session lock of runForSession serialises the turns of a key, for any
\* number of events, keys and crashes: whoever runs has the whole stored
\* conversation in its handle, and a lock is only ever held by a turn that is
\* queued or runs.
THEOREM LockSerializes == Spec => []SessionLock
<1>1. Inv => SessionLock
  BY LockFromInv DEF Inv, SessionLock
<1> QED BY <1>1, AlwaysInv, PTL

-----------------------------------------------------------------------------
(* The model's calls and their answers.  Next to Inv: a message belongs to a  *)
(* dispatch of its key, and who runs tools has its calls at the end of its    *)
(* session, so that the results it appends follow them.                       *)

Ours == \A k \in Keys : \A i \in 1 .. Len(stored[k]) :
          stored[k][i].of \in Dispatches /\ key[stored[k][i].of] = k

CallsAtEnd ==
  \A d \in Dispatches : pc[d] = "tools" =>
    /\ Len(stored[key[d]]) > 0
    /\ stored[key[d]][Len(stored[key[d]])] = Message(d, "calls", turn[d].blocks)

CallsInv == Ours /\ CallsAtEnd /\ CallsAnswered

\* Steps that append nothing and interrupt nobody's tools.
LEMMA CallsKept ==
  ASSUME Inv, CallsInv, UNCHANGED <<key, stored, cut>>,
         \A e \in Dispatches : /\ pc[e] = "tools" <=> pc'[e] = "tools"
                               /\ pc[e] = "tools" => turn'[e].blocks = turn[e].blocks
  PROVE  CallsInv'
<1>1. Ours'
  BY DEF CallsInv, Ours
<1>2. CallsAtEnd'
  BY DEF CallsInv, CallsAtEnd, Message
<1>3. CallsAnswered'
  <2> SUFFICES ASSUME NEW k \in Keys, NEW i \in DOMAIN stored[k], stored[k][i].kind = "calls"
               PROVE  \/ /\ i + 1 \in DOMAIN stored[k]
                         /\ stored[k][i + 1] = [stored[k][i] EXCEPT !.kind = "results"]
                      \/ <<k, i>> \in cut
                      \/ i = Len(stored[k]) /\ pc'[stored[k][i].of] = "tools"
    BY DEF CallsAnswered
  <2>1. stored[k] \in Transcript
    BY DEF Inv, TypeOK
  <2>2. stored[k][i].of \in Dispatches
    BY <2>1 DEF CallsInv, Ours, Transcript
  <2> QED BY <2>2 DEF CallsInv, CallsAnswered
<1> QED BY <1>1, <1>2, <1>3 DEF CallsInv

\* Steps that append nothing, after which the calls that were being run are cut.
LEMMA CallsCut ==
  ASSUME Inv, CallsInv, UNCHANGED <<key, stored>>, cut \subseteq cut',
         \A e \in Dispatches : /\ pc'[e] = "tools" =>
                                    pc[e] = "tools" /\ turn'[e].blocks = turn[e].blocks
                               /\ pc[e] = "tools" /\ pc'[e] # "tools" =>
                                    <<key[e], Len(stored[key[e]])>> \in cut'
  PROVE  CallsInv'
<1>1. Ours'
  BY DEF CallsInv, Ours
<1>2. CallsAtEnd'
  BY DEF CallsInv, CallsAtEnd, Message
<1>3. CallsAnswered'
  <2> SUFFICES ASSUME NEW k \in Keys, NEW i \in DOMAIN stored[k], stored[k][i].kind = "calls"
               PROVE  \/ /\ i + 1 \in DOMAIN stored[k]
                         /\ stored[k][i + 1] = [stored[k][i] EXCEPT !.kind = "results"]
                      \/ <<k, i>> \in cut'
                      \/ i = Len(stored[k]) /\ pc'[stored[k][i].of] = "tools"
    BY DEF CallsAnswered
  <2>1. stored[k] \in Transcript
    BY DEF Inv, TypeOK
  <2>2. stored[k][i].of \in Dispatches /\ key[stored[k][i].of] = k
    BY <2>1 DEF CallsInv, Ours, Transcript
  <2> QED BY <2>2 DEF CallsInv, CallsAnswered
<1> QED BY <1>1, <1>2, <1>3 DEF CallsInv

\* The holder of the lock appends: results when it was running tools, calls when
\* it is going to.
LEMMA CallsAppended ==
  ASSUME Inv, CallsInv, NEW d \in Dispatches, HasLock(d),
         NEW kind \in {"user", "text", "calls", "results"}, NEW n \in 0 .. MaxBlocks,
         Appends(d, Message(d, kind, n)), UNCHANGED <<key, cut>>,
         \A e \in Dispatches \ {d} : pc'[e] = pc[e] /\ turn'[e] = turn[e],
         pc[d] = "tools" => kind = "results" /\ n = turn[d].blocks,
         pc'[d] = "tools" <=> kind = "calls",
         pc'[d] = "tools" => turn'[d].blocks = n
  PROVE  CallsInv'
<1> DEFINE M == [of : Dispatches, kind : {"user", "text", "calls", "results"}, n : 0 .. MaxBlocks]
           m == Message(d, kind, n)
           k0 == key[d]
           last == Len(stored[k0]) + 1
<1>1. m \in M /\ m.of = d /\ m.kind = kind
  BY DEF Message
<1>2. stored \in [Keys -> Seq(M)] /\ key \in [Dispatches -> Keys]
  BY DEF Inv, TypeOK, Transcript
<1> HIDE DEF M, m
<1>3. stored[k0] \in Seq(M) /\ k0 \in Keys /\ Len(stored[k0]) \in Nat
  BY <1>2
<1>4. stored' = [stored EXCEPT ![k0] = Append(stored[k0], m)]
  BY DEF Appends, m
<1>5. stored'[k0] = Append(stored[k0], m) /\ \A k \in Keys \ {k0} : stored'[k] = stored[k]
  BY <1>2, <1>3, <1>4
<1>6. /\ Len(stored'[k0]) = last /\ stored'[k0][last] = m /\ last \in Nat
      /\ \A i \in 1 .. Len(stored[k0]) : stored'[k0][i] = stored[k0][i]
      /\ DOMAIN stored'[k0] = 1 .. last /\ DOMAIN stored[k0] = 1 .. Len(stored[k0])
  BY <1>1, <1>3, <1>5
<1>7. \A e \in Dispatches : pc[e] = "tools" /\ key[e] = k0 => e = d
  BY OneRuns DEF Running
<1>8. Ours'
  <2> SUFFICES ASSUME NEW k \in Keys, NEW i \in 1 .. Len(stored'[k])
               PROVE  stored'[k][i].of \in Dispatches /\ key[stored'[k][i].of] = k
    BY DEF Ours
  <2>1. CASE k # k0
    BY <2>1, <1>5 DEF CallsInv, Ours
  <2>2. CASE k = k0 /\ i = last
    BY <2>2, <1>1, <1>6
  <2>3. CASE k = k0 /\ i # last
    <3>1. i \in 1 .. Len(stored[k0])
      BY <2>3, <1>3, <1>6
    <3>2. stored[k0][i].of \in Dispatches /\ key[stored[k0][i].of] = k0
      BY <3>1, <1>3 DEF CallsInv, Ours
    <3> QED BY <2>3, <3>1, <3>2, <1>6
  <2> QED BY <2>1, <2>2, <2>3
<1>9. CallsAtEnd'
  <2> SUFFICES ASSUME NEW e \in Dispatches, pc'[e] = "tools"
               PROVE  /\ Len(stored'[key[e]]) > 0
                      /\ stored'[key[e]][Len(stored'[key[e]])] = Message(e, "calls", turn'[e].blocks)
    BY DEF CallsAtEnd, Message
  <2>1. CASE e = d
    BY <2>1, <1>3, <1>6 DEF m
  <2>2. CASE e # d
    <3>1. pc[e] = "tools" /\ turn'[e] = turn[e] /\ key[e] \in Keys \ {k0}
      BY <2>2, <1>2, <1>7
    <3> QED BY <3>1, <1>5 DEF CallsInv, CallsAtEnd
  <2> QED BY <2>1, <2>2
<1>10. CallsAnswered'
  <2> SUFFICES ASSUME NEW k \in Keys, NEW i \in DOMAIN stored'[k], stored'[k][i].kind = "calls"
               PROVE  \/ /\ i + 1 \in DOMAIN stored'[k]
                         /\ stored'[k][i + 1] = [stored'[k][i] EXCEPT !.kind = "results"]
                      \/ <<k, i>> \in cut
                      \/ i = Len(stored'[k]) /\ pc'[stored'[k][i].of] = "tools"
    BY DEF CallsAnswered
  <2>1. CASE k # k0
    <3>1. stored'[k] = stored[k] /\ stored[k] \in Seq(M)
      BY <2>1, <1>2, <1>5
    <3>2. i \in 1 .. Len(stored[k])
      BY <3>1
    <3>3. stored[k][i].of \in Dispatches \ {d}
      BY <2>1, <3>2 DEF CallsInv, Ours
    <3> QED BY <3>1, <3>3 DEF CallsInv, CallsAnswered
  <2>2. CASE k = k0 /\ i = last
    BY <2>2, <1>1, <1>6
  <2>3. CASE k = k0 /\ i # last
    <3>1. i \in 1 .. Len(stored[k0]) /\ stored'[k0][i] = stored[k0][i]
      BY <2>3, <1>3, <1>6
    <3>2. stored[k0][i].of \in Dispatches /\ key[stored[k0][i].of] = k0
      BY <3>1, <1>3 DEF CallsInv, Ours
    <3>0. \/ /\ i + 1 \in 1 .. Len(stored[k0])
             /\ stored[k0][i + 1] = [stored[k0][i] EXCEPT !.kind = "results"]
          \/ <<k0, i>> \in cut
          \/ i = Len(stored[k0]) /\ pc[stored[k0][i].of] = "tools"
      <4>1. stored[k0][i].kind = "calls"
        BY <2>3, <3>1
      <4> QED BY <3>1, <4>1, <1>3, <1>6 DEF CallsInv, CallsAnswered
    <3>3. CASE i + 1 \in 1 .. Len(stored[k0])
               /\ stored[k0][i + 1] = [stored[k0][i] EXCEPT !.kind = "results"]
      <4>1. i + 1 \in 1 .. last /\ stored'[k0][i + 1] = stored[k0][i + 1]
        BY <3>3, <1>3, <1>6
      <4> QED BY <2>3, <3>1, <3>3, <4>1, <1>6
    <3>4. CASE <<k0, i>> \in cut
      BY <2>3, <3>4
    <3>5. CASE i = Len(stored[k0]) /\ pc[stored[k0][i].of] = "tools"
      <4>1. pc[d] = "tools"
        BY <3>2, <3>5, <1>7
      <4>2. stored[k0][i] = Message(d, "calls", turn[d].blocks)
        BY <4>1, <3>5 DEF CallsInv, CallsAtEnd
      <4>3. m = [stored[k0][i] EXCEPT !.kind = "results"]
        BY <4>1, <4>2 DEF Message, m
      <4> QED BY <2>3, <3>1, <3>5, <4>3, <1>3, <1>6
    <3> QED BY <3>0, <3>3, <3>4, <3>5
  <2> QED BY <2>1, <2>2, <2>3, <1>6
<1> QED BY <1>8, <1>9, <1>10 DEF CallsInv

LEMMA CallsInit == Init => CallsInv
<1> SUFFICES ASSUME Init PROVE CallsInv OBVIOUS
<1>1. \A k \in Keys : stored[k] = <<>> /\ Len(stored[k]) = 0 /\ DOMAIN stored[k] = {}
  BY DEF Init
<1>2. \A d \in Dispatches : pc[d] = "idle"
  BY DEF Init
<1> QED BY <1>1, <1>2 DEF CallsInv, Ours, CallsAtEnd, CallsAnswered

\* The steps before and after runAgent.
LEMMA CallsOutside ==
  ASSUME Inv, CallsInv, NEW d \in Dispatches, NEW v, pc' = [pc EXCEPT ![d] = v],
         pc[d] # "tools", v # "tools", UNCHANGED <<key, stored, cut>>,
         \A e \in Dispatches \ {d} : turn'[e] = turn[e]
  PROVE  CallsInv'
<1>1. pc \in [Dispatches -> {"idle", "queued"} \cup Resolved \cup Running]
  BY DEF Inv, TypeOK
<1>2. \A e \in Dispatches \ {d} : pc'[e] = pc[e]
  BY <1>1
<1>3. pc'[d] = v
  BY <1>1
<1> QED BY <1>2, <1>3, CallsKept

\* A turn that ends was not running tools any more.
LEMMA CallsEnd ==
  ASSUME Inv, CallsInv, NEW d \in Dispatches, NEW o, Ends(d, o), pc[d] # "tools",
         UNCHANGED <<key, stored, cut>>
  PROVE  CallsInv'
<1>1. turn \in [Dispatches -> [iteration : 0 .. MaxIterations, blocks : 0 .. MaxBlocks,
                               answers : 0 .. MaxBlocks]]
  BY DEF Inv, TypeOK
<1>2. \A e \in Dispatches \ {d} : turn'[e] = turn[e]
  BY <1>1 DEF Ends
<1> QED BY <1>2, CallsOutside DEF Ends

\* The steps of a turn that append.
LEMMA CallsOfTurn ==
  ASSUME Inv, CallsInv, NEW d \in Dispatches, Turn(d) PROVE CallsInv'
<1> DEFINE T == [iteration : 0 .. MaxIterations, blocks : 0 .. MaxBlocks,
                 answers : 0 .. MaxBlocks]
<1>1. /\ pc \in [Dispatches -> {"idle", "queued"} \cup Resolved \cup Running]
      /\ turn \in [Dispatches -> T] /\ turn[d] \in T
      /\ 0 \in 0 .. MaxBlocks /\ key[d] \in Keys
  BY BoundsAreNumbers DEF Inv, TypeOK
<1>2. CASE Begin(d)
  <2>1. pc[d] = "queued" /\ HasLock(d) /\ UNCHANGED <<key, cut>>
    BY <1>2 DEF Begin
  <2>2. CASE /\ Appends(d, Message(d, "user", 0))
             /\ pc' = [pc EXCEPT ![d] = "asking"] /\ turn' = turn
    <3>1. pc'[d] = "asking" /\ \A e \in Dispatches \ {d} : pc'[e] = pc[e]
      BY <2>2, <1>1
    <3> QED BY <1>1, <2>1, <2>2, <3>1, CallsAppended
  <2>3. CASE Ends(d, "stale") /\ UNCHANGED stored
    BY <2>1, <2>3, CallsEnd
  <2> QED BY <1>2, <2>2, <2>3 DEF Begin
<1>3. CASE ProviderFails(d)
  BY <1>3, CallsOutside DEF ProviderFails, store
<1>4. CASE Answer(d)
  <2>1. /\ pc[d] = "asking" /\ pc' = [pc EXCEPT ![d] = "ending"]
        /\ Appends(d, Message(d, "text", 0)) /\ UNCHANGED <<key, cut, turn>>
    BY <1>4 DEF Answer
  <2>2. pc'[d] = "ending" /\ \A e \in Dispatches \ {d} : pc'[e] = pc[e]
    BY <1>1, <2>1
  <2>3. HasLock(d)
    BY <2>1, Front DEF Running
  <2> QED BY <1>1, <2>1, <2>2, <2>3, CallsAppended
<1>5. ASSUME NEW n \in 1 .. MaxBlocks, Ask(d, n) PROVE CallsInv'
  <2>1. /\ pc[d] = "asking" /\ pc' = [pc EXCEPT ![d] = "tools"]
        /\ turn' = [turn EXCEPT ![d].blocks = n, ![d].answers = 0]
        /\ Appends(d, Message(d, "calls", n)) /\ UNCHANGED <<key, cut>>
    BY <1>5 DEF Ask
  <2>2. /\ pc'[d] = "tools" /\ turn'[d].blocks = n
        /\ \A e \in Dispatches \ {d} : pc'[e] = pc[e] /\ turn'[e] = turn[e]
    BY <1>1, <2>1
  <2>3. HasLock(d) /\ n \in 0 .. MaxBlocks
    BY <2>1, Front, BoundsAreNumbers DEF Running
  <2> QED BY <2>1, <2>2, <2>3, CallsAppended
<1>6. CASE CutOff(d)
  <2>1. /\ pc[d] = "tools" /\ pc' = [pc EXCEPT ![d] = "ending"]
        /\ cut' = cut \cup {<<key[d], Len(stored[key[d]])>>} /\ UNCHANGED <<key, stored, turn>>
    BY <1>6 DEF CutOff, CutShort, store
  <2>2. pc'[d] = "ending" /\ \A e \in Dispatches \ {d} : pc'[e] = pc[e]
    BY <1>1, <2>1
  <2> QED BY <2>1, <2>2, CallsCut
<1>7. CASE NextBlock(d)
  <2>1. /\ turn' = [turn EXCEPT ![d].answers = Answered(d, FALSE)]
        /\ UNCHANGED <<key, stored, cut, pc>>
    BY <1>7 DEF NextBlock, store
  <2>2. \A e \in Dispatches : turn'[e].blocks = turn[e].blocks
    BY <1>1, <2>1
  <2> QED BY <2>1, <2>2, CallsKept
<1>8. ASSUME NEW escalates \in BOOLEAN, LastBlock(d, escalates) PROVE CallsInv'
  <2> DEFINE a == Answered(d, escalates)
             v == IF escalates \/ turn[d].iteration + 1 = MaxIterations THEN "ending" ELSE "asking"
  <2>1. /\ pc[d] = "tools" /\ pc' = [pc EXCEPT ![d] = v]
        /\ turn' = [turn EXCEPT ![d].iteration = turn[d].iteration + 1]
        /\ Appends(d, Message(d, "results", a)) /\ UNCHANGED <<key, cut>>
    BY <1>8 DEF LastBlock
  <2>2. turn[d].answers < turn[d].blocks
    BY <2>1 DEF Inv, TurnFits
  <2>3. a = turn[d].blocks /\ a \in 0 .. MaxBlocks
    BY <1>1, <1>8, <2>2, BoundsAreNumbers DEF LastBlock, Answered
  <2>4. v # "tools"
    OBVIOUS
  <2> HIDE DEF v, a
  <2>5. /\ pc'[d] # "tools"
        /\ \A e \in Dispatches \ {d} : pc'[e] = pc[e] /\ turn'[e] = turn[e]
    BY <1>1, <2>1, <2>4
  <2>6. HasLock(d)
    BY <2>1, Front DEF Running
  <2> QED BY <2>1, <2>3, <2>5, <2>6, CallsAppended
<1>9. CASE Finish(d)
  BY <1>9, CallsEnd DEF Finish, store
<1> QED BY <1>2, <1>3, <1>4, <1>5, <1>6, <1>7, <1>8, <1>9 DEF Turn

LEMMA CallsStep == Inv /\ CallsInv /\ [Next]_vars => CallsInv'
<1> SUFFICES ASSUME Inv, CallsInv, [Next]_vars PROVE CallsInv' OBVIOUS
<1>1. ASSUME NEW d \in Dispatches, Resolve(d) PROVE CallsInv'
  <2>1. PICK v \in {"found", "missed"} : pc' = [pc EXCEPT ![d] = v]
    BY <1>1 DEF Resolve
  <2> QED BY <1>1, <2>1, CallsOutside DEF Resolve, store
<1>2. ASSUME NEW d \in Dispatches, Create(d) PROVE CallsInv'
  <2>1. CASE pc' = [pc EXCEPT ![d] = "created"] /\ UNCHANGED turn
    BY <1>2, <2>1, CallsOutside DEF Create
  <2>2. CASE Ends(d, "pin-taken")
    BY <1>2, <2>2, CallsEnd DEF Create
  <2> QED BY <1>2, <2>1, <2>2 DEF Create
<1>3. ASSUME NEW d \in Dispatches, Refuse(d) PROVE CallsInv'
  BY <1>3, CallsEnd DEF Refuse, store
<1>4. ASSUME NEW d \in Dispatches, Enqueue(d) PROVE CallsInv'
  BY <1>4, CallsOutside DEF Enqueue, store
<1>5. ASSUME NEW d \in Dispatches, Turn(d) PROVE CallsInv'
  BY <1>5, CallsOfTurn
<1>6. CASE Crash
  <2>1. \A d \in Dispatches : pc'[d] = "idle"
    BY <1>6 DEF Crash
  <2>2. \A d \in Dispatches : pc[d] = "tools" => <<key[d], Len(stored[key[d]])>> \in cut'
    BY <1>6 DEF Crash
  <2>3. cut \subseteq cut' /\ UNCHANGED <<key, stored>>
    BY <1>6 DEF Crash, store
  <2> QED BY <2>1, <2>2, <2>3, CallsCut
<1>7. CASE UNCHANGED vars
  BY <1>7, CallsKept DEF vars, store, memory
<1> QED BY <1>1, <1>2, <1>3, <1>4, <1>5, <1>6, <1>7 DEF Next

\* Every tool call of a pinned session has its results right after it, for any
\* number of events, keys, iterations and blocks: but for the calls that are
\* being run and those whose turn an exception, the spend cap or a crash cut.
THEOREM EveryCallAnswered == Spec => []CallsAnswered
<1>1. Init => Inv /\ CallsInv
  BY InitInv, CallsInit
<1>2. (Inv /\ CallsInv) /\ [Next]_vars => (Inv /\ CallsInv)'
  BY StepInv, CallsStep
<1>3. Inv /\ CallsInv => CallsAnswered
  BY DEF CallsInv
<1> QED BY <1>1, <1>2, <1>3, PTL DEF Spec

-----------------------------------------------------------------------------
(* The accumulating session.  Next to Inv: what a dispatch knows of its       *)
(* session on its way to the lock (a handle that is out of date has met a     *)
(* peer), that a key without a row has no messages, and that an event that    *)
(* shared no time with a peer is alone.                                       *)

Stands(d) == \E i \in 1 .. Len(stored[key[d]]) : stored[key[d]][i] = Message(d, "user", 0)

OnItsWay(d) ==
  /\ pc[d] \in {"idle", "missed", "created"} => handle[d] = <<>>
  /\ pc[d] \in {"found", "created"} \cup Waits => key[d] \in pinned
  /\ pc[d] \in Running \/ outcome[d] = "dispatched" => Stands(d)

Undisturbed(d) ==
  /\ pc[d] = "missed" => key[d] \notin pinned
  /\ pc[d] \in {"found", "created", "queued"} => handle[d] = stored[key[d]]
  /\ outcome[d] \notin {"stale", "pin-taken"}
  /\ InFlight(d) => \A e \in Peers(d) : ~InFlight(e)

AccInv ==
  /\ \A d \in Dispatches : OnItsWay(d) /\ (d \notin shared => Undisturbed(d))
  /\ \A k \in Keys \ pinned : stored[k] = <<>>

\* A step of a dispatch in flight: its session may grow and be pinned.
LEMMA AccMoves ==
  ASSUME Inv, AccInv, NEW d \in Dispatches, InFlight(d), UNCHANGED <<key, shared>>,
         \A e \in Dispatches \ {d} :
           pc'[e] = pc[e] /\ handle'[e] = handle[e] /\ outcome'[e] = outcome[e],
         pinned \subseteq pinned', \A k \in Keys \ {key[d]} : k \in pinned' => k \in pinned,
         \A k \in Keys \ {key[d]} : stored'[k] = stored[k],
         Prefix(stored[key[d]], stored'[key[d]]),
         key[d] \notin pinned' => stored'[key[d]] = <<>>,
         OnItsWay(d)',
         d \notin shared =>
           /\ pc'[d] = "missed" => key[d] \notin pinned'
           /\ pc'[d] \in {"found", "created", "queued"} => handle'[d] = stored'[key[d]]
           /\ outcome'[d] \notin {"stale", "pin-taken"}
  PROVE  AccInv'
<1>1. key \in [Dispatches -> Keys]
  BY DEF Inv, TypeOK
<1>2. \A e \in Dispatches \ {d} : OnItsWay(e)'
  <2> TAKE e \in Dispatches \ {d}
  <2>1. OnItsWay(e)
    BY DEF AccInv
  <2>2. Stands(e) => Stands(e)'
    <3>1. CASE key[e] # key[d]
      BY <3>1, <1>1 DEF Stands, Message
    <3>2. CASE key[e] = key[d]
      <4>1. stored[key[d]] \in Transcript
        BY <1>1 DEF Inv, TypeOK
      <4>2. SUFFICES ASSUME NEW i \in 1 .. Len(stored[key[d]]),
                            stored[key[d]][i] = Message(e, "user", 0)
                     PROVE  /\ i \in 1 .. Len(stored'[key[d]])
                            /\ stored'[key[d]][i] = Message(e, "user", 0)
        BY <3>2 DEF Stands, Message
      <4> QED BY <4>1, <4>2 DEF Prefix, Transcript
    <3> QED BY <3>1, <3>2
  <2>3. key[e] \in pinned => key[e] \in pinned'
    OBVIOUS
  <2> QED BY <2>1, <2>2, <2>3 DEF OnItsWay
<1>3. \A e \in Dispatches \ {d} : e \notin shared => Undisturbed(e)'
  <2> TAKE e \in Dispatches \ {d}
  <2> HAVE e \notin shared
  <2>1. Undisturbed(e)
    BY DEF AccInv
  <2>2. key[e] = key[d] => ~InFlight(e)
    BY <2>1 DEF Undisturbed, Peers
  <2>3. InFlight(e)' => \A f \in Peers(e)' : ~InFlight(f)'
    <3> SUFFICES ASSUME InFlight(e)', NEW f \in Dispatches, key[f] = key[e], f # e
                 PROVE  ~InFlight(f)'
      BY DEF Peers
    <3>1. InFlight(e)
      BY DEF InFlight
    <3>2. f # d
      BY <2>2, <3>1
    <3>3. ~InFlight(f)
      BY <2>1, <3>1 DEF Undisturbed, Peers
    <3> QED BY <3>2, <3>3 DEF InFlight
  <2>4. pc'[e] = "missed" => key[e] \notin pinned'
    BY <2>1, <2>2, <1>1 DEF Undisturbed, InFlight
  <2>5. pc'[e] \in {"found", "created", "queued"} => handle'[e] = stored'[key[e]]
    BY <2>1, <2>2, <1>1 DEF Undisturbed, InFlight
  <2> QED BY <2>1, <2>3, <2>4, <2>5 DEF Undisturbed
<1>4. d \notin shared => Undisturbed(d)'
  <2> HAVE d \notin shared
  <2>1. \A e \in Peers(d) : ~InFlight(e)
    BY DEF AccInv, Undisturbed
  <2>2. \A e \in Peers(d)' : ~InFlight(e)'
    BY <2>1 DEF Peers, InFlight
  <2> QED BY <2>2 DEF Undisturbed
<1>5. \A k \in Keys \ pinned' : stored'[k] = <<>>
  BY <1>1 DEF AccInv
<1> QED BY <1>2, <1>3, <1>4, <1>5 DEF AccInv

\* The same for a step that appends nothing and pins nothing.
LEMMA AccQuiet ==
  ASSUME Inv, AccInv, NEW d \in Dispatches, InFlight(d), UNCHANGED <<key, shared, pinned, stored>>,
         \A e \in Dispatches \ {d} :
           pc'[e] = pc[e] /\ handle'[e] = handle[e] /\ outcome'[e] = outcome[e],
         pc'[d] \in {"idle", "missed", "created"} => handle'[d] = <<>>,
         pc'[d] \in {"found", "created"} \cup Waits => key[d] \in pinned,
         pc'[d] \in Running \/ outcome'[d] = "dispatched" => Stands(d),
         d \notin shared =>
           /\ pc'[d] # "missed"
           /\ pc'[d] \in {"found", "created", "queued"} => handle'[d] = stored[key[d]]
           /\ outcome'[d] \notin {"stale", "pin-taken"}
  PROVE  AccInv'
<1>1. stored[key[d]] \in Transcript /\ key[d] \in Keys
  BY DEF Inv, TypeOK
<1>2. Prefix(stored[key[d]], stored'[key[d]])
  BY <1>1, SelfPrefix DEF Transcript
<1>3. key[d] \notin pinned' => stored'[key[d]] = <<>>
  BY <1>1 DEF AccInv
<1>4. OnItsWay(d)'
  BY DEF OnItsWay, Stands, Message
<1> QED BY <1>2, <1>3, <1>4, AccMoves

\* A dispatch that ends is not turned away unless it met a peer.
LEMMA AccEnd ==
  ASSUME Inv, AccInv, NEW d \in Dispatches, InFlight(d), NEW o \in Outcomes, Ends(d, o),
         UNCHANGED <<key, shared, pinned, stored>>,
         o = "dispatched" => pc[d] \in Running,
         d \notin shared => o \notin {"stale", "pin-taken"}
  PROVE  AccInv'
<1>1. TypeOK
  BY DEF Inv
<1>2. \A e \in Dispatches \ {d} :
        pc'[e] = pc[e] /\ handle'[e] = handle[e] /\ outcome'[e] = outcome[e]
  BY <1>1 DEF Ends, TypeOK
<1>3. pc'[d] = "idle" /\ handle'[d] = <<>> /\ outcome'[d] = o
  BY <1>1 DEF Ends, TypeOK
<1>4. o = "dispatched" => Stands(d)
  BY DEF AccInv, OnItsWay
<1> QED BY <1>2, <1>3, <1>4, AccQuiet DEF Waits, Running

\* A turn that goes on without appending.
LEMMA AccGoesOn ==
  ASSUME Inv, AccInv, NEW d \in Dispatches, pc[d] \in Running, NEW v \in Running,
         pc' = [pc EXCEPT ![d] = v],
         UNCHANGED <<key, shared, pinned, stored, handle, outcome>>
  PROVE  AccInv'
<1>1. pc \in [Dispatches -> {"idle", "queued"} \cup Resolved \cup Running]
  BY DEF Inv, TypeOK
<1>2. pc'[d] = v /\ \A e \in Dispatches \ {d} : pc'[e] = pc[e]
  BY <1>1
<1>3. InFlight(d) /\ v \notin {"idle", "missed", "created", "found", "queued"}
  BY DEF InFlight, Running
<1>4. OnItsWay(d) /\ (d \notin shared => Undisturbed(d))
  BY DEF AccInv
<1>5. key[d] \in pinned /\ Stands(d)
  BY <1>4 DEF OnItsWay, Waits
<1>6. d \notin shared => outcome[d] \notin {"stale", "pin-taken"}
  BY <1>4 DEF Undisturbed
<1> QED BY <1>2, <1>3, <1>5, <1>6, AccQuiet

\* The holder of the lock appends.
LEMMA AccAppends ==
  ASSUME Inv, AccInv, NEW d \in Dispatches, pc[d] \in Waits,
         NEW kind \in {"user", "text", "calls", "results"}, NEW n \in 0 .. MaxBlocks,
         Appends(d, Message(d, kind, n)), pc[d] = "queued" => kind = "user" /\ n = 0,
         NEW v \in Running, pc' = [pc EXCEPT ![d] = v],
         UNCHANGED <<key, shared, pinned, outcome>>
  PROVE  AccInv'
<1> DEFINE M == [of : Dispatches, kind : {"user", "text", "calls", "results"}, n : 0 .. MaxBlocks]
           m == Message(d, kind, n)
           k0 == key[d]
           last == Len(stored[k0]) + 1
<1>1. m \in M /\ (pc[d] = "queued" => m = Message(d, "user", 0))
  BY DEF Message
<1>2. /\ stored \in [Keys -> Seq(M)] /\ handle \in [Dispatches -> Seq(M)]
      /\ key \in [Dispatches -> Keys]
      /\ pc \in [Dispatches -> {"idle", "queued"} \cup Resolved \cup Running]
  BY DEF Inv, TypeOK, Transcript
<1> HIDE DEF M, m
<1>3. stored[k0] \in Seq(M) /\ k0 \in Keys /\ Len(stored[k0]) \in Nat
  BY <1>2
<1>4. /\ stored' = [stored EXCEPT ![k0] = Append(stored[k0], m)]
      /\ handle' = [handle EXCEPT ![d] = Append(handle[d], m)]
  BY DEF Appends, m
<1>5. stored'[k0] = Append(stored[k0], m) /\ \A k \in Keys \ {k0} : stored'[k] = stored[k]
  BY <1>2, <1>3, <1>4
<1>6. /\ pc'[d] = v /\ \A e \in Dispatches \ {d} : pc'[e] = pc[e] /\ handle'[e] = handle[e]
  BY <1>2, <1>4
<1>7. Prefix(stored[k0], stored'[k0])
  <2>1. Prefix(stored[k0], stored[k0])
    BY <1>3, SelfPrefix
  <2> QED BY <2>1, <1>1, <1>3, <1>5, PrefixAppend
<1>8. /\ last \in 1 .. Len(stored'[k0]) /\ stored'[k0][last] = m
      /\ \A i \in 1 .. Len(stored[k0]) :
           i \in 1 .. Len(stored'[k0]) /\ stored'[k0][i] = stored[k0][i]
  BY <1>1, <1>3, <1>5
<1>9. InFlight(d) /\ v \notin {"idle", "missed", "created", "found", "queued"}
  BY DEF InFlight, Running, Waits
<1>10. OnItsWay(d) /\ (d \notin shared => Undisturbed(d))
  BY DEF AccInv
<1>11. key[d] \in pinned
  BY <1>10 DEF OnItsWay
<1>12. Stands(d)'
  <2>1. CASE pc[d] = "queued"
    BY <2>1, <1>1, <1>8 DEF Stands, Message
  <2>2. CASE pc[d] # "queued"
    <3>1. PICK i \in 1 .. Len(stored[k0]) : stored[k0][i] = Message(d, "user", 0)
      BY <2>2, <1>10 DEF OnItsWay, Waits, Stands
    <3> QED BY <3>1, <1>8 DEF Stands, Message
  <2> QED BY <2>1, <2>2
<1>13. OnItsWay(d)'
  BY <1>6, <1>9, <1>11, <1>12 DEF OnItsWay
<1>14. d \notin shared => outcome[d] \notin {"stale", "pin-taken"}
  BY <1>10 DEF Undisturbed
<1> HIDE DEF k0
<1> QED BY <1>5, <1>6, <1>7, <1>9, <1>11, <1>13, <1>14, AccMoves DEF k0

LEMMA AccInit == Init => AccInv
<1> SUFFICES ASSUME Init PROVE AccInv OBVIOUS
<1>1. \A k \in Keys : stored[k] = <<>>
  BY DEF Init
<1>2. \A d \in Dispatches : pc[d] = "idle" /\ handle[d] = <<>> /\ outcome[d] = "none"
  BY DEF Init
<1> QED BY <1>1, <1>2 DEF AccInv, OnItsWay, Undisturbed, InFlight, Waits, Running

LEMMA AccResolve == ASSUME Inv, AccInv, NEW d \in Dispatches, Resolve(d) PROVE AccInv'
<1>1. TypeOK
  BY DEF Inv
<1>2. /\ pc[d] = "idle" /\ outcome[d] = "none"
      /\ UNCHANGED <<key, pinned, stored, outcome>>
      /\ shared \subseteq shared'
  BY DEF Resolve, store
<1>3. \A e \in Dispatches \ {d} : pc'[e] = pc[e] /\ handle'[e] = handle[e]
  BY <1>1 DEF Resolve, TypeOK
<1>4. \/ key[d] \in pinned /\ pc'[d] = "found" /\ handle'[d] = stored[key[d]]
      \/ key[d] \notin pinned /\ pc'[d] = "missed" /\ handle'[d] = handle[d]
  BY <1>1 DEF Resolve, Opened, TypeOK
<1>5. d \notin shared' => \A e \in Peers(d) : ~InFlight(e)
  BY DEF Resolve
<1>6. \A e \in Peers(d) : InFlight(e) => e \in shared'
  BY DEF Resolve
<1>7. \A e \in Dispatches : OnItsWay(e)'
  <2> TAKE e \in Dispatches
  <2>1. OnItsWay(e)
    BY DEF AccInv
  <2>2. Stands(e)' <=> Stands(e)
    BY <1>2 DEF Stands, Message
  <2>3. CASE e = d
    BY <2>1, <2>2, <2>3, <1>2, <1>4 DEF OnItsWay, Waits, Running
  <2>4. CASE e # d
    BY <2>1, <2>2, <2>4, <1>2, <1>3 DEF OnItsWay
  <2> QED BY <2>3, <2>4
<1>8. \A e \in Dispatches : e \notin shared' => Undisturbed(e)'
  <2> TAKE e \in Dispatches
  <2> HAVE e \notin shared'
  <2>1. Undisturbed(e)
    BY <1>2 DEF AccInv
  <2>2. CASE e = d
    <3>1. \A f \in Peers(d)' : ~InFlight(f)'
      BY <2>2, <1>2, <1>3, <1>5 DEF Peers, InFlight
    <3> QED BY <2>2, <3>1, <1>2, <1>4 DEF Undisturbed
  <2>3. CASE e # d
    <3>1. InFlight(e)' => \A f \in Peers(e)' : ~InFlight(f)'
      <4> SUFFICES ASSUME InFlight(e)', NEW f \in Dispatches, key[f] = key[e], f # e
                   PROVE  ~InFlight(f)'
        BY <1>2 DEF Peers
      <4>1. InFlight(e)
        BY <2>3, <1>3 DEF InFlight
      <4>2. f # d
        BY <2>3, <4>1, <1>6 DEF Peers
      <4>3. ~InFlight(f)
        BY <2>1, <4>1 DEF Undisturbed, Peers
      <4> QED BY <4>2, <4>3, <1>3 DEF InFlight
    <3> QED BY <2>1, <2>3, <3>1, <1>2, <1>3 DEF Undisturbed
  <2> QED BY <2>2, <2>3
<1>9. \A k \in Keys \ pinned' : stored'[k] = <<>>
  BY <1>2 DEF AccInv
<1> QED BY <1>7, <1>8, <1>9 DEF AccInv

LEMMA AccCreate == ASSUME Inv, AccInv, NEW d \in Dispatches, Create(d) PROVE AccInv'
<1>1. /\ TypeOK /\ pc[d] = "missed" /\ InFlight(d) /\ UNCHANGED <<key, stored, shared>>
      /\ key[d] \in Keys
  BY DEF Inv, TypeOK, Create, InFlight
<1>2. OnItsWay(d) /\ (d \notin shared => Undisturbed(d))
  BY DEF AccInv
<1>3. CASE /\ key[d] \notin pinned
           /\ pinned' = pinned \cup {key[d]} /\ pc' = [pc EXCEPT ![d] = "created"]
           /\ UNCHANGED <<handle, turn, outcome>>
  <2>1. pc'[d] = "created" /\ \A e \in Dispatches \ {d} : pc'[e] = pc[e]
    BY <1>1, <1>3 DEF TypeOK
  <2>2. stored[key[d]] = <<>> /\ handle[d] = <<>>
    BY <1>1, <1>2, <1>3 DEF AccInv, OnItsWay
  <2>3. stored[key[d]] \in Transcript
    BY <1>1 DEF TypeOK
  <2>4. Prefix(stored[key[d]], stored'[key[d]])
    BY <1>1, <2>3, SelfPrefix DEF Transcript
  <2>5. OnItsWay(d)'
    BY <1>1, <1>2, <1>3, <2>1, <2>2 DEF OnItsWay, Running, Stands, Message
  <2>6. d \notin shared => outcome[d] \notin {"stale", "pin-taken"}
    BY <1>2 DEF Undisturbed
  <2> QED BY <1>1, <1>3, <2>1, <2>2, <2>4, <2>5, <2>6, AccMoves
<1>4. CASE key[d] \in pinned /\ Ends(d, "pin-taken") /\ UNCHANGED pinned
  <2>1. d \in shared
    BY <1>1, <1>2, <1>4 DEF Undisturbed
  <2> QED BY <1>1, <1>4, <2>1, AccEnd DEF Outcomes
<1> QED BY <1>3, <1>4 DEF Create

LEMMA AccRefuse == ASSUME Inv, AccInv, NEW d \in Dispatches, Refuse(d) PROVE AccInv'
<1>1. InFlight(d) /\ UNCHANGED <<key, shared, pinned, stored>> /\ Ends(d, "circuit-open")
  BY DEF Refuse, InFlight, store
<1> QED BY <1>1, AccEnd DEF Outcomes

LEMMA AccEnqueue == ASSUME Inv, AccInv, NEW d \in Dispatches, Enqueue(d) PROVE AccInv'
<1>1. /\ TypeOK /\ pc[d] \in {"found", "created"} /\ InFlight(d)
      /\ UNCHANGED <<key, shared, pinned, stored, handle, outcome>>
  BY DEF Inv, Enqueue, InFlight, store
<1>2. pc'[d] = "queued" /\ \A e \in Dispatches \ {d} : pc'[e] = pc[e]
  BY <1>1 DEF TypeOK, Enqueue
<1>3. OnItsWay(d) /\ (d \notin shared => Undisturbed(d))
  BY DEF AccInv
<1>4. key[d] \in pinned /\ (outcome[d] = "dispatched" => Stands(d))
  BY <1>1, <1>3 DEF OnItsWay
<1>5. d \notin shared => handle[d] = stored[key[d]] /\ outcome[d] \notin {"stale", "pin-taken"}
  BY <1>1, <1>3 DEF Undisturbed
<1> QED BY <1>1, <1>2, <1>4, <1>5, AccQuiet DEF Running

LEMMA AccTurn == ASSUME Inv, AccInv, NEW d \in Dispatches, Turn(d) PROVE AccInv'
<1>1. TypeOK /\ 0 \in 0 .. MaxBlocks
  BY BoundsAreNumbers DEF Inv
<1>2. CASE Begin(d)
  <2>1. pc[d] = "queued" /\ pc[d] \in Waits /\ InFlight(d) /\ UNCHANGED <<key, pinned, shared>>
    BY <1>2 DEF Begin, Waits, InFlight
  <2>2. CASE /\ Appends(d, Message(d, "user", 0))
             /\ pc' = [pc EXCEPT ![d] = "asking"] /\ UNCHANGED outcome
    BY <1>1, <2>1, <2>2, AccAppends DEF Running
  <2>3. CASE ~Fits(d) /\ Ends(d, "stale") /\ UNCHANGED stored
    <3>1. stored[key[d]] \in Transcript
      BY <1>1 DEF TypeOK
    <3>2. handle[d] # stored[key[d]]
      BY <2>3, <3>1 DEF Fits, Transcript
    <3>3. d \in shared
      BY <2>1, <3>2 DEF AccInv, Undisturbed
    <3> QED BY <2>1, <2>3, <3>3, AccEnd DEF Outcomes
  <2> QED BY <1>2, <2>2, <2>3 DEF Begin
<1>3. CASE ProviderFails(d)
  BY <1>3, AccGoesOn DEF ProviderFails, store, Running
<1>4. CASE Answer(d)
  BY <1>1, <1>4, AccAppends DEF Answer, Running, Waits
<1>5. ASSUME NEW n \in 1 .. MaxBlocks, Ask(d, n) PROVE AccInv'
  <2>1. n \in 0 .. MaxBlocks
    BY BoundsAreNumbers
  <2> QED BY <1>5, <2>1, AccAppends DEF Ask, Running, Waits
<1>6. CASE CutOff(d)
  BY <1>6, AccGoesOn DEF CutOff, store, Running
<1>7. CASE NextBlock(d)
  <2>1. pc' = [pc EXCEPT ![d] = "tools"]
    BY <1>1, <1>7 DEF NextBlock, TypeOK
  <2> QED BY <1>7, <2>1, AccGoesOn DEF NextBlock, store, Running
<1>8. ASSUME NEW escalates \in BOOLEAN, LastBlock(d, escalates) PROVE AccInv'
  <2> DEFINE a == Answered(d, escalates)
             v == IF escalates \/ turn[d].iteration + 1 = MaxIterations THEN "ending" ELSE "asking"
  <2>1. /\ pc[d] = "tools" /\ pc' = [pc EXCEPT ![d] = v]
        /\ Appends(d, Message(d, "results", a)) /\ UNCHANGED <<key, shared, pinned, outcome>>
    BY <1>8 DEF LastBlock
  <2>2. v \in Running /\ pc[d] \in Waits
    BY <2>1 DEF Running, Waits
  <2>3. turn[d] \in [iteration : 0 .. MaxIterations, blocks : 0 .. MaxBlocks,
                     answers : 0 .. MaxBlocks]
    BY <1>1 DEF TypeOK
  <2>4. turn[d].answers < turn[d].blocks
    BY <2>1 DEF Inv, TurnFits
  <2>5. a \in 0 .. MaxBlocks
    BY <2>3, <2>4, BoundsAreNumbers DEF Answered
  <2> HIDE DEF v, a
  <2> QED BY <2>1, <2>2, <2>5, AccAppends
<1>9. CASE Finish(d)
  BY <1>9, AccEnd DEF Finish, store, InFlight, Running, Outcomes
<1> QED BY <1>2, <1>3, <1>4, <1>5, <1>6, <1>7, <1>8, <1>9 DEF Turn

LEMMA AccStep == Inv /\ AccInv /\ [Next]_vars => AccInv'
<1> SUFFICES ASSUME Inv, AccInv, [Next]_vars PROVE AccInv' OBVIOUS
<1>1. ASSUME NEW d \in Dispatches, Resolve(d) \/ Create(d) \/ Refuse(d) \/ Enqueue(d) \/ Turn(d)
      PROVE  AccInv'
  BY <1>1, AccResolve, AccCreate, AccRefuse, AccEnqueue, AccTurn
<1>2. CASE Crash
  <2>1. /\ \A d \in Dispatches : pc'[d] = "idle" /\ handle'[d] = <<>>
        /\ UNCHANGED <<key, pinned, stored, outcome, shared>>
    BY <1>2 DEF Crash, store
  <2>2. \A d \in Dispatches : Stands(d)' <=> Stands(d)
    BY <2>1 DEF Stands, Message
  <2> QED BY <2>1, <2>2 DEF AccInv, OnItsWay, Undisturbed, InFlight, Waits, Running
<1>3. CASE UNCHANGED vars
  <2>1. UNCHANGED <<key, pinned, stored, pc, handle, outcome, shared>>
    BY <1>3 DEF vars, store, memory
  <2> QED BY <2>1 DEF AccInv, OnItsWay, Undisturbed, InFlight, Peers, Stands, Message
<1> QED BY <1>1, <1>2, <1>3 DEF Next

\* Across events and restarts a pinned session accumulates, for any number of
\* events and keys: whoever shared no time with an event of its key is never
\* turned away by the store, and if it was dispatched its message is there.
THEOREM SessionAccumulates == Spec => []Accumulates
<1>1. Init => Inv /\ AccInv
  BY InitInv, AccInit
<1>2. (Inv /\ AccInv) /\ [Next]_vars => (Inv /\ AccInv)'
  BY StepInv, AccStep
<1>3. Inv /\ AccInv => Accumulates
  <2> SUFFICES ASSUME Inv, AccInv, NEW d \in Dispatches \ shared
               PROVE  /\ outcome[d] \notin {"stale", "pin-taken"}
                      /\ outcome[d] = "dispatched" =>
                           \E i \in DOMAIN stored[key[d]] :
                             stored[key[d]][i] = Message(d, "user", 0)
    BY DEF Accumulates
  <2>1. stored[key[d]] \in Transcript
    BY DEF Inv, TypeOK
  <2>2. OnItsWay(d) /\ Undisturbed(d)
    BY DEF AccInv
  <2> QED BY <2>1, <2>2 DEF OnItsWay, Undisturbed, Stands, Transcript
<1> QED BY <1>1, <1>2, <1>3, PTL DEF Spec

-----------------------------------------------------------------------------
(* The conversation.  Next to Inv and CallsAtEnd: what the last word of a      *)
(* session is while a turn is open, that the calls being run are not cut, that *)
(* what was cut is in the session, and that who is in flight has no outcome.   *)

LastWords ==
  \A d \in Dispatches :
    LET s == stored[key[d]] IN
    /\ pc[d] \in Running => Len(s) > 0
    /\ pc[d] = "asking" => s[Len(s)].kind \in {"user", "results"}
    /\ pc[d] = "tools" => <<key[d], Len(s)>> \notin cut
    /\ pc[d] = "ending" => (s[Len(s)].kind = "calls" => <<key[d], Len(s)>> \in cut)

CutsSaid == \A k \in Keys, i \in Nat : <<k, i>> \in cut => i <= Len(stored[k])

Unsettled == \A d \in Dispatches : InFlight(d) => outcome[d] = "none"

TalkInv == LastWords /\ CutsSaid /\ Unsettled

\* Steps that say nothing and open nothing.
LEMMA TalkQuiet ==
  ASSUME TalkInv, UNCHANGED <<key, stored, cut>>,
         \A e \in Dispatches : \/ pc'[e] = pc[e] \/ pc'[e] \notin Running
                               \/ pc[e] = "asking" /\ pc'[e] = "ending",
         Unsettled'
  PROVE  TalkInv'
<1>1. LastWords'
  BY DEF TalkInv, LastWords, Running
<1>2. CutsSaid'
  BY DEF TalkInv, CutsSaid
<1> QED BY <1>1, <1>2 DEF TalkInv

\* What d says is the last word of its session, and the others stay as they are.
LEMMA Says ==
  ASSUME Inv, NEW d \in Dispatches, NEW kind \in {"user", "text", "calls", "results"},
         NEW n \in 0 .. MaxBlocks, Appends(d, Message(d, kind, n))
  PROVE  /\ stored' = [stored EXCEPT ![key[d]] = Append(@, [of |-> d, kind |-> kind, n |-> n])]
         /\ \A k \in Keys : Len(stored'[k]) \in Nat /\ Len(stored[k]) \in Nat
         /\ \A k \in Keys \ {key[d]} : stored'[k] = stored[k]
         /\ Len(stored'[key[d]]) = Len(stored[key[d]]) + 1
         /\ stored'[key[d]][Len(stored'[key[d]])] = Message(d, kind, n)
<1> DEFINE M == [of : Dispatches, kind : {"user", "text", "calls", "results"}, n : 0 .. MaxBlocks]
           m == Message(d, kind, n)
<1>1. m \in M /\ m = [of |-> d, kind |-> kind, n |-> n]
  BY DEF Message
<1>2. stored \in [Keys -> Seq(M)] /\ key[d] \in Keys
  BY DEF Inv, TypeOK, Transcript
<1>3. stored' = [stored EXCEPT ![key[d]] = Append(stored[key[d]], m)]
  BY DEF Appends
<1> HIDE DEF M, m
<1>4. stored[key[d]] \in Seq(M) /\ stored'[key[d]] = Append(stored[key[d]], m)
  BY <1>2, <1>3
<1>5. /\ Append(stored[key[d]], m) \in Seq(M)
      /\ Len(Append(stored[key[d]], m)) = Len(stored[key[d]]) + 1
      /\ Append(stored[key[d]], m)[Len(stored[key[d]]) + 1] = m
  BY <1>1, <1>4
<1>6. \A k \in Keys \ {key[d]} : stored'[k] = stored[k]
  BY <1>2, <1>3
<1>7. \A k \in Keys : Len(stored'[k]) \in Nat /\ Len(stored[k]) \in Nat
  BY <1>2, <1>4, <1>5, <1>6
<1> QED BY <1>1, <1>3, <1>4, <1>5, <1>6, <1>7 DEF m

\* The turn that has the lock says something.
LEMMA TalkSays ==
  ASSUME Inv, TalkInv, NEW d \in Dispatches, HasLock(d), pc[d] \in Waits,
         NEW kind \in {"user", "text", "calls", "results"}, NEW n \in 0 .. MaxBlocks,
         Appends(d, Message(d, kind, n)), NEW v \in Running, pc' = [pc EXCEPT ![d] = v],
         v = "asking" => kind \in {"user", "results"}, v = "ending" => kind # "calls",
         UNCHANGED <<key, cut, outcome>>
  PROVE  TalkInv'
<1>1. pc \in [Dispatches -> {"idle", "queued"} \cup Resolved \cup Running] /\ key[d] \in Keys
  BY DEF Inv, TypeOK
<1>2. pc'[d] = v /\ \A e \in Dispatches \ {d} : pc'[e] = pc[e]
  BY <1>1
<1>3. \A e \in Dispatches \ {d} : pc[e] \in Running => key[e] # key[d]
  BY OneRuns
<1>4. /\ Len(stored[key[d]]) \in Nat /\ Len(stored'[key[d]]) = Len(stored[key[d]]) + 1
      /\ \A k \in Keys \ {key[d]} : stored'[k] = stored[k]
  BY <1>1, Says
<1>5. CutsSaid'
  <2> SUFFICES ASSUME NEW k \in Keys, NEW i \in Nat, <<k, i>> \in cut
               PROVE  i <= Len(stored'[k])
    BY DEF CutsSaid
  <2>1. i <= Len(stored[k])
    BY DEF TalkInv, CutsSaid
  <2> QED BY <1>4, <2>1
<1>6. <<key[d], Len(stored'[key[d]])>> \notin cut
  <2>1. \A i \in Nat : <<key[d], i>> \in cut => i <= Len(stored[key[d]])
    BY <1>1 DEF TalkInv, CutsSaid
  <2> QED BY <1>4, <2>1
<1>7. LastWords'
  <2> SUFFICES ASSUME NEW e \in Dispatches
               PROVE  LET s == stored'[key[e]] IN
                      /\ pc'[e] \in Running => Len(s) > 0
                      /\ pc'[e] = "asking" => s[Len(s)].kind \in {"user", "results"}
                      /\ pc'[e] = "tools" => <<key[e], Len(s)>> \notin cut
                      /\ pc'[e] = "ending" =>
                           (s[Len(s)].kind = "calls" => <<key[e], Len(s)>> \in cut)
    BY DEF LastWords
  <2>1. CASE e = d
    <3>1. stored'[key[d]][Len(stored'[key[d]])].kind = kind
      BY Says DEF Message
    <3>2. Len(stored'[key[d]]) > 0
      BY <1>4
    <3> QED BY <1>2, <1>6, <2>1, <3>1, <3>2
  <2>2. CASE e # d /\ pc[e] \in Running
    <3>1. key[e] \in Keys \ {key[d]} /\ pc'[e] = pc[e]
      BY <1>2, <1>3, <2>2 DEF Inv, TypeOK
    <3>2. stored'[key[e]] = stored[key[e]]
      BY <1>4, <3>1
    <3> QED BY <3>1, <3>2 DEF TalkInv, LastWords
  <2>3. CASE e # d /\ pc[e] \notin Running
    BY <1>2, <2>3 DEF Running
  <2> QED BY <2>1, <2>2, <2>3
<1>8. Unsettled'
  BY <1>2 DEF TalkInv, Unsettled, InFlight, Waits, Running
<1> QED BY <1>5, <1>7, <1>8 DEF TalkInv

\* d leaves, whatever its outcome.
LEMMA TalkEnds ==
  ASSUME Inv, TalkInv, NEW d \in Dispatches, NEW o, Ends(d, o), UNCHANGED <<key, stored, cut>>
  PROVE  TalkInv'
<1>1. /\ pc \in [Dispatches -> {"idle", "queued"} \cup Resolved \cup Running]
      /\ outcome \in [Dispatches -> Outcomes]
  BY DEF Inv, TypeOK
<1>2. /\ pc'[d] = "idle"
      /\ \A e \in Dispatches \ {d} : pc'[e] = pc[e] /\ outcome'[e] = outcome[e]
  BY <1>1 DEF Ends
<1>3. Unsettled'
  BY <1>2 DEF TalkInv, Unsettled, InFlight
<1> QED BY <1>2, <1>3, TalkQuiet DEF Running

\* d moves on, with nothing said.
LEMMA TalkMoves ==
  ASSUME Inv, TalkInv, NEW d \in Dispatches, NEW v, pc' = [pc EXCEPT ![d] = v],
         v \notin Running \/ (pc[d] = "asking" /\ v = "ending"),
         outcome[d] = "none", UNCHANGED <<key, stored, cut, outcome>>
  PROVE  TalkInv'
<1>1. pc \in [Dispatches -> {"idle", "queued"} \cup Resolved \cup Running]
  BY DEF Inv, TypeOK
<1>2. pc'[d] = v /\ \A e \in Dispatches \ {d} : pc'[e] = pc[e]
  BY <1>1
<1>3. Unsettled'
  BY <1>2 DEF TalkInv, Unsettled, InFlight
<1> QED BY <1>2, <1>3, TalkQuiet

LEMMA TalkInit == Init => TalkInv
<1> SUFFICES ASSUME Init PROVE TalkInv OBVIOUS
<1>1. \A d \in Dispatches : pc[d] = "idle" /\ outcome[d] = "none"
  BY DEF Init
<1>2. cut = {}
  BY DEF Init
<1> QED BY <1>1, <1>2 DEF TalkInv, LastWords, CutsSaid, Unsettled, Running, InFlight

\* Its calls were said and are cut now, or their results are given.
LEMMA TalkCut ==
  ASSUME Inv, TalkInv, NEW d \in Dispatches, CutOff(d)
  PROVE  TalkInv'
<1>1. /\ pc[d] = "tools" /\ pc' = [pc EXCEPT ![d] = "ending"]
      /\ cut' = cut \cup {<<key[d], Len(stored[key[d]])>>} /\ UNCHANGED <<key, stored, outcome>>
  BY DEF CutOff, CutShort, store
<1>2. /\ pc \in [Dispatches -> {"idle", "queued"} \cup Resolved \cup Running]
      /\ key \in [Dispatches -> Keys] /\ stored \in [Keys -> Transcript]
  BY DEF Inv, TypeOK
<1>3. pc'[d] = "ending" /\ \A e \in Dispatches \ {d} : pc'[e] = pc[e]
  BY <1>1, <1>2
<1>4. \A e \in Dispatches \ {d} : pc[e] \in Running => key[e] # key[d]
  BY <1>1, Front, OneRuns DEF Running
<1>5. \A k \in Keys : Len(stored[k]) \in Nat
  BY <1>2 DEF Transcript
<1>6. CutsSaid'
  BY <1>1, <1>2, <1>5 DEF TalkInv, CutsSaid
<1>7. LastWords'
  BY <1>1, <1>3, <1>4 DEF TalkInv, LastWords, Running
<1>8. Unsettled'
  BY <1>1, <1>3 DEF TalkInv, Unsettled, InFlight
<1> QED BY <1>6, <1>7, <1>8 DEF TalkInv

LEMMA TalkCrash == ASSUME Inv, TalkInv, Crash PROVE TalkInv'
<1>1. \A d \in Dispatches : pc'[d] = "idle"
  BY DEF Crash
<1>2. /\ cut' = cut \cup {<<key[d], Len(stored[key[d]])>> : d \in {e \in Dispatches : pc[e] = "tools"}}
      /\ UNCHANGED <<key, stored>>
  BY DEF Crash, store
<1>3. key \in [Dispatches -> Keys] /\ \A k \in Keys : Len(stored[k]) \in Nat
  BY DEF Inv, TypeOK, Transcript
<1>4. CutsSaid'
  BY <1>2, <1>3 DEF TalkInv, CutsSaid
<1> QED BY <1>1, <1>4 DEF TalkInv, LastWords, Unsettled, Running, InFlight

-----------------------------------------------------------------------------
(* The steps of a conversation *)

\* Who runs speaks alone.
LEMMA SpeaksAlone ==
  ASSUME Inv, NEW d \in Dispatches, pc[d] \in Running
  PROVE  key[d] \in Keys /\ Speaking[key[d]] = {d}
<1>1. key[d] \in Keys
  BY DEF Inv, TypeOK
<1>2. \A e \in Dispatches : pc[e] \in Running /\ key[e] = key[d] => e = d
  BY Front, OneRuns
<1> QED BY <1>1, <1>2 DEF Speaking

\* Who runs tools has called them last.
LEMMA CallsLast ==
  ASSUME Inv, CallsInv, NEW d \in Dispatches, pc[d] = "tools"
  PROVE  Talk!Calling(key[d]) /\ key[d] \in Keys
<1>1. stored[key[d]][Len(stored[key[d]])] = Message(d, "calls", turn[d].blocks)
  BY DEF CallsInv, CallsAtEnd
<1>2. Message(d, "calls", turn[d].blocks).kind = "calls"
  BY DEF Message
<1>3. key[d] \in Keys /\ Speaking[key[d]] = {d}
  BY SpeaksAlone DEF Running
<1> QED BY <1>1, <1>2, <1>3 DEF Talk!Calling, Talk!LastWord

\* Nobody enters or leaves runAgent.
LEMMA SameSpeakers ==
  ASSUME key' = key, \A e \in Dispatches : pc'[e] \in Running <=> pc[e] \in Running
  PROVE  Speaking' = Speaking
<1> QED BY DEF Speaking

\* A step that is none of the conversation's business.
LEMMA Unheard ==
  ASSUME UNCHANGED <<key, stored, cut, outcome>>,
         \A e \in Dispatches : pc'[e] \in Running <=> pc[e] \in Running
  PROVE  UNCHANGED Talk!vars
<1> QED BY SameSpeakers DEF Talk!vars, Dispatched

\* A dispatch outside runAgent that moves on.
LEMMA UnheardMove ==
  ASSUME Inv, NEW d \in Dispatches, NEW v, pc' = [pc EXCEPT ![d] = v],
         pc[d] \notin Running, v \notin Running, UNCHANGED <<key, stored, cut, outcome>>
  PROVE  UNCHANGED Talk!vars
<1>1. pc \in [Dispatches -> {"idle", "queued"} \cup Resolved \cup Running]
  BY DEF Inv, TypeOK
<1> QED BY <1>1, Unheard

\* A dispatch that ends without a turn.
LEMMA UnheardEnd ==
  ASSUME Inv, TalkInv, NEW d \in Dispatches, NEW o, Ends(d, o), o # "dispatched",
         pc[d] \notin Running, pc[d] # "idle", UNCHANGED <<key, stored, cut>>
  PROVE  UNCHANGED Talk!vars
<1>1. /\ pc \in [Dispatches -> {"idle", "queued"} \cup Resolved \cup Running]
      /\ outcome \in [Dispatches -> Outcomes] /\ outcome[d] = "none"
  BY DEF Inv, TypeOK, TalkInv, Unsettled, InFlight
<1>2. Speaking' = Speaking
  BY <1>1, SameSpeakers DEF Ends, Running
<1>3. Dispatched' = Dispatched
  BY <1>1 DEF Ends, Dispatched
<1> QED BY <1>2, <1>3 DEF Talk!vars

\* The turn that has the lock opens it.
LEMMA BeginTalks ==
  ASSUME Inv, TalkInv, NEW d \in Dispatches, Begin(d)
  PROVE  TalkInv' /\ (Talk!Next \/ UNCHANGED Talk!vars)
<1>1. /\ pc[d] = "queued" /\ pc[d] \in Waits /\ pc[d] \notin Running /\ pc[d] # "idle"
      /\ HasLock(d) /\ UNCHANGED <<key, cut>>
  BY DEF Begin, Waits, Running
<1>2. CASE /\ Appends(d, Message(d, "user", 0))
           /\ pc' = [pc EXCEPT ![d] = "asking"] /\ UNCHANGED outcome
  <2>1. 0 \in 0 .. MaxBlocks /\ "asking" \in Running
    BY BoundsAreNumbers DEF Running
  <2>2. TalkInv'
    BY <1>1, <1>2, <2>1, TalkSays
  <2>3. /\ pc \in [Dispatches -> {"idle", "queued"} \cup Resolved \cup Running] /\ key[d] \in Keys
        /\ outcome[d] = "none"
    BY <1>1 DEF Inv, TypeOK, TalkInv, Unsettled, InFlight
  <2>4. \A e \in Dispatches : pc[e] \in Running => key[e] # key[d]
    BY <1>1, OneRuns
  <2>5. Speaking[key[d]] = {}
    BY <2>3, <2>4 DEF Speaking
  <2>6. Speaking' = [Speaking EXCEPT ![key[d]] = {d}]
    <3>1. pc'[d] \in Running /\ \A e \in Dispatches \ {d} : pc'[e] = pc[e]
      BY <1>2, <2>1, <2>3
    <3> QED BY <1>1, <2>3, <2>4, <3>1 DEF Speaking
  <2>7. stored' = [stored EXCEPT ![key[d]] = Append(@, [of |-> d, kind |-> "user", n |-> 0])]
    BY <1>2, <2>1, Says
  <2>8. d \notin Dispatched /\ Dispatched' = Dispatched
    BY <1>2, <2>3 DEF Dispatched
  <2>9. Talk!Open(key[d], d)
    BY <1>1, <2>5, <2>6, <2>7, <2>8 DEF Talk!Open, Talk!Say
  <2> QED BY <2>2, <2>3, <2>9 DEF Talk!Next
<1>3. CASE Ends(d, "stale") /\ UNCHANGED stored
  BY <1>1, <1>3, TalkEnds, UnheardEnd
<1> QED BY <1>2, <1>3 DEF Begin

\* The model's response, in words or with calls.
LEMMA ResponseTalks ==
  ASSUME Inv, TalkInv, NEW d \in Dispatches, pc[d] = "asking",
         NEW kind \in {"text", "calls"}, NEW n \in 0 .. MaxBlocks, NEW v \in {"tools", "ending"},
         kind = "text" <=> v = "ending", kind = "text" => n = 0, kind = "calls" => n > 0,
         Appends(d, Message(d, kind, n)), pc' = [pc EXCEPT ![d] = v],
         UNCHANGED <<key, cut, outcome>>
  PROVE  TalkInv' /\ Talk!Next
<1>1. pc[d] \in Running /\ pc[d] \in Waits /\ v \in Running
  BY DEF Running, Waits
<1>2. TalkInv'
  BY <1>1, Front, TalkSays
<1>3. pc \in [Dispatches -> {"idle", "queued"} \cup Resolved \cup Running]
  BY DEF Inv, TypeOK
<1>4. Speaking' = Speaking
  BY <1>1, <1>3, SameSpeakers
<1>5. stored' = [stored EXCEPT ![key[d]] = Append(@, [of |-> d, kind |-> kind, n |-> n])]
  BY Says
<1>6. stored[key[d]][Len(stored[key[d]])].kind \in {"user", "results"}
  BY DEF TalkInv, LastWords
<1>7. Dispatched' = Dispatched
  BY DEF Dispatched
<1>8. Talk!Respond(key[d], d, kind, n)
  BY <1>1, <1>4, <1>5, <1>6, <1>7, SpeaksAlone DEF Talk!Respond, Talk!Say, Talk!LastWord
<1>9. key[d] \in Keys /\ (kind = "calls" => n \in 1 .. MaxBlocks)
  BY BoundsAreNumbers DEF Inv, TypeOK
<1> QED BY <1>2, <1>8, <1>9 DEF Talk!Next

\* The results of its calls.
LEMMA ResultsTalk ==
  ASSUME Inv, CallsInv, TalkInv, NEW d \in Dispatches, NEW escalates \in BOOLEAN,
         LastBlock(d, escalates)
  PROVE  TalkInv' /\ Talk!Next
<1> DEFINE a == Answered(d, escalates)
           v == IF escalates \/ turn[d].iteration + 1 = MaxIterations THEN "ending" ELSE "asking"
<1>1. /\ pc[d] = "tools" /\ pc' = [pc EXCEPT ![d] = v]
      /\ Appends(d, Message(d, "results", a)) /\ UNCHANGED <<key, cut, outcome>>
  BY DEF LastBlock
<1>2. /\ turn[d].answers < turn[d].blocks
      /\ turn[d] \in [iteration : 0 .. MaxIterations, blocks : 0 .. MaxBlocks,
                      answers : 0 .. MaxBlocks]
      /\ pc \in [Dispatches -> {"idle", "queued"} \cup Resolved \cup Running] /\ key[d] \in Keys
  BY <1>1 DEF Inv, TypeOK, TurnFits
<1>3. a = turn[d].blocks /\ a \in 0 .. MaxBlocks
  BY <1>2, BoundsAreNumbers DEF LastBlock, Answered
<1>4. v \in {"ending", "asking"} /\ v \in Running /\ pc[d] \in Running /\ pc[d] \in Waits
  BY <1>1 DEF Running, Waits
<1> HIDE DEF v, a
<1>5. TalkInv'
  BY <1>1, <1>3, <1>4, Front, TalkSays
<1>6. Speaking' = Speaking
  BY <1>1, <1>2, <1>4, SameSpeakers
<1>7. stored' = [stored EXCEPT ![key[d]] = Append(@, [of |-> d, kind |-> "results", n |-> a])]
  BY <1>1, <1>3, Says
<1>8. /\ stored[key[d]][Len(stored[key[d]])] = Message(d, "calls", a)
      /\ <<key[d], Len(stored[key[d]])>> \notin cut
  BY <1>1, <1>3 DEF CallsInv, CallsAtEnd, TalkInv, LastWords
<1>9. [Message(d, "calls", a) EXCEPT !.kind = "results"] = [of |-> d, kind |-> "results", n |-> a]
  BY DEF Message
<1>10. Dispatched' = Dispatched
  BY <1>1 DEF Dispatched
<1>11. Talk!Calling(key[d])
  BY <1>1, CallsLast
<1>12. Talk!Results(key[d])
  BY <1>1, <1>6, <1>7, <1>8, <1>9, <1>10, <1>11 DEF Talk!Results, Talk!Say, Talk!LastWord, Talk!Place
<1> QED BY <1>2, <1>5, <1>12 DEF Talk!Next

\* The calls are cut short.
LEMMA CutTalks ==
  ASSUME Inv, CallsInv, TalkInv, NEW d \in Dispatches, CutOff(d)
  PROVE  Talk!Next
<1>1. /\ pc[d] = "tools" /\ pc' = [pc EXCEPT ![d] = "ending"]
      /\ cut' = cut \cup {<<key[d], Len(stored[key[d]])>>} /\ UNCHANGED <<key, stored, outcome>>
  BY DEF CutOff, CutShort, store
<1>2. /\ pc \in [Dispatches -> {"idle", "queued"} \cup Resolved \cup Running] /\ key[d] \in Keys
      /\ pc[d] \in Running /\ "ending" \in Running
  BY <1>1 DEF Inv, TypeOK, Running
<1>3. Speaking' = Speaking /\ Dispatched' = Dispatched
  BY <1>1, <1>2, SameSpeakers DEF Dispatched
<1>4. Talk!Calling(key[d])
  BY <1>1, CallsLast
<1>5. Talk!CutShort(key[d])
  BY <1>1, <1>3, <1>4 DEF Talk!CutShort, Talk!Place
<1> QED BY <1>2, <1>5 DEF Talk!Next

\* The turn is over.
LEMMA FinishTalks ==
  ASSUME Inv, TalkInv, NEW d \in Dispatches, Finish(d)
  PROVE  Talk!Next
<1>1. pc[d] = "ending" /\ Ends(d, "dispatched") /\ UNCHANGED <<key, stored, cut>>
  BY DEF Finish, store
<1>2. /\ pc \in [Dispatches -> {"idle", "queued"} \cup Resolved \cup Running] /\ key[d] \in Keys
      /\ outcome \in [Dispatches -> Outcomes] /\ pc[d] \in Running
  BY <1>1 DEF Inv, TypeOK, Running
<1>3. Speaking[key[d]] = {d}
  BY <1>2, SpeaksAlone
<1>4. pc'[d] \notin Running /\ \A e \in Dispatches \ {d} : pc'[e] = pc[e]
  BY <1>1, <1>2 DEF Ends, Running
<1>5. Speaking' = [Speaking EXCEPT ![key[d]] = {}]
  <2>1. \A e \in Dispatches : pc[e] \in Running /\ key[e] = key[d] => e = d
    BY <1>2, <1>3 DEF Speaking
  <2> QED BY <1>1, <1>2, <1>4, <2>1 DEF Speaking
<1>6. Dispatched' = Dispatched \cup {d}
  BY <1>1, <1>2 DEF Ends, Dispatched
<1>7. Talk!Calling(key[d]) => Talk!Place(key[d]) \in cut
  BY <1>1 DEF Talk!Calling, Talk!LastWord, Talk!Place, TalkInv, LastWords
<1>8. Talk!Close(key[d])
  BY <1>1, <1>3, <1>5, <1>6, <1>7 DEF Talk!Close
<1> QED BY <1>2, <1>8 DEF Talk!Next

\* The crash ends every open turn, and cuts the calls that were being run.
LEMMA CrashTalks ==
  ASSUME Inv, CallsInv, TalkInv, Crash
  PROVE  Talk!Next
<1> DEFINE Busy == {e \in Dispatches : pc[e] = "tools"}
           Lost == {<<key[d], Len(stored[key[d]])>> : d \in Busy}
           Calls == {Talk!Place(k) : k \in {s \in Keys : Talk!Calling(s)}}
<1>1. /\ \A d \in Dispatches : pc'[d] = "idle"
      /\ cut' = cut \cup Lost /\ UNCHANGED <<stored, outcome>>
  BY DEF Crash, store
<1>2. Speaking' = [k \in Keys |-> {}] /\ Dispatched' = Dispatched
  BY <1>1 DEF Speaking, Dispatched, Running
<1>3. \A d \in Busy : Talk!Calling(key[d]) /\ key[d] \in Keys
  BY CallsLast
<1>4. Lost \subseteq Calls
  BY <1>3 DEF Talk!Place
<1>5. \A k \in Keys : Talk!Calling(k) => Talk!Place(k) \in cut \cup Lost
  <2> SUFFICES ASSUME NEW k \in Keys, Talk!Calling(k)
               PROVE  Talk!Place(k) \in cut \cup Lost
    OBVIOUS
  <2>1. PICK d \in Dispatches : key[d] = k /\ pc[d] \in Running
    BY DEF Talk!Calling, Speaking
  <2>2. stored[k][Len(stored[k])].kind = "calls"
    BY DEF Talk!Calling, Talk!LastWord
  <2>3. pc[d] # "asking"
    BY <2>1, <2>2 DEF TalkInv, LastWords
  <2>4. CASE pc[d] = "tools"
    BY <2>1, <2>4 DEF Talk!Place
  <2>5. CASE pc[d] = "ending"
    BY <2>1, <2>2, <2>5 DEF Talk!Place, TalkInv, LastWords
  <2> QED BY <2>1, <2>3, <2>4, <2>5 DEF Running
<1>6. cut' = cut \cup Calls
  BY <1>1, <1>4, <1>5
<1>7. Talk!Crash
  BY <1>1, <1>2, <1>6 DEF Talk!Crash
<1> QED BY <1>7 DEF Talk!Next

\* The steps inside runAgent.
LEMMA TurnTalks ==
  ASSUME Inv, CallsInv, TalkInv, NEW d \in Dispatches, Turn(d)
  PROVE  TalkInv' /\ (Talk!Next \/ UNCHANGED Talk!vars)
<1>1. pc \in [Dispatches -> {"idle", "queued"} \cup Resolved \cup Running]
  BY DEF Inv, TypeOK
<1>2. CASE Begin(d)
  BY <1>2, BeginTalks
<1>3. CASE ProviderFails(d)
  <2>1. /\ pc[d] = "asking" /\ pc' = [pc EXCEPT ![d] = "ending"]
        /\ UNCHANGED <<key, stored, cut, outcome>>
    BY <1>3 DEF ProviderFails, store
  <2>2. outcome[d] = "none"
    BY <2>1 DEF TalkInv, Unsettled, InFlight
  <2>3. UNCHANGED Talk!vars
    BY <1>1, <2>1, Unheard DEF Running
  <2> QED BY <2>1, <2>2, <2>3, TalkMoves
<1>4. CASE Answer(d)
  <2>1. /\ pc[d] = "asking" /\ pc' = [pc EXCEPT ![d] = "ending"]
        /\ Appends(d, Message(d, "text", 0)) /\ UNCHANGED <<key, cut, outcome>>
    BY <1>4 DEF Answer
  <2>2. 0 \in 0 .. MaxBlocks
    BY BoundsAreNumbers
  <2> QED BY <2>1, <2>2, ResponseTalks
<1>5. ASSUME NEW n \in 1 .. MaxBlocks, Ask(d, n) PROVE TalkInv' /\ Talk!Next
  <2>1. n \in 0 .. MaxBlocks /\ n > 0
    BY BoundsAreNumbers
  <2> QED BY <1>5, <2>1, ResponseTalks DEF Ask
<1>6. CASE CutOff(d)
  BY <1>6, TalkCut, CutTalks
<1>7. CASE NextBlock(d)
  <2>1. UNCHANGED <<key, stored, cut, outcome, pc>>
    BY <1>7 DEF NextBlock, store
  <2>2. Unsettled'
    BY <2>1 DEF TalkInv, Unsettled, InFlight
  <2> QED BY <2>1, <2>2, TalkQuiet, Unheard
<1>8. ASSUME NEW escalates \in BOOLEAN, LastBlock(d, escalates) PROVE TalkInv' /\ Talk!Next
  BY <1>8, ResultsTalk
<1>9. CASE Finish(d)
  BY <1>9, TalkEnds, FinishTalks DEF Finish, store
<1> QED BY <1>2, <1>3, <1>4, <1>5, <1>6, <1>7, <1>8, <1>9 DEF Turn

LEMMA TalkStep ==
  ASSUME Inv, CallsInv, TalkInv, [Next]_vars
  PROVE  TalkInv' /\ (Talk!Next \/ UNCHANGED Talk!vars)
<1> DEFINE Goal == TalkInv' /\ (Talk!Next \/ UNCHANGED Talk!vars)
<1>1. \A d \in Dispatches : pc[d] # "idle" => outcome[d] = "none"
  BY DEF TalkInv, Unsettled, InFlight
<1>2. {"found", "missed", "created", "queued"} \cap Running = {}
  BY DEF Running
<1>3. ASSUME NEW d \in Dispatches, Resolve(d) PROVE Goal
  <2>1. PICK v \in {"found", "missed"} : pc' = [pc EXCEPT ![d] = v]
    BY <1>3 DEF Resolve
  <2>2. /\ pc[d] \notin Running /\ outcome[d] = "none"
        /\ UNCHANGED <<key, stored, cut, outcome>>
    BY <1>3 DEF Resolve, store, Running
  <2> QED BY <1>2, <2>1, <2>2, TalkMoves, UnheardMove
<1>4. ASSUME NEW d \in Dispatches, Create(d) PROVE Goal
  <2>1. pc[d] = "missed" /\ pc[d] \notin Running /\ UNCHANGED <<key, stored, cut>>
    BY <1>2, <1>4 DEF Create
  <2>2. CASE pc' = [pc EXCEPT ![d] = "created"] /\ UNCHANGED outcome
    BY <1>1, <1>2, <2>1, <2>2, TalkMoves, UnheardMove
  <2>3. CASE Ends(d, "pin-taken")
    BY <2>1, <2>3, TalkEnds, UnheardEnd
  <2> QED BY <1>4, <2>2, <2>3 DEF Create
<1>5. ASSUME NEW d \in Dispatches, Refuse(d) PROVE Goal
  <2>1. /\ pc[d] \notin Running /\ pc[d] # "idle" /\ Ends(d, "circuit-open")
        /\ UNCHANGED <<key, stored, cut>>
    BY <1>2, <1>5 DEF Refuse, store
  <2> QED BY <2>1, TalkEnds, UnheardEnd
<1>6. ASSUME NEW d \in Dispatches, Enqueue(d) PROVE Goal
  <2>1. /\ pc[d] \notin Running /\ pc[d] # "idle" /\ pc' = [pc EXCEPT ![d] = "queued"]
        /\ UNCHANGED <<key, stored, cut, outcome>>
    BY <1>2, <1>6 DEF Enqueue, store
  <2> QED BY <1>1, <1>2, <2>1, TalkMoves, UnheardMove
<1>7. ASSUME NEW d \in Dispatches, Turn(d) PROVE Goal
  BY <1>7, TurnTalks
<1>8. CASE Crash
  BY <1>8, TalkCrash, CrashTalks
<1>9. CASE UNCHANGED vars
  <2>1. UNCHANGED <<key, stored, cut, outcome, pc>>
    BY <1>9 DEF vars, store, memory
  <2>2. Unsettled'
    BY <2>1 DEF TalkInv, Unsettled, InFlight
  <2> QED BY <2>1, <2>2, TalkQuiet, Unheard
<1> QED BY <1>3, <1>4, <1>5, <1>6, <1>7, <1>8, <1>9 DEF Next

\* Pinned sessions implement Conversation, for any number of events and keys and
\* all bounds: events that wait, are refused or fail, turns cut short and crashes
\* never make two turns of a session speak at once, rewrite what was said, give
\* results to other calls, or put an event again whose turn was closed.
THEOREM ConversationKept == Spec => KeepsConversation
<1> DEFINE Whole == Inv /\ CallsInv /\ TalkInv
<1>1. Init => Whole /\ Talk!Init
  <2>1. Init => Talk!Init
    BY DEF Init, Talk!Init, Speaking, Dispatched, Running
  <2> QED BY <2>1, InitInv, CallsInit, TalkInit
<1>2. Whole /\ [Next]_vars => Whole'
  BY StepInv, CallsStep, TalkStep
<1>3. Whole /\ [Next]_vars => [Talk!Next]_(Talk!vars)
  BY TalkStep
<1> QED BY <1>1, <1>2, <1>3, PTL DEF Spec, KeepsConversation, Talk!Spec

-----------------------------------------------------------------------------
(***************************************************************************)
(* The mailbox, for any number of processes, agents and messages and all     *)
(* bounds.  MailInv is the inductive invariant.  That a message is handed    *)
(* over once needs that an undisturbed drain returns what it tombstones      *)
(* (OneDrain) and that held messages are tombstoned (HeldIsDrained), so that *)
(* no later drain reads them.  The depth is true because the only sender has *)
(* an entry for every agent it has sent to (DepthTrue).  The two bounds are  *)
(* what TypeOK's ranges rest on.                                             *)
(***************************************************************************)

\* TypeOK, without the bounds on the counters of depth and deliveries.
Typed ==
  /\ row \in [Messages -> {"absent", "pending", "drained", "purged"}]
  /\ to \in [Messages -> Agents]
  /\ depth \in [Processes -> [Agents -> Nat \cup {Uncached}]]
  /\ selected \in [Processes -> SUBSET Messages]
  /\ draining \in [Processes -> SUBSET Agents]
  /\ batch \in [Processes -> SUBSET Messages]
  /\ delivered \in [Messages -> Nat]
  /\ writers \subseteq Processes /\ overlapped \in BOOLEAN
  /\ restarts \in 0 .. MaxRestarts /\ faults \in 0 .. MaxFaults

\* What a running drain has read was sent to its agent.
ReadIsSent    == \A p \in Processes : \A m \in selected[p] :
                   draining[p] = {to[m]} /\ row[m] # "absent"
DrainersWrite == \A p \in Processes : ~Mail!Free(p) => p \in writers
HeldIsDrained == \A m \in Messages : delivered[m] > 0 \/ Mail!Holders(m) # {} =>
                                       row[m] \in {"drained", "purged"}

\* A drain that no other process disturbs returns what it tombstones.
OneDrain ==
  ~overlapped => /\ \A p, q \in Processes : ~Mail!Free(p) /\ ~Mail!Free(q) => p = q
                 /\ \A p \in Processes, a \in Agents :
                      draining[p] = {a} => selected[p] = Mail!Pending(a)
OneHolder ==
  ~overlapped => \A m \in Messages :
                   /\ \A p, q \in Mail!Holders(m) : p = q
                   /\ delivered[m] > 0 => delivered[m] = 1 /\ Mail!Holders(m) = {}
NoneLost ==
  ~overlapped /\ restarts = 0 /\ faults = 0 =>
    \A m \in Mail!Sent : row[m] = "pending" \/ delivered[m] > 0 \/ Mail!Holders(m) # {}

\* The only sender has an entry for every agent it has sent to.
DepthTrue ==
  \A p \in Processes : writers \subseteq {p} /\ restarts = 0 =>
    \A a \in Agents : IF depth[p][a] = Uncached THEN Mail!Pending(a) = {}
                      ELSE depth[p][a] = Cardinality(Mail!Pending(a))

\* Why depth and deliveries are bounded: each message is sent once, and each
\* process has it in hand once.
Unsent      == {m \in Messages : row[m] = "absent"}
Touching(m) == {p \in Processes : m \in selected[p] \cup batch[p]}
DepthBounded ==
  \A p \in Processes, a \in Agents : depth[p][a] # Uncached =>
    depth[p][a] + Cardinality(Unsent) <= Cardinality(Messages)
DeliveryBounded ==
  \A m \in Messages : delivered[m] + Cardinality(Touching(m)) <= Cardinality(Processes)

MailInv == /\ Typed /\ ReadIsSent /\ DrainersWrite /\ HeldIsDrained
       /\ OneDrain /\ OneHolder /\ NoneLost
       /\ DepthTrue /\ DepthBounded /\ DeliveryBounded

-----------------------------------------------------------------------------
(* Finite sets of messages and processes                                     *)

\* The finite sets of the instance are those of this module.
LEMMA OneCardinality ==
  \A S : (Mail!IsFiniteSet(S) <=> IsFiniteSet(S)) /\ Mail!Cardinality(S) = Cardinality(S)
<1>1. \A S : Mail!IsFiniteSet(S) <=> IsFiniteSet(S)
  BY DEF Mail!IsFiniteSet, IsFiniteSet
<1>2. \A S : Mail!Cardinality(S) = Cardinality(S)
  BY DEF Mail!Cardinality, Cardinality
<1> QED BY <1>1, <1>2

LEMMA CountsAreNat ==
  ASSUME Mail!MailboxParameters
  PROVE  /\ \A S \in SUBSET Messages : IsFiniteSet(S) /\ Cardinality(S) \in Nat
                                       /\ Cardinality(S) <= Cardinality(Messages)
         /\ \A S \in SUBSET Processes : IsFiniteSet(S) /\ Cardinality(S) \in Nat
                                        /\ Cardinality(S) <= Cardinality(Processes)
<1> QED BY FS_Subset, FS_CardinalityType, OneCardinality DEF Mail!MailboxParameters

\* A message that was not counted adds one.
LEMMA Adds ==
  ASSUME Mail!MailboxParameters, NEW S \in SUBSET Messages, NEW m \in Messages, m \notin S
  PROVE  Cardinality(S \cup {m}) = Cardinality(S) + 1
<1> QED BY CountsAreNat, FS_AddElement

LEMMA TypedAndBoundedIsTypeOK ==
  ASSUME Mail!MailboxParameters, Typed, DepthBounded, DeliveryBounded PROVE Mail!TypeOK
<1>1. \A p \in Processes, a \in Agents :
        depth[p][a] \in 0 .. Cardinality(Messages) \cup {Uncached}
  <2> SUFFICES ASSUME NEW p \in Processes, NEW a \in Agents, depth[p][a] # Uncached
               PROVE  depth[p][a] \in 0 .. Cardinality(Messages)
    OBVIOUS
  <2>1. depth[p][a] \in Nat /\ Cardinality(Unsent) \in Nat /\ Cardinality(Messages) \in Nat
    BY CountsAreNat DEF Typed, Unsent
  <2> QED BY <2>1 DEF DepthBounded
<1>2. \A m \in Messages : delivered[m] \in 0 .. Cardinality(Processes)
  <2> SUFFICES ASSUME NEW m \in Messages PROVE delivered[m] \in 0 .. Cardinality(Processes)
    OBVIOUS
  <2>1. delivered[m] \in Nat /\ Cardinality(Touching(m)) \in Nat /\ Cardinality(Processes) \in Nat
    BY CountsAreNat DEF Typed, Touching
  <2> QED BY <2>1 DEF DeliveryBounded
<1> QED BY <1>1, <1>2, OneCardinality DEF Typed, Mail!TypeOK

-----------------------------------------------------------------------------
(* Each action keeps the invariant                                           *)

LEMMA MailInit == ASSUME Mail!MailboxParameters, Mail!Init PROVE MailInv
<1> USE DEF Mail!Init
<1>1. Typed
  <2>1. 0 \in 0 .. MaxRestarts /\ 0 \in 0 .. MaxFaults
    BY DEF Mail!MailboxParameters
  <2>2. depth \in [Processes -> [Agents -> Nat \cup {Uncached}]]
    OBVIOUS
  <2> QED BY <2>1, <2>2 DEF Typed
<1>2. ReadIsSent /\ DrainersWrite /\ HeldIsDrained /\ OneDrain /\ OneHolder /\ NoneLost
  <2>1. \A p \in Processes : Mail!Free(p) /\ selected[p] = {} /\ draining[p] = {}
    BY DEF Mail!Free
  <2>2. Mail!Sent = {} /\ \A m \in Messages : Mail!Holders(m) = {} /\ delivered[m] = 0
    BY DEF Mail!Sent, Mail!Holders
  <2>3. ReadIsSent /\ DrainersWrite
    BY <2>1 DEF ReadIsSent, DrainersWrite
  <2>4. HeldIsDrained /\ OneHolder /\ NoneLost
    BY <2>2 DEF HeldIsDrained, OneHolder, NoneLost
  <2>5. OneDrain
    BY <2>1 DEF OneDrain
  <2> QED BY <2>3, <2>4, <2>5
<1>3. DepthTrue /\ DepthBounded
  BY DEF DepthTrue, DepthBounded, Mail!Pending, Mail!Sent
<1>4. DeliveryBounded
  <2>1. \A m \in Messages : Touching(m) = {}
    BY DEF Touching
  <2>2. Cardinality({}) = 0 /\ Cardinality(Processes) \in Nat
    BY CountsAreNat, FS_EmptySet
  <2>3. \A m \in Messages : delivered[m] = 0
    OBVIOUS
  <2> HIDE DEF Mail!Init
  <2> QED BY <2>1, <2>2, <2>3 DEF DeliveryBounded
<1> QED BY <1>1, <1>2, <1>3, <1>4 DEF MailInv

LEMMA SendInv ==
  ASSUME Mail!MailboxParameters, MailInv, NEW p \in Processes, NEW m \in Messages, Mail!Send(p, m)
  PROVE  MailInv'
<1> USE DEF MailInv
<1>1. /\ draining[p] = {} /\ row[m] = "absent" /\ to[m] \in Agents
      /\ row' = [row EXCEPT ![m] = "pending"]
      /\ depth' = [depth EXCEPT ![p][to[m]] = IF @ = Uncached THEN 1 ELSE @ + 1]
      /\ writers' = writers \cup {p}
      /\ overlapped' = (overlapped \/ \E q \in Processes \ {p} : ~Mail!Free(q))
      /\ UNCHANGED <<to, selected, draining, batch, delivered, restarts, faults>>
  BY DEF Mail!Send, Mail!IncDepth, Mail!Writes, Mail!Free, Typed
<1>2. row'[m] = "pending" /\ \A n \in Messages \ {m} : row'[n] = row[n]
  BY <1>1 DEF Typed
<1>3. \A q \in Processes, a \in Agents :
        depth'[q][a] = IF q = p /\ a = to[m]
                       THEN (IF depth[q][a] = Uncached THEN 1 ELSE depth[q][a] + 1)
                       ELSE depth[q][a]
  BY <1>1 DEF Typed
<1>4. \A a \in Agents : Mail!Pending(a)' = IF a = to[m] THEN Mail!Pending(a) \cup {m} ELSE Mail!Pending(a)
  BY <1>1, <1>2 DEF Mail!Pending, Mail!Sent
<1>5. \A a \in Agents : m \notin Mail!Pending(a) /\ Mail!Pending(a) \in SUBSET Messages
  BY <1>1 DEF Mail!Pending, Mail!Sent
<1>6. Typed'
  <2>1. depth' \in [Processes -> [Agents -> Nat \cup {Uncached}]]
    BY <1>1 DEF Typed, Mail!MailboxParameters
  <2> QED BY <1>1, <2>1 DEF Typed
<1>7. ReadIsSent' /\ DrainersWrite'
  BY <1>1, <1>2 DEF ReadIsSent, DrainersWrite, Mail!Free, Typed
<1>8. HeldIsDrained' /\ OneHolder'
  BY <1>1, <1>2 DEF HeldIsDrained, OneHolder, Mail!Holders, Typed
<1>9. OneDrain'
  <2> SUFFICES ASSUME ~overlapped' PROVE OneDrain'
    BY DEF OneDrain
  <2>1. \A q \in Processes : draining[q] = {}
    BY <1>1 DEF Mail!Free
  <2> QED BY <1>1, <2>1 DEF OneDrain, Mail!Free
<1>10. NoneLost'
  BY <1>1, <1>2 DEF NoneLost, Mail!Sent, Mail!Holders, Typed
<1>11. DepthTrue'
  <2> SUFFICES ASSUME NEW q \in Processes, writers' \subseteq {q}, restarts = 0, NEW a \in Agents
               PROVE  IF depth'[q][a] = Uncached THEN Mail!Pending(a)' = {}
                      ELSE depth'[q][a] = Cardinality(Mail!Pending(a)')
    BY <1>1 DEF DepthTrue
  <2>1. q = p /\ writers \subseteq {q}
    BY <1>1
  <2>2. IF depth[q][a] = Uncached THEN Mail!Pending(a) = {} ELSE depth[q][a] = Cardinality(Mail!Pending(a))
    BY <2>1 DEF DepthTrue
  <2>3. CASE a # to[m]
    BY <1>3, <1>4, <2>2, <2>3
  <2>4. CASE a = to[m]
    <3>1. Cardinality(Mail!Pending(a)') = Cardinality(Mail!Pending(a)) + 1 /\ Cardinality(Mail!Pending(a)) \in Nat
      BY <1>4, <1>5, <2>4, Adds, CountsAreNat
    <3>2. depth[q][a] = Uncached => Cardinality(Mail!Pending(a)) = 0
      BY <2>2, FS_EmptySet
    <3>3. Uncached \notin Nat
      BY DEF Mail!MailboxParameters
    <3> QED BY <1>3, <2>1, <2>2, <2>4, <3>1, <3>2, <3>3
  <2> QED BY <2>3, <2>4
<1>12. DepthBounded'
  <2> SUFFICES ASSUME NEW q \in Processes, NEW a \in Agents, depth'[q][a] # Uncached
               PROVE  depth'[q][a] + Cardinality(Unsent') <= Cardinality(Messages)
    BY DEF DepthBounded
  <2>1. Unsent = Unsent' \cup {m} /\ m \notin Unsent' /\ Unsent' \in SUBSET Messages
    BY <1>1, <1>2 DEF Unsent
  <2>2. /\ Cardinality(Unsent) = Cardinality(Unsent') + 1 /\ Cardinality(Unsent') \in Nat
        /\ Cardinality(Unsent) <= Cardinality(Messages) /\ Cardinality(Messages) \in Nat
    BY <2>1, Adds, CountsAreNat
  <2>3. depth[q][a] \in Nat \cup {Uncached}
    BY DEF Typed
  <2> QED BY <1>3, <2>2, <2>3 DEF DepthBounded
<1>13. DeliveryBounded'
  BY <1>1 DEF DeliveryBounded, Touching
<1> QED BY <1>6, <1>7, <1>8, <1>9, <1>10, <1>11, <1>12, <1>13

LEMMA DepthInv ==
  ASSUME Mail!MailboxParameters, MailInv, NEW p \in Processes, NEW a \in Agents, Mail!Depth(p, a)
  PROVE  MailInv'
<1> USE DEF MailInv
<1>1. /\ depth' = [depth EXCEPT ![p][a] = Mail!Resolve(p, a)]
      /\ UNCHANGED <<row, to, writers, overlapped, selected, draining, batch, delivered, restarts, faults>>
  BY DEF Mail!Depth, Mail!queue, Mail!past
<1>2. \A b \in Agents : Mail!Pending(b)' = Mail!Pending(b) /\ Mail!Pending(b) \in SUBSET Messages
  BY <1>1 DEF Mail!Pending, Mail!Sent
<1>3. \A q \in Processes, b \in Agents :
        depth'[q][b] = IF q = p /\ b = a /\ depth[q][b] = Uncached
                       THEN Cardinality(Mail!Pending(b)) ELSE depth[q][b]
  BY <1>1, OneCardinality DEF Typed, Mail!Resolve
<1>4. Typed'
  <2>1. Mail!Resolve(p, a) \in Nat \cup {Uncached}
    BY <1>2, CountsAreNat, OneCardinality DEF Mail!Resolve, Typed
  <2> QED BY <1>1, <2>1 DEF Typed
<1>5. /\ ReadIsSent' /\ DrainersWrite' /\ HeldIsDrained' /\ OneDrain' /\ OneHolder'
      /\ NoneLost' /\ DeliveryBounded'
  BY <1>1, <1>2 DEF ReadIsSent, DrainersWrite, HeldIsDrained, OneDrain, OneHolder, NoneLost,
     DeliveryBounded, Mail!Holders, Mail!Free, Mail!Sent, Touching
<1>6. DepthTrue'
  <2> SUFFICES ASSUME NEW q \in Processes, writers \subseteq {q}, restarts = 0, NEW b \in Agents
               PROVE  IF depth'[q][b] = Uncached THEN Mail!Pending(b) = {}
                      ELSE depth'[q][b] = Cardinality(Mail!Pending(b))
    BY <1>1, <1>2 DEF DepthTrue
  <2> QED BY <1>3 DEF DepthTrue
<1>7. DepthBounded'
  <2> SUFFICES ASSUME NEW q \in Processes, NEW b \in Agents, depth'[q][b] # Uncached
               PROVE  depth'[q][b] + Cardinality(Unsent) <= Cardinality(Messages)
    BY <1>1 DEF DepthBounded, Unsent
  <2>1. Cardinality(Mail!Pending(b)) + Cardinality(Unsent) <= Cardinality(Messages)
    <3>1. Mail!Pending(b) \cap Unsent = {} /\ Mail!Pending(b) \cup Unsent \subseteq Messages
      BY DEF Mail!Pending, Mail!Sent, Unsent
    <3>2. IsFiniteSet(Mail!Pending(b)) /\ IsFiniteSet(Unsent)
      BY <3>1, CountsAreNat
    <3>3. Cardinality(Mail!Pending(b) \cup Unsent) =
            Cardinality(Mail!Pending(b)) + Cardinality(Unsent) - Cardinality(Mail!Pending(b) \cap Unsent)
      BY <3>2, FS_Union
    <3>4. Cardinality(Mail!Pending(b) \cap Unsent) = 0
      BY <3>1, FS_EmptySet
    <3>5. /\ Cardinality(Mail!Pending(b)) \in Nat /\ Cardinality(Unsent) \in Nat
          /\ Cardinality(Mail!Pending(b) \cup Unsent) <= Cardinality(Messages)
      BY <3>1, CountsAreNat
    <3> QED BY <3>3, <3>4, <3>5
  <2> QED BY <1>3, <2>1 DEF DepthBounded
<1> QED BY <1>4, <1>5, <1>6, <1>7

\* A pending message was never delivered, so reading it again keeps the bound.
LEMMA DrainSelectInv ==
  ASSUME Mail!MailboxParameters, MailInv, NEW p \in Processes, NEW a \in Agents, Mail!DrainSelect(p, a)
  PROVE  MailInv'
<1> USE DEF MailInv
<1>1. /\ draining[p] = {} /\ Mail!Pending(a) # {}
      /\ draining' = [draining EXCEPT ![p] = {a}]
      /\ selected' = [selected EXCEPT ![p] = Mail!Pending(a)]
      /\ writers' = writers \cup {p}
      /\ overlapped' = (overlapped \/ \E q \in Processes \ {p} : ~Mail!Free(q))
      /\ UNCHANGED <<row, to, depth, batch, delivered, restarts, faults>>
  BY DEF Mail!DrainSelect, Mail!Writes, Mail!Free, Mail!queue
<1>2. /\ selected'[p] = Mail!Pending(a) /\ draining'[p] = {a}
      /\ \A q \in Processes \ {p} : selected'[q] = selected[q] /\ draining'[q] = draining[q]
  BY <1>1 DEF Typed
<1>3. \A b \in Agents : Mail!Pending(b)' = Mail!Pending(b)
  BY <1>1 DEF Mail!Pending, Mail!Sent
<1>4. Typed'
  <2>1. Mail!Pending(a) \in SUBSET Messages
    BY DEF Mail!Pending, Mail!Sent
  <2> QED BY <1>1, <2>1 DEF Typed
<1>5. ReadIsSent' /\ DrainersWrite'
  BY <1>1, <1>2 DEF ReadIsSent, DrainersWrite, Mail!Free, Mail!Pending, Mail!Sent, Typed
<1>6. HeldIsDrained' /\ OneHolder' /\ NoneLost'
  <2>1. /\ UNCHANGED <<row, batch, delivered, restarts, faults>>
        /\ ~overlapped' => ~overlapped
    BY <1>1
  <2>2. Mail!Sent' = Mail!Sent /\ \A m \in Messages : Mail!Holders(m)' = Mail!Holders(m)
    BY <2>1 DEF Mail!Holders, Mail!Sent
  <2>3. HeldIsDrained'
    BY <2>1, <2>2 DEF HeldIsDrained
  <2>4. OneHolder'
    BY <2>1, <2>2 DEF OneHolder
  <2>5. NoneLost'
    BY <2>1, <2>2 DEF NoneLost, Mail!Sent
  <2> QED BY <2>3, <2>4, <2>5
<1>7. OneDrain'
  <2> SUFFICES ASSUME ~overlapped' PROVE OneDrain'
    BY DEF OneDrain
  <2>1. ~overlapped /\ \A q \in Processes \ {p} : draining[q] = {}
    BY <1>1 DEF Mail!Free
  <2> QED BY <1>2, <1>3, <2>1 DEF OneDrain, Mail!Free
<1>8. DepthTrue' /\ DepthBounded'
  BY <1>1, <1>3 DEF DepthTrue, DepthBounded, Unsent
<1>9. DeliveryBounded'
  <2> SUFFICES ASSUME NEW m \in Messages
               PROVE  delivered[m] + Cardinality(Touching(m)') <= Cardinality(Processes)
    BY <1>1 DEF DeliveryBounded
  <2>1. /\ delivered[m] \in Nat /\ Cardinality(Processes) \in Nat
        /\ Cardinality(Touching(m)') \in Nat
        /\ Cardinality(Touching(m)') <= Cardinality(Processes)
        /\ Touching(m)' \in SUBSET Processes
    BY CountsAreNat DEF Touching, Typed
  <2>2. CASE m \in Mail!Pending(a)
    <3>1. delivered[m] = 0
      BY <2>1, <2>2 DEF HeldIsDrained, Mail!Pending
    <3> QED BY <2>1, <3>1
  <2>3. CASE m \notin Mail!Pending(a)
    <3>1. Touching(m)' \in SUBSET Touching(m) /\ Touching(m) \in SUBSET Processes
      BY <1>1, <1>2, <2>3 DEF Touching
    <3>2. Cardinality(Touching(m)') <= Cardinality(Touching(m)) /\ Cardinality(Touching(m)) \in Nat
      BY <3>1, CountsAreNat, FS_Subset
    <3> QED BY <2>1, <3>2 DEF DeliveryBounded
  <2> QED BY <2>2, <2>3
<1> QED BY <1>4, <1>5, <1>6, <1>7, <1>8, <1>9

\* What an undisturbed drain tombstones was pending until now: nobody has it.
LEMMA DrainMarkInv ==
  ASSUME Mail!MailboxParameters, MailInv, NEW p \in Processes, NEW a \in Agents, Mail!DrainMark(p, a)
  PROVE  MailInv'
<1> USE DEF MailInv
<1>1. /\ draining[p] = {a}
      /\ row' = [m \in Messages |-> IF m \in Mail!Pending(a) THEN "drained" ELSE row[m]]
      /\ depth' = [depth EXCEPT ![p][a] = 0]
      /\ batch' = [batch EXCEPT ![p] = @ \cup selected[p]]
      /\ selected' = [selected EXCEPT ![p] = {}]
      /\ draining' = [draining EXCEPT ![p] = {}]
      /\ UNCHANGED <<to, writers, overlapped, delivered, restarts, faults>>
  BY DEF Mail!DrainMark, Mail!past
<1>2. \A m \in Messages : row'[m] = IF m \in Mail!Pending(a) THEN "drained" ELSE row[m]
  BY <1>1
<1>3. /\ batch'[p] = batch[p] \cup selected[p] /\ selected'[p] = {} /\ draining'[p] = {}
      /\ \A q \in Processes \ {p} : /\ batch'[q] = batch[q] /\ selected'[q] = selected[q]
                                    /\ draining'[q] = draining[q]
  BY <1>1 DEF Typed
<1>4. \A q \in Processes, b \in Agents :
        depth'[q][b] = IF q = p /\ b = a THEN 0 ELSE depth[q][b]
  BY <1>1 DEF Typed
<1>5. \A b \in Agents : Mail!Pending(b)' = IF b = a THEN {} ELSE Mail!Pending(b)
  BY <1>1, <1>2 DEF Mail!Pending, Mail!Sent
<1>6. \A m \in selected[p] : m \in Messages /\ to[m] = a /\ row[m] # "absent" /\ row'[m] \in {"drained", "purged"}
  BY <1>1, <1>2 DEF ReadIsSent, Mail!Pending, Mail!Sent, Typed
<1>7. Typed'
  <2>1. row' \in [Messages -> {"absent", "pending", "drained", "purged"}]
    BY <1>1 DEF Typed
  <2>2. depth' \in [Processes -> [Agents -> Nat \cup {Uncached}]]
    BY <1>1 DEF Typed
  <2>3. batch' \in [Processes -> SUBSET Messages]
    BY <1>1 DEF Typed
  <2> QED BY <1>1, <2>1, <2>2, <2>3 DEF Typed
<1>8. ReadIsSent' /\ DrainersWrite'
  BY <1>1, <1>2, <1>3 DEF ReadIsSent, DrainersWrite, Mail!Free, Mail!Pending, Mail!Sent, Typed
<1>9. \A m \in Messages : Mail!Holders(m)' = IF m \in selected[p] THEN Mail!Holders(m) \cup {p} ELSE Mail!Holders(m)
  BY <1>3 DEF Mail!Holders
<1>10. HeldIsDrained'
  <2> SUFFICES ASSUME NEW m \in Messages, delivered[m] > 0 \/ Mail!Holders(m)' # {}
               PROVE  row'[m] \in {"drained", "purged"}
    BY <1>1 DEF HeldIsDrained
  <2> QED BY <1>2, <1>6, <1>9 DEF HeldIsDrained
<1>11. OneDrain'
  <2> SUFFICES ASSUME ~overlapped PROVE OneDrain'
    BY <1>1 DEF OneDrain
  <2>1. \A q \in Processes : draining[q] # {} => q = p
    BY <1>1 DEF OneDrain, Mail!Free
  <2> QED BY <1>3, <2>1 DEF OneDrain, Mail!Free
<1>12. OneHolder' /\ NoneLost'
  <2> SUFFICES ASSUME ~overlapped PROVE OneHolder' /\ NoneLost'
    BY <1>1 DEF OneHolder, NoneLost
  <2>1. selected[p] = Mail!Pending(a)
    BY <1>1 DEF OneDrain
  <2>2. \A m \in selected[p] : delivered[m] = 0 /\ Mail!Holders(m) = {}
    <3> SUFFICES ASSUME NEW m \in selected[p] PROVE delivered[m] = 0 /\ Mail!Holders(m) = {}
      OBVIOUS
    <3>1. m \in Messages /\ row[m] = "pending" /\ delivered[m] \in Nat
      BY <2>1 DEF Mail!Pending, Mail!Sent, Typed
    <3> QED BY <3>1 DEF HeldIsDrained
  <2>3. OneHolder'
    BY <1>1, <1>9, <2>2 DEF OneHolder
  <2>4. NoneLost'
    <3> SUFFICES ASSUME restarts = 0, faults = 0, NEW m \in Messages, row'[m] # "absent"
                 PROVE  row'[m] = "pending" \/ delivered[m] > 0 \/ Mail!Holders(m)' # {}
      BY <1>1 DEF NoneLost, Mail!Sent
    <3> QED BY <1>2, <1>9, <2>1 DEF NoneLost, Mail!Sent
  <2> QED BY <2>3, <2>4
<1>13. DepthTrue'
  <2> SUFFICES ASSUME NEW q \in Processes, writers \subseteq {q}, restarts = 0, NEW b \in Agents
               PROVE  IF depth'[q][b] = Uncached THEN Mail!Pending(b)' = {}
                      ELSE depth'[q][b] = Cardinality(Mail!Pending(b)')
    BY <1>1 DEF DepthTrue
  <2>1. q = p
    BY <1>1 DEF DrainersWrite, Mail!Free
  <2>2. Cardinality({}) = 0
    BY FS_EmptySet
  <2>3. CASE b = a
    BY <1>4, <1>5, <2>1, <2>2, <2>3
  <2>4. CASE b # a
    BY <1>4, <1>5, <2>4 DEF DepthTrue
  <2> QED BY <2>3, <2>4
<1>14. DepthBounded'
  <2>1. Unsent' = Unsent
    BY <1>2 DEF Unsent, Mail!Pending, Mail!Sent
  <2>2. 0 + Cardinality(Unsent) <= Cardinality(Messages)
    BY CountsAreNat DEF Unsent
  <2> QED BY <1>4, <2>1, <2>2 DEF DepthBounded
<1>15. DeliveryBounded'
  <2>1. \A m \in Messages : Touching(m)' = Touching(m)
    BY <1>3 DEF Touching
  <2> QED BY <1>1, <2>1 DEF DeliveryBounded
<1> QED BY <1>7, <1>8, <1>10, <1>11, <1>12, <1>13, <1>14, <1>15

\* Whoever delivers has the message in hand and stops having it.
LEMMA DeliverInv ==
  ASSUME Mail!MailboxParameters, MailInv, NEW p \in Processes, NEW m \in Messages, Mail!Deliver(p, m)
  PROVE  MailInv'
<1> USE DEF MailInv
<1>1. /\ draining[p] = {} /\ m \in batch[p]
      /\ batch' = [batch EXCEPT ![p] = @ \ {m}]
      /\ delivered' = [delivered EXCEPT ![m] = @ + 1]
      /\ UNCHANGED <<row, to, writers, overlapped, depth, selected, draining, restarts, faults>>
  BY DEF Mail!Deliver, Mail!Free, Mail!queue, Mail!past
<1>2. /\ delivered'[m] = delivered[m] + 1 /\ delivered[m] \in Nat
      /\ \A n \in Messages \ {m} : delivered'[n] = delivered[n]
  BY <1>1 DEF Typed
<1>3. Mail!Holders(m)' = Mail!Holders(m) \ {p} /\ \A n \in Messages \ {m} : Mail!Holders(n)' = Mail!Holders(n)
  BY <1>1 DEF Mail!Holders, Typed
<1>4. p \in Mail!Holders(m)
  BY <1>1 DEF Mail!Holders
<1>5. Typed'
  BY <1>1 DEF Typed
<1>6. ReadIsSent' /\ DrainersWrite' /\ OneDrain' /\ DepthTrue' /\ DepthBounded'
  BY <1>1 DEF ReadIsSent, DrainersWrite, OneDrain, DepthTrue, DepthBounded, Mail!Free, Mail!Pending, Mail!Sent, Unsent
<1>7. HeldIsDrained'
  BY <1>1, <1>2, <1>3, <1>4 DEF HeldIsDrained
<1>8. OneHolder'
  <2> SUFFICES ASSUME ~overlapped PROVE OneHolder'
    BY <1>1 DEF OneHolder
  <2>1. delivered[m] = 0 /\ Mail!Holders(m) = {p}
    BY <1>2, <1>4 DEF OneHolder
  <2> QED BY <1>2, <1>3, <2>1 DEF OneHolder
<1>9. NoneLost'
  BY <1>1, <1>2, <1>3 DEF NoneLost, Mail!Sent
<1>10. DeliveryBounded'
  <2> SUFFICES ASSUME NEW n \in Messages
               PROVE  delivered'[n] + Cardinality(Touching(n)') <= Cardinality(Processes)
    BY DEF DeliveryBounded
  <2>1. CASE n # m
    <3>1. Touching(n)' = Touching(n)
      BY <1>1, <2>1 DEF Touching, Typed
    <3> QED BY <1>2, <2>1, <3>1 DEF DeliveryBounded
  <2>2. CASE n = m
    <3>1. selected[p] = {}
      BY <1>1 DEF ReadIsSent, Typed
    <3>2. Touching(m)' = Touching(m) \ {p} /\ p \in Touching(m)
      BY <1>1, <3>1 DEF Touching, Typed
    <3>3. IsFiniteSet(Touching(m)) /\ Cardinality(Touching(m)) \in Nat
      BY CountsAreNat DEF Touching
    <3>4. Cardinality(Touching(m)') = Cardinality(Touching(m)) - 1
      BY <3>2, <3>3, FS_RemoveElement
    <3>5. Cardinality(Processes) \in Nat
      BY CountsAreNat
    <3> QED BY <1>2, <2>2, <3>3, <3>4, <3>5 DEF DeliveryBounded
  <2> QED BY <2>1, <2>2
<1> QED BY <1>5, <1>6, <1>7, <1>8, <1>9, <1>10

\* A turn that loses what it had in hand takes nothing from anybody.
LEMMA Drops ==
  ASSUME Mail!MailboxParameters, Typed, DeliveryBounded, HeldIsDrained, OneHolder,
         NEW p \in Processes, UNCHANGED <<row, overlapped, delivered>>,
         batch' = [batch EXCEPT ![p] = {}],
         selected' = selected \/ selected' = [selected EXCEPT ![p] = {}]
  PROVE  DeliveryBounded' /\ HeldIsDrained' /\ OneHolder'
<1>1. \A m \in Messages : Mail!Holders(m)' = Mail!Holders(m) \ {p}
  BY DEF Mail!Holders, Typed
<1>2. HeldIsDrained' /\ OneHolder'
  BY <1>1 DEF HeldIsDrained, OneHolder
<1>3. DeliveryBounded'
  <2> SUFFICES ASSUME NEW m \in Messages
               PROVE  delivered[m] + Cardinality(Touching(m)') <= Cardinality(Processes)
    BY DEF DeliveryBounded
  <2>1. Touching(m)' \in SUBSET Touching(m) /\ Touching(m) \in SUBSET Processes
    BY DEF Touching, Typed
  <2>2. /\ Cardinality(Touching(m)') <= Cardinality(Touching(m))
        /\ Cardinality(Touching(m)) \in Nat /\ Cardinality(Touching(m)') \in Nat
    BY <2>1, CountsAreNat, FS_Subset
  <2>3. delivered[m] \in Nat /\ Cardinality(Processes) \in Nat
    BY CountsAreNat DEF Typed
  <2> QED BY <2>2, <2>3 DEF DeliveryBounded
<1> QED BY <1>2, <1>3

LEMMA DeliverThrowsInv ==
  ASSUME Mail!MailboxParameters, MailInv, NEW p \in Processes, Mail!DeliverThrows(p)
  PROVE  MailInv'
<1> USE DEF MailInv
<1>1. /\ faults < MaxFaults /\ faults' = faults + 1
      /\ batch' = [batch EXCEPT ![p] = {}]
      /\ UNCHANGED <<row, to, writers, overlapped, depth, selected, draining, delivered, restarts>>
  BY DEF Mail!DeliverThrows, Mail!queue, Mail!past
<1>2. Typed'
  BY <1>1 DEF Typed, Mail!MailboxParameters
<1>3. ReadIsSent' /\ DrainersWrite'
  BY <1>1 DEF ReadIsSent, DrainersWrite, Mail!Free
<1>6. \A a \in Agents : Mail!Pending(a)' = Mail!Pending(a)
  BY <1>1 DEF Mail!Pending, Mail!Sent
<1>7. OneDrain' /\ DepthTrue' /\ DepthBounded'
  BY <1>1, <1>6 DEF OneDrain, DepthTrue, DepthBounded, Mail!Free, Unsent
<1>4. NoneLost'
  BY <1>1 DEF NoneLost, Typed, Mail!MailboxParameters
<1>5. DeliveryBounded' /\ HeldIsDrained' /\ OneHolder'
  BY <1>1, Drops
<1> QED BY <1>2, <1>3, <1>4, <1>5, <1>7

LEMMA VacuumInv ==
  ASSUME Mail!MailboxParameters, MailInv, NEW m \in Messages, Mail!Vacuum(m)
  PROVE  MailInv'
<1> USE DEF MailInv
<1>1. /\ row[m] = "drained" /\ row' = [row EXCEPT ![m] = "purged"]
      /\ UNCHANGED <<to, writers, overlapped, depth, selected, draining, batch, delivered,
                     restarts, faults>>
  BY DEF Mail!Vacuum, Mail!past
<1>2. row'[m] = "purged" /\ \A n \in Messages \ {m} : row'[n] = row[n]
  BY <1>1 DEF Typed
<1>3. \A a \in Agents : Mail!Pending(a)' = Mail!Pending(a)
  BY <1>1, <1>2 DEF Mail!Pending, Mail!Sent
<1>4. Mail!Sent' = Mail!Sent /\ Unsent' = Unsent
  BY <1>1, <1>2 DEF Mail!Sent, Unsent
<1>5. Typed'
  BY <1>1 DEF Typed
<1>6. ReadIsSent' /\ DrainersWrite' /\ OneDrain' /\ DepthTrue' /\ DepthBounded'
  BY <1>1, <1>2, <1>3, <1>4
  DEF ReadIsSent, DrainersWrite, OneDrain, DepthTrue, DepthBounded, Mail!Free, Typed
<1>7. HeldIsDrained' /\ OneHolder' /\ DeliveryBounded'
  BY <1>1, <1>2 DEF HeldIsDrained, OneHolder, DeliveryBounded, Mail!Holders, Touching
<1>8. NoneLost'
  BY <1>1, <1>2, <1>4 DEF NoneLost, Mail!Sent, Mail!Holders
<1> QED BY <1>5, <1>6, <1>7, <1>8

LEMMA RestartInv ==
  ASSUME Mail!MailboxParameters, MailInv, NEW p \in Processes, Mail!Restart(p)
  PROVE  MailInv'
<1> USE DEF MailInv
<1>1. /\ restarts < MaxRestarts /\ restarts' = restarts + 1
      /\ depth' = [depth EXCEPT ![p] = [a \in Agents |-> Uncached]]
      /\ selected' = [selected EXCEPT ![p] = {}]
      /\ draining' = [draining EXCEPT ![p] = {}]
      /\ batch' = [batch EXCEPT ![p] = {}]
      /\ UNCHANGED <<row, to, writers, overlapped, delivered, faults>>
  BY DEF Mail!Restart, Mail!queue, Mail!past
<1>2. restarts' # 0 /\ restarts' \in 0 .. MaxRestarts
  BY <1>1 DEF Typed, Mail!MailboxParameters
<1>3. Typed'
  BY <1>1, <1>2 DEF Typed
<1>4. \A q \in Processes : /\ selected'[q] = IF q = p THEN {} ELSE selected[q]
                           /\ draining'[q] = IF q = p THEN {} ELSE draining[q]
  BY <1>1 DEF Typed
<1>5. \A q \in Processes, a \in Agents :
        depth'[q][a] = IF q = p THEN Uncached ELSE depth[q][a]
  BY <1>1 DEF Typed
<1>6. ReadIsSent' /\ DrainersWrite' /\ OneDrain'
  BY <1>1, <1>4 DEF ReadIsSent, DrainersWrite, OneDrain, Mail!Free, Mail!Pending, Mail!Sent
<1>7. DepthTrue' /\ NoneLost'
  BY <1>2 DEF DepthTrue, NoneLost
<1>8. DepthBounded'
  BY <1>1, <1>5 DEF DepthBounded, Unsent
<1>9. DeliveryBounded' /\ HeldIsDrained' /\ OneHolder'
  BY <1>1, Drops
<1> QED BY <1>3, <1>6, <1>7, <1>8, <1>9

LEMMA MailStutter == ASSUME MailInv, UNCHANGED Mail!vars PROVE MailInv'
<1>1. UNCHANGED <<row, to, depth, selected, draining, batch, delivered, writers, overlapped,
                  restarts, faults>>
  BY DEF Mail!vars, Mail!queue, Mail!past
<1>2. Typed' /\ ReadIsSent' /\ DrainersWrite' /\ HeldIsDrained'
  BY <1>1 DEF MailInv, Typed, ReadIsSent, DrainersWrite, HeldIsDrained, Mail!Holders, Mail!Free
<1>3. OneDrain' /\ OneHolder' /\ NoneLost'
  BY <1>1 DEF MailInv, OneDrain, OneHolder, NoneLost, Mail!Holders, Mail!Pending, Mail!Sent, Mail!Free
<1>4. DepthTrue' /\ DepthBounded' /\ DeliveryBounded'
  BY <1>1 DEF MailInv, DepthTrue, DepthBounded, DeliveryBounded, Touching, Unsent, Mail!Pending, Mail!Sent
<1> QED BY <1>2, <1>3, <1>4 DEF MailInv

LEMMA MailStep == ASSUME Mail!MailboxParameters, MailInv, [Mail!Next]_(Mail!vars) PROVE MailInv'
<1>1. ASSUME NEW p \in Processes, NEW m \in Messages, Mail!Send(p, m) PROVE MailInv'
  BY <1>1, SendInv
<1>2. ASSUME NEW p \in Processes, NEW m \in Messages, Mail!Deliver(p, m) PROVE MailInv'
  BY <1>2, DeliverInv
<1>3. ASSUME NEW p \in Processes, NEW a \in Agents, Mail!Depth(p, a) PROVE MailInv'
  BY <1>3, DepthInv
<1>4. ASSUME NEW p \in Processes, NEW a \in Agents, Mail!DrainSelect(p, a) PROVE MailInv'
  BY <1>4, DrainSelectInv
<1>5. ASSUME NEW p \in Processes, NEW a \in Agents, Mail!DrainMark(p, a) PROVE MailInv'
  BY <1>5, DrainMarkInv
<1>6. ASSUME NEW p \in Processes, Mail!DeliverThrows(p) PROVE MailInv'
  BY <1>6, DeliverThrowsInv
<1>7. ASSUME NEW p \in Processes, Mail!Restart(p) PROVE MailInv'
  BY <1>7, RestartInv
<1>8. ASSUME NEW m \in Messages, Mail!Vacuum(m) PROVE MailInv'
  BY <1>8, VacuumInv
<1>9. ASSUME UNCHANGED Mail!vars PROVE MailInv'
  BY <1>9, MailStutter
<1> QED BY <1>1, <1>2, <1>3, <1>4, <1>5, <1>6, <1>7, <1>8, <1>9 DEF Mail!Next

LEMMA MailAlways == Mail!Spec => []MailInv
<1>1. Mail!Init => MailInv
  BY MailInit, TurnPartsAssumption
<1>2. MailInv /\ [Mail!Next]_(Mail!vars) => MailInv'
  BY MailStep, TurnPartsAssumption
<1> QED BY <1>1, <1>2, PTL DEF Mail!Spec

\* One holder or one delivery, not both.
LEMMA OnlyOne ==
  ASSUME Typed, HeldIsDrained, OneHolder, NoneLost PROVE Mail!HandedOverOnce
<1> SUFFICES ASSUME NEW m \in Mail!Sent
    PROVE  /\ delivered[m] > 0 \/ Mail!Holders(m) # {} => row[m] \in {"drained", "purged"}
           /\ ~overlapped => delivered[m] + Cardinality(Mail!Holders(m)) <= 1
           /\ ~overlapped /\ restarts = 0 /\ faults = 0 =>
                row[m] = "pending" \/ delivered[m] > 0 \/ Mail!Holders(m) # {}
  BY OneCardinality DEF Mail!HandedOverOnce
<1>1. m \in Messages /\ delivered[m] \in Nat
  BY DEF Mail!Sent, Typed
<1>2. ASSUME ~overlapped PROVE delivered[m] + Cardinality(Mail!Holders(m)) <= 1
  <2>1. CASE Mail!Holders(m) = {}
    <3>1. Cardinality(Mail!Holders(m)) = 0
      BY <2>1, FS_EmptySet
    <3>2. delivered[m] = 0 \/ delivered[m] = 1
      BY <1>1, <1>2 DEF OneHolder
    <3> QED BY <3>1, <3>2
  <2>2. CASE Mail!Holders(m) # {}
    <3>1. PICK p \in Mail!Holders(m) : TRUE
      BY <2>2
    <3>2. Mail!Holders(m) = {p}
      BY <1>1, <1>2, <3>1 DEF OneHolder
    <3>3. Cardinality(Mail!Holders(m)) = 1
      BY <3>2, FS_Singleton
    <3>4. delivered[m] = 0
      BY <1>1, <1>2, <2>2 DEF OneHolder
    <3> QED BY <3>3, <3>4
  <2> QED BY <2>1, <2>2
<1> QED BY <1>1, <1>2 DEF HeldIsDrained, NoneLost

LEMMA TrueDepthIsPending == ASSUME Typed, DepthTrue PROVE Mail!DepthIsPending
BY FS_EmptySet, OneCardinality DEF DepthTrue, Mail!DepthIsPending, Mail!Resolve

\* A message reaches one session at most, once, unless another process is in
\* the middle of a drain, and none is lost that nobody crashed with (send,
\* drainFor and vacuum of mailbox.ts, the drain of engine.ts).
THEOREM HandedOver == Mail!Spec => []HandedOverOnce
<1>1. MailInv => HandedOverOnce
  BY OnlyOne DEF MailInv, HandedOverOnce
<1> QED BY <1>1, MailAlways, PTL

\* depth() answers the number of pending rows for a process that does all the
\* sending and draining (incDepth, resolveDepth and drainFor).
THEOREM DepthInSync == Mail!Spec => []DepthIsPending
<1>1. MailInv => DepthIsPending
  BY TrueDepthIsPending DEF MailInv, DepthIsPending
<1> QED BY <1>1, MailAlways, PTL

-----------------------------------------------------------------------------
(* The two parts of a turn side by side                                      *)

LEMMA PartsInvariant == PartsSpec => [](Inv /\ MailInv)
<1>1. PartsInit => Inv /\ MailInv
  BY InitInv, MailInit, TurnPartsAssumption DEF PartsInit
<1>2. (Inv /\ MailInv) /\ [PartsNext]_<<part, vars, mailVars>> => (Inv /\ MailInv)'
  <2> SUFFICES ASSUME Inv, MailInv, [PartsNext]_<<part, vars, mailVars>> PROVE Inv' /\ MailInv'
    OBVIOUS
  <2>1. [Next]_vars
    BY DEF PartsNext
  <2>2. Mail!Next \/ UNCHANGED mailVars
    BY DEF PartsNext
  <2>3. UNCHANGED mailVars => UNCHANGED Mail!vars
    BY DEF mailVars, Mail!vars, Mail!queue, Mail!past
  <2> QED BY <2>1, <2>2, <2>3, StepInv, MailStep, TurnPartsAssumption
<1> QED BY <1>1, <1>2, PTL DEF PartsSpec

\* Every variable of the sessions and of the mailbox has its type; a cached
\* depth never exceeds the number of messages, nor do deliveries the processes.
THEOREM PartsTyped == PartsSpec => []PartsTypeOK
<1>1. Inv /\ MailInv => PartsTypeOK
  BY TypedAndBoundedIsTypeOK, TurnPartsAssumption DEF Inv, MailInv, PartsTypeOK
<1> QED BY <1>1, PartsInvariant, PTL
=============================================================================
