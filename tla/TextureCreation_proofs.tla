------------------------ MODULE TextureCreation_proofs ------------------------
(***************************************************************************)
(* Proofs about TextureCreation, for any number of threads, of addresses   *)
(* and of wrappers.                                                        *)
(*                                                                         *)
(* A texture that exists is the game's, or one thread's that creates or    *)
(* destroys it (Apart, Kept). What a thread has in hand follows from where *)
(* it is (Hand). A record stands for a texture that somebody has been told *)
(* of, or for one that is still to be withdrawn (Told, Expected); a        *)
(* texture that is still being made has no record of its own yet, which is *)
(* why it may turn into the one behind a wrapper.                          *)
(*                                                                         *)
(* All but the totals need FallBackToManaged: without it a moved texture   *)
(* may come back from a retry without a wrapper.                           *)
(***************************************************************************)
EXTENDS TextureCreation, FiniteSetTheorems, TLAPS

Owning == {"wrap", "note", "hook", "forgetInner", "destroyed", "free"}
DyingSteps == {"forgetInner", "destroyed", "free"}
Owns(t, a)  == ptr[t] = a /\ pc[t] \in Owning
Intact(w)   == object[w] = "wrapper" /\ \A t \in Threads : pc[t] \in DyingSteps => ptr[t] # w

(* The state without the ledger's totals.                                  *)
Typed ==
  /\ object \in [Addresses -> Objects]
  /\ behind \in [Wrappers -> Places \cup {Nowhere}]
  /\ held \subseteq Addresses /\ overtaken \subseteq Addresses /\ strays \subseteq Places
  /\ hooked \in BOOLEAN
  /\ DOMAIN records \subseteq Addresses
  /\ \A a \in DOMAIN records : records[a] \in Records
  /\ pc \in [Threads -> {"idle"} \cup CreateSteps \cup ReleaseSteps]
  /\ want \in [Threads -> AllRequests]
  /\ pool \in [Threads -> Pools]
  /\ overridden \in [Threads -> BOOLEAN]
  /\ attempt \in [Threads -> 0..3]
  /\ ptr \in [Threads -> Addresses \cup {Nowhere}]

(* Wrappers and textures are in memories of their own.                     *)
Memories ==
  /\ \A a \in Places : object[a] # "wrapper"
  /\ \A w \in Wrappers : object[w] \in {"free", "wrapper"}

(* The request, and the pool in effect.                                    *)
Asked(t) ==
  /\ overridden[t] => Relocates(want[t]) /\ pool[t] = "default"
  /\ ~overridden[t] => pool[t] = "managed"
  /\ pc[t] = "retry" => ~overridden[t]
  /\ pc[t] \in {"retry", "fallBack", "hook"} => want[t] # "cube"
  /\ pc[t] \in {"wrap", "forgetUnwrapped"} => overridden[t]

(* What a thread has in hand.                                              *)
Hand(t) ==
  /\ pc[t] = "wrap" => ptr[t] \in Places /\ object[ptr[t]] = "default"
  /\ pc[t] = "note" => /\ ptr[t] \in Addresses
                       /\ object[ptr[t]] = IF overridden[t] THEN "wrapper"
                                           ELSE IF want[t] = "cube" THEN "cube" ELSE "managed"
  /\ pc[t] = "hook" => ptr[t] \in Places /\ object[ptr[t]] = "managed"
  /\ pc[t] \in DyingSteps => /\ ptr[t] \in Wrappers /\ object[ptr[t]] = "wrapper"
                             /\ behind[ptr[t]] \in Places
  /\ pc[t] \in {"forget", "forgetUnwrapped"} => ptr[t] \in Places

Apart ==
  /\ \A t \in Threads, a \in held : ~Owns(t, a)
  /\ \A t, u \in Threads : \A a \in Addresses : Owns(t, a) /\ Owns(u, a) => t = u

HeldWell == \A a \in held : /\ object[a] \in {"managed", "cube", "wrapper"}
                            /\ object[a] = "managed" => hooked

Kept ==
  \A a \in Addresses : object[a] \in Bare \cup {"wrapper"} =>
    a \in held \/ \E t \in Threads : Owns(t, a)

(* A wrapper that nobody destroys has its texture, and that is its alone.  *)
Wrapping ==
  /\ \A w \in Wrappers : Intact(w) => behind[w] \in Places /\ object[behind[w]] = "inner"
  /\ \A v, w \in Wrappers : Intact(v) /\ Intact(w) /\ behind[v] = behind[w] => v = w
  /\ \A a \in Places : object[a] = "inner" => \E w \in Wrappers : Intact(w) /\ behind[w] = a

(* The game has the texture, or is about to get it.                        *)
Told(a) == a \in held \/ \E t \in Threads : pc[t] = "hook" /\ ptr[t] = a
RightRecord(a) ==
  /\ Counts(records, a)
  /\ records[a] = IF object[a] = "wrapper" THEN Record("default", TRUE) ELSE Record("managed", FALSE)
Counted  == \A a \in Addresses : Told(a) /\ a \notin overtaken => RightRecord(a)
Expected == \A a \in DOMAIN records :
              Told(a) \/ a \in strays \/ \E t \in Threads : Withdraws(t, a)

Inv == /\ Typed /\ Memories /\ Apart /\ HeldWell /\ Kept /\ Wrapping /\ Counted /\ Expected
       /\ \A t \in Threads : Asked(t) /\ Hand(t)

(* The step is thread t's.                                                 *)
Only(t) ==
  \A u \in Threads \ {t} : /\ pc'[u] = pc[u] /\ ptr'[u] = ptr[u] /\ want'[u] = want[u]
                           /\ pool'[u] = pool[u] /\ overridden'[u] = overridden[u]

LEMMA InvInit == Init => Inv
<1> SUFFICES ASSUME Init PROVE Inv
  OBVIOUS
<1> USE CreationAssumption
<1>1. /\ held = {} /\ DOMAIN records = {} /\ \A a \in Addresses : object[a] = "free"
      /\ \A t \in Threads : pc[t] = "idle" /\ pool[t] = "managed" /\ overridden[t] = FALSE
  BY DEF Init
<1>2. Typed
  <2>1. object \in [Addresses -> Objects] /\ behind \in [Wrappers -> Places \cup {Nowhere}]
    BY DEF Init, Objects
  <2>2. /\ pc \in [Threads -> {"idle"} \cup CreateSteps \cup ReleaseSteps]
        /\ want \in [Threads -> AllRequests] /\ pool \in [Threads -> Pools]
    BY DEF Init, AllRequests, Pools
  <2>3. overridden \in [Threads -> BOOLEAN] /\ hooked \in BOOLEAN
    BY DEF Init
  <2>4. attempt \in [Threads -> 0..3] /\ ptr \in [Threads -> Addresses \cup {Nowhere}]
    BY DEF Init
  <2> QED
    BY <1>1, <2>1, <2>2, <2>3, <2>4 DEF Init, Typed
<1>3. Memories /\ HeldWell /\ Kept
  BY <1>1 DEF Memories, HeldWell, Kept, Bare, Addresses
<1>4. Apart
  BY <1>1 DEF Apart, Owns, Owning
<1>5. Wrapping
  BY <1>1 DEF Wrapping, Intact, Addresses
<1>6. Counted /\ Expected
  BY <1>1 DEF Counted, Expected, Told
<1>7. \A t \in Threads : Asked(t) /\ Hand(t)
  BY <1>1 DEF Asked, Hand, DyingSteps
<1> QED
  BY <1>2, <1>3, <1>4, <1>5, <1>6, <1>7 DEF Inv

-----------------------------------------------------------------------------
(* Types, and the request of the thread that moves                         *)

LEMMA MovesTyped ==
  ASSUME Typed, NEW t \in Threads, NEW from, NEW to \in {"idle"} \cup CreateSteps \cup ReleaseSteps,
         Goto(t, from, to)
  PROVE  /\ pc' \in [Threads -> {"idle"} \cup CreateSteps \cup ReleaseSteps]
         /\ pc[t] = from /\ pc'[t] = to /\ \A u \in Threads \ {t} : pc'[u] = pc[u]
BY DEF Typed, Goto

LEMMA AfterFailureStep ==
  ASSUME NEW t \in Threads
  PROVE  AfterFailure(t) \in {"idle", "fallBack", "retry"}
BY DEF AfterFailure

(* What may be left or reached without having a texture in hand.           *)
Calm == {"idle", "create", "fallBack", "retry"}

(* A thread that only goes on with its call.                               *)
LEMMA CalmKeeps ==
  ASSUME Inv, NEW t \in Threads, Only(t), pc[t] \in Calm, pc'[t] \in Calm, Typed', Asked(t)',
         UNCHANGED <<object, behind, held, hooked, records, overtaken, strays>>
  PROVE  Inv'
<1>1. \A u \in Threads : \A a : Owns(u, a)' = Owns(u, a)
  BY DEF Only, Owns, Owning, Calm
<1>2. \A w : Intact(w)' = Intact(w)
  BY DEF Only, Intact, DyingSteps, Calm
<1>3. \A a : Told(a)' = Told(a)
  BY DEF Only, Told, Calm
<1>4. \A u \in Threads : \A a : Withdraws(u, a)' = Withdraws(u, a)
  BY DEF Only, Withdraws, Calm
<1>5. Memories' /\ HeldWell' /\ Apart' /\ Kept'
  BY <1>1 DEF Inv, Memories, HeldWell, Apart, Kept
<1>6. Wrapping'
  BY <1>2 DEF Inv, Wrapping
<1>7. Counted'
  BY <1>3 DEF Inv, Counted, RightRecord, Counts
<1>8. Expected'
  BY <1>3, <1>4 DEF Inv, Expected
<1>9. ASSUME NEW u \in Threads PROVE Asked(u)' /\ Hand(u)'
  <2>1. CASE u = t
    BY <2>1 DEF Hand, Calm, DyingSteps
  <2>2. CASE u # t
    BY <2>2 DEF Only, Inv, Asked, Hand
  <2> QED
    BY <2>1, <2>2
<1> QED
  BY <1>5, <1>6, <1>7, <1>8, <1>9 DEF Inv

LEMMA RequestKeeps ==
  ASSUME Inv, NEW t \in Threads, Request(t)
  PROVE  Inv'
<1> USE CreationAssumption
<1>1. PICK r \in Requests :
        /\ want' = [want EXCEPT ![t] = r]
        /\ overridden' = [overridden EXCEPT ![t] = Relocates(r)]
        /\ pool' = [pool EXCEPT ![t] = IF Relocates(r) THEN "default" ELSE "managed"]
  BY DEF Request
<1>2. /\ pc[t] = "idle" /\ pc'[t] = "create" /\ pc' \in [Threads -> {"idle"} \cup CreateSteps \cup ReleaseSteps]
      /\ \A u \in Threads \ {t} : pc'[u] = pc[u]
  BY MovesTyped DEF Inv, Request, CreateSteps
<1>3. Relocates(r) \in BOOLEAN /\ r \in AllRequests
  BY DEF Relocates
<1>4. Typed'
  <2>1. want' \in [Threads -> AllRequests] /\ pool' \in [Threads -> Pools]
    BY <1>1, <1>3 DEF Inv, Typed, Pools
  <2>2. overridden' \in [Threads -> BOOLEAN]
    BY <1>1, <1>3 DEF Inv, Typed
  <2>3. attempt' \in [Threads -> 0..3] /\ ptr' \in [Threads -> Addresses \cup {Nowhere}]
    BY DEF Inv, Typed, Request
  <2> QED
    BY <1>2, <2>1, <2>2, <2>3 DEF Inv, Typed, Request, memory, ledger, history
<1>5. want'[t] = r /\ overridden'[t] = Relocates(r) /\ pool'[t] = IF Relocates(r) THEN "default" ELSE "managed"
  BY <1>1 DEF Inv, Typed
<1>6. Asked(t)'
  BY <1>2, <1>3, <1>5 DEF Asked, Relocates
<1>7. Only(t)
  BY <1>1, <1>2 DEF Only, Inv, Typed, Request
<1> QED
  BY <1>2, <1>4, <1>6, <1>7, CalmKeeps DEF Request, Calm, memory, ledger, history

(* A create that failed and was moved tries MANAGED next.                  *)
LEMMA AfterFailureAsked ==
  ASSUME FallBackToManaged, NEW t \in Threads, Asked(t), AfterFailure(t) # "idle"
  PROVE  /\ AfterFailure(t) = "retry" => ~overridden[t]
         /\ want[t] # "cube"
BY DEF AfterFailure, MayFallBack, Asked

LEMMA CreateFailsKeeps ==
  ASSUME FallBackToManaged, Inv, NEW t \in Threads, CreateFails(t)
  PROVE  Inv'
<1>1. /\ pc[t] = "create" /\ pc'[t] = AfterFailure(t) /\ pc' \in [Threads -> {"idle"} \cup CreateSteps \cup ReleaseSteps]
      /\ \A u \in Threads \ {t} : pc'[u] = pc[u]
  BY MovesTyped, AfterFailureStep DEF Inv, CreateFails, CreateSteps
<1>2. Typed'
  BY <1>1 DEF Inv, Typed, CreateFails, memory, ledger, history, call
<1>3. Asked(t)'
  BY <1>1, AfterFailureAsked, AfterFailureStep DEF Inv, Asked, CreateFails, call
<1>4. Only(t)
  BY <1>1 DEF Only, CreateFails, call
<1> QED
  BY <1>1, <1>2, <1>3, <1>4, AfterFailureStep, CalmKeeps DEF CreateFails, Calm, memory, ledger, history

LEMMA FallBackFailsKeeps ==
  ASSUME Inv, NEW t \in Threads, FallBackFails(t)
  PROVE  Inv'
<1>1. /\ pc[t] = "fallBack" /\ pc'[t] = "retry" /\ pc' \in [Threads -> {"idle"} \cup CreateSteps \cup ReleaseSteps]
      /\ \A u \in Threads \ {t} : pc'[u] = pc[u]
  BY MovesTyped DEF Inv, FallBackFails, CreateSteps
<1>2. Typed'
  BY <1>1 DEF Inv, Typed, FallBackFails, InManaged, memory, ledger, history, Pools
<1>3. Asked(t)'
  BY <1>1 DEF Inv, Typed, Asked, FallBackFails, InManaged
<1>4. Only(t)
  BY <1>1 DEF Only, Inv, Typed, FallBackFails, InManaged
<1> QED
  BY <1>1, <1>2, <1>3, <1>4, CalmKeeps DEF FallBackFails, Calm, memory, ledger, history

LEMMA RetryFailsKeeps ==
  ASSUME Inv, NEW t \in Threads, RetryFails(t)
  PROVE  Inv'
<1>1. attempt' \in [Threads -> 0..3]
  <2>1. attempt[t] \in 0..3 /\ attempt[t] < 3
    BY DEF Inv, Typed, RetryFails
  <2>2. attempt[t] + 1 \in 0..3
    BY <2>1
  <2> QED
    BY <2>2 DEF RetryFails, Inv, Typed
<1>2. Typed'
  BY <1>1 DEF Inv, Typed, RetryFails, memory, ledger, history
<1>3. Asked(t)' /\ Only(t)
  BY DEF Inv, Asked, Only, RetryFails
<1> QED
  BY <1>2, <1>3, CalmKeeps DEF RetryFails, Calm, memory, ledger, history

LEMMA GiveUpKeeps ==
  ASSUME Inv, NEW t \in Threads, GiveUp(t)
  PROVE  Inv'
<1>1. /\ pc[t] = "retry" /\ pc'[t] = "idle" /\ pc' \in [Threads -> {"idle"} \cup CreateSteps \cup ReleaseSteps]
      /\ \A u \in Threads \ {t} : pc'[u] = pc[u]
  BY MovesTyped DEF Inv, GiveUp
<1>2. Typed'
  BY <1>1 DEF Inv, Typed, GiveUp, memory, ledger, history, call
<1>3. Asked(t)' /\ Only(t)
  BY <1>1 DEF Inv, Asked, Only, GiveUp, call
<1> QED
  BY <1>1, <1>2, <1>3, CalmKeeps DEF GiveUp, Calm, memory, ledger, history
-----------------------------------------------------------------------------
(* Creation                                                                *)

(* What a thread owns exists.                                              *)
LEMMA OwnedExists ==
  ASSUME Inv, NEW t \in Threads, NEW a, Owns(t, a)
  PROVE  /\ a \in Addresses /\ object[a] \in {"managed", "default", "cube", "wrapper"}
         /\ a \notin held
         /\ \A u \in Threads \ {t} : ~Owns(u, a)
<1>1. a \in Addresses /\ object[a] \in {"managed", "default", "cube", "wrapper"}
  <2>1. Hand(t) /\ pc[t] \in Owning /\ ptr[t] = a
    BY DEF Inv, Owns
  <2> QED
    BY <2>1 DEF Hand, Owning, DyingSteps, Addresses
<1> QED
  BY <1>1 DEF Inv, Apart

(* The game has what exists and what nobody else has.                      *)
LEMMA ToldExists ==
  ASSUME Inv, NEW a, Told(a)
  PROVE  /\ a \in Addresses /\ object[a] \in {"managed", "cube", "wrapper"}
BY DEF Told, Inv, HeldWell, Typed, Hand, Addresses

(* The driver makes a texture where there is nothing. What the ledger may  *)
(* hold for the address is not the new texture's.                          *)
LEMMA PlacedKeeps ==
  ASSUME Inv, NEW t \in Threads, Only(t), NEW a \in Places, NEW k \in {"managed", "default", "cube"},
         pc[t] \in Calm, pc'[t] \in {"wrap", "note"}, ptr'[t] = a,
         object[a] = "free", object' = [object EXCEPT ![a] = k],
         UNCHANGED <<behind, held, hooked, records, overtaken, strays>>,
         Typed', Asked(t)', Hand(t)'
  PROVE  Inv'
<1> USE CreationAssumption
<1>0. /\ object'[a] = k /\ (\A b \in Addresses \ {a} : object'[b] = object[b]) /\ a \in Addresses
      /\ a \notin Wrappers
  BY DEF Inv, Typed, Addresses
<1>1. \A u \in Threads : ~Owns(u, a)
  BY OwnedExists
<1>2. a \notin held /\ ~Told(a)
  BY ToldExists DEF Told
<1>3. \A u \in Threads : \A b : Owns(u, b)' <=> Owns(u, b) \/ (u = t /\ b = a)
  BY DEF Only, Owns, Owning, Calm
<1>4. \A w \in Wrappers : Intact(w)' = Intact(w)
  BY <1>0 DEF Only, Intact, DyingSteps, Calm, Addresses
<1>5. \A b : Told(b)' = Told(b)
  BY DEF Only, Told, Calm
<1>6. \A u \in Threads : \A b : Withdraws(u, b)' = Withdraws(u, b)
  BY DEF Only, Withdraws, Calm
<1>7. Memories'
  BY <1>0 DEF Inv, Memories, Addresses
<1>8. Apart'
  BY <1>1, <1>2, <1>3 DEF Inv, Apart
<1>9. HeldWell'
  BY <1>0, <1>2 DEF Inv, HeldWell, Typed
<1>10. Kept'
  BY <1>0, <1>3 DEF Inv, Kept
<1>11. Wrapping'
  BY <1>0, <1>4 DEF Inv, Wrapping, Addresses
<1>12. Counted'
  BY <1>0, <1>2, <1>5 DEF Inv, Counted, RightRecord, Counts
<1>13. Expected'
  BY <1>5, <1>6 DEF Inv, Expected
<1>14. ASSUME NEW u \in Threads PROVE Asked(u)' /\ Hand(u)'
  <2>1. CASE u # t
    <3>1. Asked(u)'
      BY <2>1 DEF Only, Inv, Asked
    <3>2. pc[u] \in Owning => ptr[u] # a
      BY <1>1 DEF Owns
    <3>3. Hand(u) /\ pc'[u] = pc[u] /\ ptr'[u] = ptr[u] /\ want'[u] = want[u] /\ overridden'[u] = overridden[u]
      BY <2>1 DEF Only, Inv
    <3>4. Hand(u)'
      BY <1>0, <3>2, <3>3 DEF Hand, Owning, DyingSteps, Addresses
    <3> QED
      BY <3>1, <3>4
  <2> QED
    BY <2>1
<1> QED
  BY <1>7, <1>8, <1>9, <1>10, <1>11, <1>12, <1>13, <1>14 DEF Inv
LEMMA CreateKeeps ==
  ASSUME Inv, NEW t \in Threads, Create(t)
  PROVE  Inv'
<1> USE CreationAssumption
<1> DEFINE k == IF want[t] = "cube" THEN "cube" ELSE pool[t]
<1>1. PICK a \in Places : /\ object[a] = "free" /\ object' = [object EXCEPT ![a] = k]
                          /\ ptr' = [ptr EXCEPT ![t] = a]
  BY DEF Create, Placed
<1>2. /\ pc[t] = "create" /\ pc'[t] = (IF overridden[t] THEN "wrap" ELSE "note")
      /\ pc' \in [Threads -> {"idle"} \cup CreateSteps \cup ReleaseSteps]
      /\ \A u \in Threads \ {t} : pc'[u] = pc[u]
  BY MovesTyped DEF Inv, Create, CreateSteps
<1>3. /\ Asked(t) /\ (overridden[t] => want[t] = "large" /\ pool[t] = "default")
      /\ (~overridden[t] => pool[t] = "managed") /\ overridden[t] \in BOOLEAN
  BY DEF Inv, Typed, Asked, Relocates
<1>4. k \in {"managed", "default", "cube"} /\ (overridden[t] => k = "default")
      /\ (~overridden[t] => k = IF want[t] = "cube" THEN "cube" ELSE "managed")
  BY <1>3
<1> HIDE DEF k
<1>5. ptr'[t] = a /\ object'[a] = k /\ a \in Addresses /\ (\A u \in Threads \ {t} : ptr'[u] = ptr[u])
  BY <1>1 DEF Inv, Typed, Addresses
<1>6. Typed'
  BY <1>1, <1>2, <1>4, <1>5 DEF Inv, Typed, Create, ledger, history, call, Objects, Bare
<1>7. Asked(t)'
  BY <1>2, <1>3 DEF Asked, Create, call, Relocates
<1>8. Hand(t)'
  BY <1>2, <1>3, <1>4, <1>5 DEF Hand, DyingSteps, Create, call
<1>9. Only(t)
  BY <1>2, <1>5 DEF Only, Create, call
<1> QED
  BY <1>1, <1>2, <1>4, <1>5, <1>6, <1>7, <1>8, <1>9, PlacedKeeps DEF Create, Calm, ledger, history

LEMMA FallBackKeeps ==
  ASSUME Inv, NEW t \in Threads, FallBack(t)
  PROVE  Inv'
<1> USE CreationAssumption
<1>1. PICK a \in Places : /\ object[a] = "free" /\ object' = [object EXCEPT ![a] = "managed"]
                          /\ ptr' = [ptr EXCEPT ![t] = a]
  BY DEF FallBack, Placed
<1>2. /\ pc[t] = "fallBack" /\ pc'[t] = "note"
      /\ pc' \in [Threads -> {"idle"} \cup CreateSteps \cup ReleaseSteps]
      /\ \A u \in Threads \ {t} : pc'[u] = pc[u]
  BY MovesTyped DEF Inv, FallBack, CreateSteps
<1>3. want[t] # "cube" /\ want' = want /\ pool'[t] = "managed" /\ overridden'[t] = FALSE
  BY <1>2 DEF Inv, Typed, Asked, FallBack, InManaged
<1>5. ptr'[t] = a /\ object'[a] = "managed" /\ a \in Addresses /\ (\A u \in Threads \ {t} : ptr'[u] = ptr[u])
  BY <1>1 DEF Inv, Typed, Addresses
<1>6. Typed'
  <2>1. pool' \in [Threads -> Pools]
    BY DEF Inv, Typed, FallBack, InManaged, Pools
  <2>2. overridden' \in [Threads -> BOOLEAN]
    BY DEF Inv, Typed, FallBack, InManaged
  <2> QED
    BY <1>1, <1>2, <1>5, <2>1, <2>2 DEF Inv, Typed, FallBack, ledger, history, Objects, Bare
<1>7. Asked(t)'
  BY <1>2, <1>3 DEF Asked
<1>8. Hand(t)'
  BY <1>2, <1>3, <1>5 DEF Hand, DyingSteps
<1>9. Only(t)
  BY <1>2, <1>5 DEF Inv, Typed, Only, FallBack, InManaged
<1> QED
  BY <1>1, <1>2, <1>5, <1>6, <1>7, <1>8, <1>9, PlacedKeeps DEF FallBack, Calm, ledger, history

LEMMA RetryKeeps ==
  ASSUME Inv, NEW t \in Threads, Retry(t)
  PROVE  Inv'
<1> USE CreationAssumption
<1>1. PICK a \in Places : /\ object[a] = "free" /\ object' = [object EXCEPT ![a] = pool[t]]
                          /\ ptr' = [ptr EXCEPT ![t] = a]
  BY DEF Retry, Placed
<1>2. /\ pc[t] = "retry" /\ pc'[t] = "note"
      /\ pc' \in [Threads -> {"idle"} \cup CreateSteps \cup ReleaseSteps]
      /\ \A u \in Threads \ {t} : pc'[u] = pc[u]
  BY MovesTyped DEF Inv, Retry, CreateSteps
<1>3. want[t] # "cube" /\ ~overridden[t] /\ pool[t] = "managed" /\ Asked(t)
  BY <1>2 DEF Inv, Asked
<1>4. attempt' \in [Threads -> 0..3]
  <2>1. attempt[t] \in 0..3 /\ attempt[t] < 3
    BY DEF Inv, Typed, Retry
  <2>2. attempt[t] + 1 \in 0..3
    BY <2>1
  <2> QED
    BY <2>2 DEF Retry, Inv, Typed
<1>5. ptr'[t] = a /\ object'[a] = "managed" /\ a \in Addresses /\ (\A u \in Threads \ {t} : ptr'[u] = ptr[u])
  BY <1>1, <1>3 DEF Inv, Typed, Addresses
<1>6. Typed'
  BY <1>1, <1>2, <1>3, <1>4, <1>5 DEF Inv, Typed, Retry, ledger, history, Objects, Bare
<1>7. Asked(t)'
  BY <1>2, <1>3 DEF Asked, Retry
<1>8. Hand(t)'
  BY <1>2, <1>3, <1>5 DEF Hand, DyingSteps, Retry
<1>9. Only(t)
  BY <1>2, <1>5 DEF Only, Retry
<1> QED
  BY <1>1, <1>2, <1>3, <1>5, <1>6, <1>7, <1>8, <1>9, PlacedKeeps DEF Retry, Calm, ledger, history

(* The created texture goes behind a wrapper. The game has neither, and    *)
(* no record is the texture's own.                                         *)
LEMMA WrapKeeps ==
  ASSUME Inv, NEW t \in Threads, Wrap(t)
  PROVE  Inv'
<1> USE CreationAssumption
<1> DEFINE p == ptr[t]
<1>1. PICK w \in Wrappers : /\ object[w] = "free" /\ object' = [object EXCEPT ![w] = "wrapper", ![p] = "inner"]
                            /\ behind' = [behind EXCEPT ![w] = p] /\ ptr' = [ptr EXCEPT ![t] = w]
  BY DEF Wrap
<1>2. /\ pc[t] = "wrap" /\ pc'[t] = "note"
      /\ pc' \in [Threads -> {"idle"} \cup CreateSteps \cup ReleaseSteps]
      /\ \A u \in Threads \ {t} : pc'[u] = pc[u]
  BY MovesTyped DEF Inv, Wrap, CreateSteps
<1>3. p \in Places /\ object[p] = "default" /\ overridden[t] /\ Asked(t)
  BY <1>2 DEF Inv, Hand, Asked
<1>4. Owns(t, p)
  BY <1>2 DEF Owns, Owning
<1> HIDE DEF p
<1>5. /\ w \in Addresses /\ p \in Addresses /\ p # w /\ p \notin Wrappers /\ w \notin Places
      /\ object'[w] = "wrapper" /\ object'[p] = "inner"
      /\ (\A b \in Addresses \ {p, w} : object'[b] = object[b])
      /\ behind'[w] = p /\ (\A v \in Wrappers \ {w} : behind'[v] = behind[v])
      /\ ptr'[t] = w /\ (\A u \in Threads \ {t} : ptr'[u] = ptr[u])
  <2>1. w \in Addresses /\ p \in Addresses /\ p # w /\ p \notin Wrappers /\ w \notin Places
    BY <1>3 DEF Addresses
  <2> QED
    BY <1>1, <2>1 DEF Inv, Typed
<1>6. /\ p \notin held /\ ~Told(p) /\ w \notin held /\ ~Told(w)
      /\ \A u \in Threads : ~Owns(u, w) /\ (Owns(u, p) => u = t)
  BY <1>1, <1>3, <1>4, <1>5, ToldExists, OwnedExists DEF Told
<1>7. \A u \in Threads : \A b : Owns(u, b)' <=> (Owns(u, b) /\ u # t) \/ (u = t /\ b = w)
  BY <1>2, <1>5 DEF Owns, Owning
<1>8. \A b : Told(b)' = Told(b)
  BY <1>2, <1>5 DEF Told, Wrap
<1>9. \A u \in Threads : pc[u] \in DyingSteps => ptr[u] # w /\ ptr[u] \in Wrappers
  BY <1>1 DEF Inv, Hand
<1>10. \A u \in Threads : \A b : Withdraws(u, b)' = Withdraws(u, b)
  BY <1>2, <1>5, <1>9 DEF Withdraws, DyingSteps
<1>11. \A v \in Wrappers \ {w} : Intact(v)' = Intact(v)
  BY <1>2, <1>5 DEF Intact, DyingSteps, Addresses
<1>12. Intact(w)' /\ ~Intact(w)
  BY <1>1, <1>2, <1>5, <1>9 DEF Intact, DyingSteps
<1>13. Typed'
  BY <1>1, <1>2, <1>3, <1>5 DEF Inv, Typed, Wrap, ledger, history, call, Objects
<1>14. Memories'
  BY <1>5 DEF Inv, Memories, Addresses
<1>15. Apart'
  BY <1>6, <1>7 DEF Inv, Apart, Wrap
<1>16. HeldWell'
  BY <1>5, <1>6 DEF Inv, HeldWell, Typed, Wrap
<1>17. Kept'
  <2> SUFFICES ASSUME NEW b \in Addresses, object'[b] \in Bare \cup {"wrapper"}
               PROVE  b \in held' \/ \E u \in Threads : Owns(u, b)'
    BY DEF Kept
  <2>1. CASE b = w
    BY <1>7, <2>1
  <2>2. CASE b # w
    <3>1. b # p
      BY <1>5 DEF Bare
    <3>2. b \in held \/ \E u \in Threads : Owns(u, b)
      BY <1>5, <2>2, <3>1 DEF Inv, Kept
    <3>3. ~Owns(t, b)
      BY <3>1 DEF Owns, p
    <3> QED
      BY <1>7, <3>2, <3>3 DEF Wrap
  <2> QED
    BY <2>1, <2>2
<1>18. Wrapping'
  <2>1. \A v \in Wrappers : Intact(v) => behind[v] \in Places /\ object[behind[v]] = "inner" /\ behind[v] # p /\ v # w
    BY <1>3, <1>12 DEF Inv, Wrapping
  <2>2. \A v \in Wrappers : Intact(v)' => behind'[v] \in Places /\ object'[behind'[v]] = "inner"
    BY <1>3, <1>5, <1>11, <2>1 DEF Addresses
  <2>3. \A u, v \in Wrappers : Intact(u)' /\ Intact(v)' /\ behind'[u] = behind'[v] => u = v
    BY <1>5, <1>11, <2>1 DEF Inv, Wrapping
  <2>4. ASSUME NEW b \in Places, object'[b] = "inner" PROVE \E v \in Wrappers : Intact(v)' /\ behind'[v] = b
    <3>1. CASE b = p
      BY <1>5, <1>12, <3>1
    <3>2. CASE b # p
      BY <1>5, <1>11, <2>1, <2>4, <3>2 DEF Inv, Wrapping, Addresses
    <3> QED
      BY <3>1, <3>2
  <2> QED
    BY <2>2, <2>3, <2>4 DEF Wrapping
<1>19. Counted'
  <2> SUFFICES ASSUME NEW b \in Addresses, Told(b), b \notin overtaken PROVE RightRecord(b)'
    BY <1>8 DEF Counted, Wrap, history
  <2>1. object'[b] = object[b] /\ RightRecord(b) /\ records' = records
    BY <1>5, <1>6 DEF Inv, Counted, Wrap, ledger
  <2> QED
    BY <2>1 DEF RightRecord, Counts
<1>20. Expected'
  BY <1>8, <1>10 DEF Inv, Expected, Wrap, ledger, history
<1>21. ASSUME NEW u \in Threads PROVE Asked(u)' /\ Hand(u)'
  <2>1. CASE u = t
    BY <1>2, <1>3, <1>5, <2>1 DEF Asked, Hand, DyingSteps, Wrap, call, Relocates
  <2>2. CASE u # t
    <3>1. /\ Asked(u) /\ Hand(u) /\ pc'[u] = pc[u] /\ ptr'[u] = ptr[u]
          /\ UNCHANGED <<want, pool, overridden>>
      BY <1>2, <1>5, <2>2 DEF Inv, Wrap, call
    <3>2. pc[u] \in Owning => ptr[u] # p /\ ptr[u] # w
      BY <1>6, <2>2 DEF Owns
    <3>3. Hand(u)'
      BY <1>5, <3>1, <3>2 DEF Hand, Owning, DyingSteps, Addresses
    <3> QED
      BY <3>1, <3>3 DEF Asked
  <2> QED
    BY <2>1, <2>2
<1> QED
  BY <1>13, <1>14, <1>15, <1>16, <1>17, <1>18, <1>19, <1>20, <1>21 DEF Inv
(* The created texture is released again; its record, if there is one, was *)
(* another's, and goes only when Release tells the ledger.                 *)
LEMMA WrapFailsKeeps ==
  ASSUME FallBackToManaged, Inv, NEW t \in Threads, WrapFails(t)
  PROVE  Inv'
<1> USE CreationAssumption
<1> DEFINE p == ptr[t]
<1>1. /\ object' = [object EXCEPT ![p] = "free"]
      /\ ptr' = [ptr EXCEPT ![t] = IF hooked THEN p ELSE Nowhere]
      /\ UNCHANGED <<behind, held, hooked, records, overtaken, strays, want, pool, overridden, attempt>>
  BY DEF WrapFails, ledger, history, call
<1>2. /\ pc[t] = "wrap" /\ pc'[t] \in {"forgetUnwrapped", "fallBack", "retry", "idle"}
      /\ (pc'[t] = "retry" => ~overridden[t]) /\ (pc'[t] \in {"retry", "fallBack"} => want[t] # "cube")
      /\ (pc'[t] = "forgetUnwrapped" => hooked)
      /\ pc' \in [Threads -> {"idle"} \cup CreateSteps \cup ReleaseSteps]
      /\ \A u \in Threads \ {t} : pc'[u] = pc[u]
  <2>1. Asked(t) /\ AfterFailure(t) \in {"idle", "fallBack", "retry"}
    BY AfterFailureStep DEF Inv
  <2>2. /\ pc[t] = "wrap" /\ pc'[t] = (IF hooked THEN "forgetUnwrapped" ELSE AfterFailure(t))
        /\ pc' \in [Threads -> {"idle"} \cup CreateSteps \cup ReleaseSteps]
        /\ \A u \in Threads \ {t} : pc'[u] = pc[u]
    BY <2>1, MovesTyped DEF Inv, WrapFails, CreateSteps
  <2> QED
    BY <2>1, <2>2, AfterFailureAsked
<1>3. p \in Places /\ object[p] = "default" /\ overridden[t] /\ Asked(t)
  BY <1>2 DEF Inv, Hand, Asked
<1>4. Owns(t, p)
  BY <1>2 DEF Owns, Owning
<1> HIDE DEF p
<1>5. /\ p \in Addresses /\ p \notin Wrappers
      /\ object'[p] = "free" /\ (\A b \in Addresses \ {p} : object'[b] = object[b])
      /\ (hooked => ptr'[t] = p) /\ (\A u \in Threads \ {t} : ptr'[u] = ptr[u])
  <2>1. p \in Addresses /\ p \notin Wrappers
    BY <1>3 DEF Addresses
  <2> QED
    BY <1>1, <2>1 DEF Inv, Typed
<1>6. /\ p \notin held /\ ~Told(p) /\ \A u \in Threads : Owns(u, p) => u = t
  BY <1>3, <1>4, ToldExists, OwnedExists DEF Told
<1>7. \A u \in Threads : \A b : Owns(u, b)' <=> Owns(u, b) /\ u # t
  BY <1>2, <1>5 DEF Owns, Owning
<1>8. \A b : Told(b)' = Told(b)
  BY <1>1, <1>2, <1>5 DEF Told
<1>9. \A u \in Threads : \A b : Withdraws(u, b) => Withdraws(u, b)'
  BY <1>1, <1>2, <1>5 DEF Withdraws
<1>10. \A v \in Wrappers : Intact(v)' = Intact(v)
  BY <1>2, <1>5 DEF Intact, DyingSteps, Addresses
<1>11. Typed'
  BY <1>1, <1>2, <1>3, <1>5 DEF Inv, Typed, Objects
<1>12. Memories'
  BY <1>5 DEF Inv, Memories, Addresses
<1>13. Apart'
  BY <1>1, <1>6, <1>7 DEF Inv, Apart
<1>14. HeldWell'
  BY <1>1, <1>5, <1>6 DEF Inv, HeldWell, Typed
<1>15. Kept'
  <2> SUFFICES ASSUME NEW b \in Addresses, object'[b] \in Bare \cup {"wrapper"}
               PROVE  b \in held' \/ \E u \in Threads : Owns(u, b)'
    BY DEF Kept
  <2>1. b # p
    BY <1>5 DEF Bare
  <2>2. b \in held \/ \E u \in Threads : Owns(u, b)
    BY <1>5, <2>1 DEF Inv, Kept
  <2>3. ~Owns(t, b)
    BY <2>1 DEF Owns, p
  <2> QED
    BY <1>1, <1>7, <2>2, <2>3
<1>16. Wrapping'
  BY <1>1, <1>3, <1>5, <1>10 DEF Inv, Wrapping, Addresses
<1>17. Counted'
  <2> SUFFICES ASSUME NEW b \in Addresses, Told(b), b \notin overtaken PROVE RightRecord(b)'
    BY <1>1, <1>8 DEF Counted
  <2>1. object'[b] = object[b] /\ RightRecord(b)
    BY <1>5, <1>6 DEF Inv, Counted
  <2> QED
    BY <1>1, <2>1 DEF RightRecord, Counts
<1>18. Expected'
  BY <1>1, <1>8, <1>9 DEF Inv, Expected
<1>19. ASSUME NEW u \in Threads PROVE Asked(u)' /\ Hand(u)'
  <2>1. CASE u = t
    BY <1>1, <1>2, <1>3, <1>5, <2>1 DEF Asked, Hand, DyingSteps
  <2>2. CASE u # t
    <3>1. Asked(u) /\ Hand(u) /\ pc'[u] = pc[u] /\ ptr'[u] = ptr[u]
      BY <1>2, <1>5, <2>2 DEF Inv
    <3>2. pc[u] \in Owning => ptr[u] # p
      BY <1>6, <2>2 DEF Owns
    <3>3. Hand(u)'
      BY <1>1, <1>5, <3>1, <3>2 DEF Hand, Owning, DyingSteps, Addresses
    <3> QED
      BY <1>1, <3>1, <3>3 DEF Asked
  <2> QED
    BY <2>1, <2>2
<1> QED
  BY <1>11, <1>12, <1>13, <1>14, <1>15, <1>16, <1>17, <1>18, <1>19 DEF Inv

-----------------------------------------------------------------------------
(* The ledger hears of a texture                                           *)

(* Whatever the ledger held for the address, the record is now the new     *)
(* texture's; nobody had the texture but the thread that made it.          *)
LEMMA RememberKeeps ==
  ASSUME Inv, NEW t \in Threads, Remember(t)
  PROVE  Inv'
<1> USE CreationAssumption
<1> DEFINE a == ptr[t]
           done == overridden[t] \/ want[t] = "cube"
<1>1. /\ records' = [b \in DOMAIN records \cup {a} |-> IF b = a THEN Record(pool[t], overridden[t]) ELSE records[b]]
      /\ overtaken' = overtaken \ {a} /\ strays' = strays \ {a}
      /\ held' = IF done THEN held \cup {a} ELSE held
      /\ UNCHANGED <<object, behind, hooked, want, pool, overridden, attempt, ptr>>
  BY DEF Remember, NoteCreated, call
<1>2. /\ pc[t] = "note" /\ pc'[t] = (IF done THEN "idle" ELSE "hook")
      /\ pc' \in [Threads -> {"idle"} \cup CreateSteps \cup ReleaseSteps]
      /\ \A u \in Threads \ {t} : pc'[u] = pc[u]
  BY MovesTyped DEF Inv, Remember, CreateSteps
<1>3. /\ a \in Addresses /\ Asked(t) /\ overridden[t] \in BOOLEAN /\ done \in BOOLEAN
      /\ object[a] = IF overridden[t] THEN "wrapper" ELSE IF want[t] = "cube" THEN "cube" ELSE "managed"
  BY <1>2 DEF Inv, Typed, Hand
<1>4. Owns(t, a)
  BY <1>2 DEF Owns, Owning
<1>5. a \notin held /\ (\A u \in Threads : Owns(u, a) => u = t)
  BY <1>3, <1>4, OwnedExists
<1>6. Record(pool[t], overridden[t]) = IF object[a] = "wrapper" THEN Record("default", TRUE) ELSE Record("managed", FALSE)
  BY <1>3 DEF Asked
<1>7. Record("default", TRUE) \in Records /\ Record("managed", FALSE) \in Records
  BY DEF Record, Records, Pools
<1>a. ptr[t] = a
  BY DEF a
<1>b. done => overridden[t] \/ want[t] = "cube"
  BY DEF done
<1>c. ~done => ~overridden[t] /\ want[t] # "cube"
  BY DEF done
<1> HIDE DEF a, done
<1>8. \A u \in Threads : \A b : Owns(u, b)' <=> Owns(u, b) /\ (u # t \/ ~done)
  BY <1>1, <1>2, <1>3 DEF Owns, Owning
<1>9. \A b : Told(b)' <=> Told(b) \/ b = a
  BY <1>1, <1>2, <1>3, <1>a DEF Told
<1>10. \A u \in Threads : \A b : Withdraws(u, b)' = Withdraws(u, b)
  BY <1>1, <1>2 DEF Withdraws
<1>11. \A v : Intact(v)' = Intact(v)
  BY <1>1, <1>2 DEF Intact, DyingSteps
<1>12. DOMAIN records' = DOMAIN records \cup {a}
  BY <1>1
<1>13. Typed'
  <2>1. \A b \in DOMAIN records' : records'[b] \in Records
    BY <1>1, <1>6, <1>7 DEF Inv, Typed
  <2>2. held' \subseteq Addresses
    BY <1>1, <1>3 DEF Inv, Typed
  <2>3. DOMAIN records' \subseteq Addresses /\ overtaken' \subseteq Addresses /\ strays' \subseteq Places
    BY <1>1, <1>3, <1>12 DEF Inv, Typed
  <2> QED
    BY <1>1, <1>2, <2>1, <2>2, <2>3 DEF Inv, Typed
<1>14. Memories'
  BY <1>1 DEF Inv, Memories
<1>15. Apart'
  BY <1>1, <1>3, <1>5, <1>8 DEF Inv, Apart
<1>16. HeldWell'
  BY <1>1, <1>3, <1>b DEF Inv, HeldWell
<1>17. Kept'
  <2> SUFFICES ASSUME NEW b \in Addresses, object[b] \in Bare \cup {"wrapper"}
               PROVE  b \in held' \/ \E u \in Threads : Owns(u, b)'
    BY <1>1 DEF Kept
  <2>1. b \in held \/ \E u \in Threads : Owns(u, b)
    BY DEF Inv, Kept
  <2>2. Owns(t, b) => b = a
    BY <1>a DEF Owns
  <2> QED
    BY <1>1, <1>3, <1>8, <2>1, <2>2
<1>18. Wrapping'
  BY <1>1, <1>11 DEF Inv, Wrapping
<1>19. Counted'
  <2> SUFFICES ASSUME NEW b \in Addresses, Told(b) \/ b = a, b \notin overtaken \/ b = a PROVE RightRecord(b)'
    BY <1>1, <1>9 DEF Counted
  <2>1. CASE b = a
    BY <1>1, <1>6, <2>1 DEF RightRecord, Counts
  <2>2. CASE b # a
    BY <1>1, <2>2 DEF Inv, Counted, RightRecord, Counts
  <2> QED
    BY <2>1, <2>2
<1>20. Expected'
  BY <1>1, <1>9, <1>10, <1>12 DEF Inv, Expected
<1>21. ASSUME NEW u \in Threads PROVE Asked(u)' /\ Hand(u)'
  <2>0. Asked(u) /\ Hand(u)
    BY DEF Inv
  <2>1. CASE u = t
    <3>1. ~done => a \in Places
      BY <1>3, <1>c DEF Inv, Memories, Addresses
    <3> QED
      BY <1>1, <1>2, <1>3, <1>a, <1>c, <2>0, <2>1, <3>1 DEF Asked, Hand, DyingSteps
  <2>2. CASE u # t
    BY <1>1, <1>2, <2>0, <2>2 DEF Asked, Hand
  <2> QED
    BY <2>1, <2>2
<1> QED
  BY <1>13, <1>14, <1>15, <1>16, <1>17, <1>18, <1>19, <1>20, <1>21 DEF Inv

(* Release is hooked before the game has the texture.                      *)
LEMMA AddHookKeeps ==
  ASSUME Inv, NEW t \in Threads, AddHook(t)
  PROVE  Inv'
<1> USE CreationAssumption
<1> DEFINE a == ptr[t]
<1>1. /\ held' = held \cup {a} /\ hooked' = TRUE
      /\ UNCHANGED <<object, behind, records, overtaken, strays, want, pool, overridden, attempt, ptr>>
  BY DEF AddHook, ledger, history, call
<1>2. /\ pc[t] = "hook" /\ pc'[t] = "idle"
      /\ pc' \in [Threads -> {"idle"} \cup CreateSteps \cup ReleaseSteps]
      /\ \A u \in Threads \ {t} : pc'[u] = pc[u]
  BY MovesTyped DEF Inv, AddHook
<1>3. a \in Places /\ object[a] = "managed" /\ a \in Addresses
  BY <1>2 DEF Inv, Hand, Addresses
<1>4. Owns(t, a) /\ ptr[t] = a
  BY <1>2 DEF Owns, Owning
<1> HIDE DEF a
<1>5. \A u \in Threads : Owns(u, a) => u = t
  BY <1>3, <1>4, OwnedExists
<1>6. \A u \in Threads : \A b : Owns(u, b)' <=> Owns(u, b) /\ u # t
  BY <1>1, <1>2 DEF Owns, Owning
<1>7. \A b : Told(b)' <=> Told(b)
  BY <1>1, <1>2, <1>4 DEF Told
<1>8. \A u \in Threads : \A b : Withdraws(u, b)' = Withdraws(u, b)
  BY <1>1, <1>2 DEF Withdraws
<1>9. \A v : Intact(v)' = Intact(v)
  BY <1>1, <1>2 DEF Intact, DyingSteps
<1>10. Typed'
  BY <1>1, <1>2, <1>3 DEF Inv, Typed
<1>11. Memories' /\ HeldWell'
  BY <1>1, <1>3 DEF Inv, Memories, HeldWell
<1>12. Apart'
  BY <1>1, <1>5, <1>6 DEF Inv, Apart
<1>13. Kept'
  <2> SUFFICES ASSUME NEW b \in Addresses, object[b] \in Bare \cup {"wrapper"}
               PROVE  b \in held' \/ \E u \in Threads : Owns(u, b)'
    BY <1>1 DEF Kept
  <2>1. b \in held \/ \E u \in Threads : Owns(u, b)
    BY DEF Inv, Kept
  <2>2. Owns(t, b) => b = a
    BY <1>4 DEF Owns
  <2> QED
    BY <1>1, <1>6, <2>1, <2>2
<1>14. Wrapping'
  BY <1>1, <1>9 DEF Inv, Wrapping
<1>15. Counted'
  BY <1>1, <1>7 DEF Inv, Counted, RightRecord, Counts
<1>16. Expected'
  BY <1>1, <1>7, <1>8 DEF Inv, Expected
<1>17. ASSUME NEW u \in Threads PROVE Asked(u)' /\ Hand(u)'
  <2>0. Asked(u) /\ Hand(u)
    BY DEF Inv
  <2>1. CASE u = t
    BY <1>1, <1>2, <2>0, <2>1 DEF Asked, Hand, DyingSteps
  <2>2. CASE u # t
    BY <1>1, <1>2, <2>0, <2>2 DEF Asked, Hand
  <2> QED
    BY <2>1, <2>2
<1> QED
  BY <1>10, <1>11, <1>12, <1>13, <1>14, <1>15, <1>16, <1>17 DEF Inv
-----------------------------------------------------------------------------
(* Release                                                                 *)

(* A texture without a wrapper is either one whose Release is hooked, and  *)
(* will be withdrawn, or a cube, and is a stray from now on.               *)
LEMMA ReleaseBareKeeps ==
  ASSUME Inv, NEW t \in Threads, NEW a \in Addresses, ReleaseBare(t, a)
  PROVE  Inv'
<1> USE CreationAssumption
<1>1. /\ pc[t] = "idle" /\ a \in held /\ held' = held \ {a}
      /\ object' = [object EXCEPT ![a] = "free"] /\ ptr' = [ptr EXCEPT ![t] = a]
      /\ strays' = IF object[a] = "cube" THEN strays \cup {a} ELSE strays
      /\ UNCHANGED <<behind, hooked, records, overtaken, want, pool, overridden, attempt>>
  BY DEF ReleaseBare, ledger, call
<1>2. /\ object[a] \in {"managed", "cube"} /\ (object[a] = "managed" => hooked) /\ a \in Places
  BY <1>1 DEF ReleaseBare, Bare, Inv, HeldWell, Memories, Addresses
<1>3. /\ pc'[t] \in {"forget", "idle"} /\ (object[a] = "managed" => pc'[t] = "forget")
      /\ pc' \in [Threads -> {"idle"} \cup CreateSteps \cup ReleaseSteps]
      /\ \A u \in Threads \ {t} : pc'[u] = pc[u]
  <2>1. /\ pc \in [Threads -> {"idle"} \cup CreateSteps \cup ReleaseSteps]
        /\ pc' = [pc EXCEPT ![t] = IF hooked /\ object[a] # "cube" THEN "forget" ELSE "idle"]
    BY DEF ReleaseBare, Inv, Typed
  <2> QED
    BY <1>2, <2>1 DEF ReleaseSteps
<1>4. /\ object'[a] = "free" /\ (\A b \in Addresses \ {a} : object'[b] = object[b])
      /\ ptr'[t] = a /\ (\A u \in Threads \ {t} : ptr'[u] = ptr[u]) /\ a \notin Wrappers
  BY <1>1, <1>2 DEF Inv, Typed
<1>5. \A u \in Threads : ~Owns(u, a)
  BY <1>1 DEF Inv, Apart
<1>6. \A u \in Threads : \A b : Owns(u, b)' = Owns(u, b)
  BY <1>1, <1>3, <1>4 DEF Owns, Owning
<1>7. \A b : Told(b)' <=> Told(b) /\ b # a
  <2>1. \A u \in Threads : pc[u] = "hook" => ptr[u] # a
    BY <1>5 DEF Owns, Owning
  <2> QED
    BY <1>1, <1>3, <1>4, <2>1 DEF Told
<1>8. \A u \in Threads : \A b : Withdraws(u, b) => Withdraws(u, b)'
  BY <1>1, <1>3, <1>4 DEF Withdraws
<1>9. \A v \in Wrappers : Intact(v)' = Intact(v)
  BY <1>1, <1>3, <1>4 DEF Intact, DyingSteps, Addresses
<1>10. Typed'
  BY <1>1, <1>2, <1>3 DEF Inv, Typed, Objects
<1>11. Memories'
  BY <1>4 DEF Inv, Memories, Addresses
<1>12. Apart'
  BY <1>1, <1>6 DEF Inv, Apart
<1>13. HeldWell'
  BY <1>1, <1>4 DEF Inv, HeldWell, Typed
<1>14. Kept'
  BY <1>1, <1>4, <1>6 DEF Inv, Kept, Bare
<1>15. Wrapping'
  BY <1>1, <1>2, <1>4, <1>9 DEF Inv, Wrapping, Addresses
<1>16. Counted'
  <2> SUFFICES ASSUME NEW b \in Addresses, Told(b), b # a, b \notin overtaken PROVE RightRecord(b)'
    BY <1>1, <1>7 DEF Counted
  <2>1. object'[b] = object[b] /\ RightRecord(b)
    BY <1>4 DEF Inv, Counted
  <2> QED
    BY <1>1, <2>1 DEF RightRecord, Counts
<1>17. Expected'
  <2> SUFFICES ASSUME NEW b \in DOMAIN records
               PROVE  Told(b)' \/ b \in strays' \/ \E u \in Threads : Withdraws(u, b)'
    BY <1>1 DEF Expected
  <2>1. CASE b = a
    <3>1. object[a] = "managed" => Withdraws(t, a)'
      BY <1>3, <1>4 DEF Withdraws
    <3> QED
      BY <1>1, <1>2, <2>1, <3>1
  <2>2. CASE b # a
    BY <1>1, <1>7, <1>8, <2>2 DEF Inv, Expected
  <2> QED
    BY <2>1, <2>2
<1>18. ASSUME NEW u \in Threads PROVE Asked(u)' /\ Hand(u)'
  <2>0. Asked(u) /\ Hand(u)
    BY DEF Inv
  <2>1. CASE u = t
    BY <1>1, <1>2, <1>3, <1>4, <2>0, <2>1 DEF Asked, Hand, DyingSteps
  <2>2. CASE u # t
    <3>1. pc'[u] = pc[u] /\ ptr'[u] = ptr[u]
      BY <1>3, <1>4, <2>2
    <3>2. pc[u] \in Owning => ptr[u] # a
      BY <1>5 DEF Owns
    <3>3. Hand(u)'
      BY <1>1, <1>4, <2>0, <3>1, <3>2 DEF Hand, Owning, DyingSteps, Addresses
    <3> QED
      BY <1>1, <2>0, <3>1, <3>3 DEF Asked
  <2> QED
    BY <2>1, <2>2
<1> QED
  BY <1>10, <1>11, <1>12, <1>13, <1>14, <1>15, <1>16, <1>17, <1>18 DEF Inv

(* The texture behind a wrapper goes first. No other wrapper has it.       *)
LEMMA ReleaseWrapperKeeps ==
  ASSUME Inv, NEW t \in Threads, NEW a \in Addresses, ReleaseWrapper(t, a)
  PROVE  Inv'
<1> USE CreationAssumption
<1> DEFINE p == behind[a]
<1>1. /\ a \in held /\ object[a] = "wrapper" /\ held' = held \ {a}
      /\ object' = [object EXCEPT ![p] = "free"] /\ ptr' = [ptr EXCEPT ![t] = a]
      /\ UNCHANGED <<behind, hooked, records, overtaken, strays, want, pool, overridden, attempt>>
  BY DEF ReleaseWrapper, ledger, history, call
<1>2. /\ pc[t] = "idle" /\ pc'[t] \in {"forgetInner", "destroyed"}
      /\ pc' \in [Threads -> {"idle"} \cup CreateSteps \cup ReleaseSteps]
      /\ \A u \in Threads \ {t} : pc'[u] = pc[u]
  BY MovesTyped DEF Inv, ReleaseWrapper, ReleaseSteps
<1>3. \A u \in Threads : ~Owns(u, a)
  BY <1>1 DEF Inv, Apart
<1>4. a \in Wrappers /\ Intact(a)
  <2>1. \A u \in Threads : pc[u] \in DyingSteps => ptr[u] # a
    BY <1>3 DEF Owns, Owning, DyingSteps
  <2> QED
    BY <1>1, <2>1 DEF Intact, Inv, Memories, Addresses
<1>5. p \in Places /\ object[p] = "inner" /\ behind[a] = p
  BY <1>4 DEF Inv, Wrapping
<1> HIDE DEF p
<1>6. /\ object'[p] = "free" /\ (\A b \in Addresses \ {p} : object'[b] = object[b])
      /\ p \in Addresses /\ p \notin Wrappers /\ p # a
      /\ ptr'[t] = a /\ (\A u \in Threads \ {t} : ptr'[u] = ptr[u])
  <2>1. p \in Addresses /\ p \notin Wrappers /\ p # a
    BY <1>4, <1>5 DEF Addresses
  <2> QED
    BY <1>1, <2>1 DEF Inv, Typed
<1>7. p \notin held /\ ~Told(p) /\ \A u \in Threads : ~Owns(u, p)
  BY <1>5, ToldExists, OwnedExists DEF Told
<1>8. \A u \in Threads : \A b : Owns(u, b)' <=> Owns(u, b) \/ (u = t /\ b = a)
  BY <1>2, <1>6 DEF Owns, Owning
<1>9. \A b : Told(b)' <=> Told(b) /\ b # a
  <2>1. \A u \in Threads : pc[u] = "hook" => ptr[u] # a
    BY <1>3 DEF Owns, Owning
  <2> QED
    BY <1>1, <1>2, <1>6, <2>1 DEF Told
<1>10. \A u \in Threads : \A b : Withdraws(u, b) => Withdraws(u, b)'
  BY <1>1, <1>2, <1>6 DEF Withdraws
<1>11. \A v \in Wrappers : Intact(v)' <=> Intact(v) /\ v # a
  BY <1>2, <1>6 DEF Intact, DyingSteps, Addresses
<1>12. Typed'
  BY <1>1, <1>2, <1>5 DEF Inv, Typed, Objects
<1>13. Memories'
  BY <1>6 DEF Inv, Memories, Addresses
<1>14. Apart'
  BY <1>1, <1>3, <1>8 DEF Inv, Apart
<1>15. HeldWell'
  BY <1>1, <1>6, <1>7 DEF Inv, HeldWell, Typed
<1>16. Kept'
  BY <1>1, <1>6, <1>8 DEF Inv, Kept, Bare
<1>17. Wrapping'
  <2>1. \A v \in Wrappers : Intact(v) /\ v # a => behind[v] \in Places /\ object[behind[v]] = "inner" /\ behind[v] # p
    BY <1>4, <1>5 DEF Inv, Wrapping
  <2>2. \A v \in Wrappers : Intact(v)' => behind[v] \in Places /\ object'[behind[v]] = "inner"
    BY <1>6, <1>11, <2>1 DEF Addresses
  <2>3. \A b \in Places : object'[b] = "inner" => \E v \in Wrappers : Intact(v)' /\ behind[v] = b
    <3> SUFFICES ASSUME NEW b \in Places, object'[b] = "inner" PROVE \E v \in Wrappers : Intact(v)' /\ behind[v] = b
      OBVIOUS
    <3>1. b # p /\ object[b] = "inner"
      BY <1>6 DEF Addresses
    <3>2. PICK v \in Wrappers : Intact(v) /\ behind[v] = b
      BY <3>1 DEF Inv, Wrapping
    <3> QED
      BY <1>5, <1>11, <3>1, <3>2
  <2>4. \A u, v \in Wrappers : Intact(u)' /\ Intact(v)' /\ behind[u] = behind[v] => u = v
    BY <1>11 DEF Inv, Wrapping
  <2> QED
    BY <1>1, <2>2, <2>3, <2>4 DEF Wrapping
<1>18. Counted'
  <2> SUFFICES ASSUME NEW b \in Addresses, Told(b), b # a, b \notin overtaken PROVE RightRecord(b)'
    BY <1>1, <1>9 DEF Counted
  <2>1. object'[b] = object[b] /\ RightRecord(b)
    BY <1>6, <1>7 DEF Inv, Counted
  <2> QED
    BY <1>1, <2>1 DEF RightRecord, Counts
<1>19. Expected'
  <2>1. Withdraws(t, a)'
    BY <1>2, <1>6 DEF Withdraws
  <2> QED
    BY <1>1, <1>9, <1>10, <2>1 DEF Inv, Expected
<1>20. ASSUME NEW u \in Threads PROVE Asked(u)' /\ Hand(u)'
  <2>0. Asked(u) /\ Hand(u)
    BY DEF Inv
  <2>1. CASE u = t
    BY <1>1, <1>2, <1>4, <1>5, <1>6, <2>0, <2>1 DEF Asked, Hand, DyingSteps
  <2>2. CASE u # t
    <3>1. pc'[u] = pc[u] /\ ptr'[u] = ptr[u]
      BY <1>2, <1>6, <2>2
    <3>2. pc[u] \in Owning => ptr[u] # p
      BY <1>7 DEF Owns
    <3>3. Hand(u)'
      BY <1>1, <1>6, <2>0, <3>1, <3>2 DEF Hand, Owning, DyingSteps, Addresses
    <3> QED
      BY <1>1, <2>0, <3>1, <3>3 DEF Asked
  <2> QED
    BY <2>1, <2>2
<1> QED
  BY <1>12, <1>13, <1>14, <1>15, <1>16, <1>17, <1>18, <1>19, <1>20 DEF Inv

(* The memory of a wrapper is returned.                                    *)
LEMMA FreeWrapperKeeps ==
  ASSUME Inv, NEW t \in Threads, FreeWrapper(t)
  PROVE  Inv'
<1> USE CreationAssumption
<1> DEFINE w == ptr[t]
<1>1. /\ object' = [object EXCEPT ![w] = "free"] /\ behind' = [behind EXCEPT ![w] = Nowhere]
      /\ UNCHANGED <<held, hooked, records, overtaken, strays, want, pool, overridden, attempt, ptr>>
  BY DEF FreeWrapper, ledger, history, call
<1>2. /\ pc[t] = "free" /\ pc'[t] = "idle"
      /\ pc' \in [Threads -> {"idle"} \cup CreateSteps \cup ReleaseSteps]
      /\ \A u \in Threads \ {t} : pc'[u] = pc[u]
  BY MovesTyped DEF Inv, FreeWrapper
<1>3. w \in Wrappers /\ object[w] = "wrapper" /\ Owns(t, w) /\ ptr[t] = w
  BY <1>2 DEF Inv, Hand, DyingSteps, Owns, Owning
<1> HIDE DEF w
<1>4. /\ object'[w] = "free" /\ (\A b \in Addresses \ {w} : object'[b] = object[b])
      /\ (\A v \in Wrappers \ {w} : behind'[v] = behind[v]) /\ w \in Addresses /\ w \notin Places
  <2>1. w \in Addresses /\ w \notin Places
    BY <1>3 DEF Addresses
  <2> QED
    BY <1>1, <1>3, <2>1 DEF Inv, Typed
<1>5. w \notin held /\ \A u \in Threads : Owns(u, w) => u = t
  BY <1>3, OwnedExists
<1>6. \A u \in Threads : \A b : Owns(u, b)' <=> Owns(u, b) /\ u # t
  BY <1>1, <1>2 DEF Owns, Owning
<1>7. \A b : Told(b)' = Told(b)
  BY <1>1, <1>2 DEF Told
<1>8. ~Told(w)
  BY <1>2, <1>3, <1>5 DEF Told, Owns, Owning
<1>9. \A u \in Threads : \A b : Withdraws(u, b) => Withdraws(u, b)'
  <2> SUFFICES ASSUME NEW u \in Threads, NEW b, Withdraws(u, b) PROVE Withdraws(u, b)'
    OBVIOUS
  <2>1. u # t
    BY <1>2 DEF Withdraws
  <2>2. pc[u] = "forgetInner" => ptr[u] \in Wrappers \ {w}
    BY <1>5, <2>1 DEF Inv, Hand, DyingSteps, Owns, Owning
  <2> QED
    BY <1>1, <1>2, <1>4, <2>1, <2>2 DEF Withdraws
<1>10. /\ \A v \in Wrappers : Intact(v)' <=> Intact(v)
       /\ ~Intact(w)
  <2>1. ~Intact(w)
    BY <1>2, <1>3 DEF Intact, DyingSteps
  <2>2. \A v \in Wrappers : v = w => ~Intact(v)'
    BY <1>4 DEF Intact
  <2>3. \A v \in Wrappers \ {w} : Intact(v)' = Intact(v)
    BY <1>1, <1>2, <1>3, <1>4 DEF Intact, DyingSteps, Addresses
  <2> QED
    BY <2>1, <2>2, <2>3
<1>11. Typed'
  BY <1>1, <1>2 DEF Inv, Typed, Objects
<1>12. Memories'
  BY <1>4 DEF Inv, Memories, Addresses
<1>13. Apart'
  BY <1>1, <1>6 DEF Inv, Apart
<1>14. HeldWell'
  BY <1>1, <1>4, <1>5 DEF Inv, HeldWell, Typed
<1>15. Kept'
  <2> SUFFICES ASSUME NEW b \in Addresses, object'[b] \in Bare \cup {"wrapper"}
               PROVE  b \in held' \/ \E u \in Threads : Owns(u, b)'
    BY DEF Kept
  <2>1. b # w
    BY <1>4 DEF Bare
  <2>2. b \in held \/ \E u \in Threads : Owns(u, b)
    BY <1>4, <2>1 DEF Inv, Kept
  <2>3. ~Owns(t, b)
    BY <1>3, <2>1 DEF Owns
  <2> QED
    BY <1>1, <1>6, <2>2, <2>3
<1>16. Wrapping'
  <2>1. \A v \in Wrappers : Intact(v) => v # w /\ behind'[v] = behind[v] /\ behind[v] \in Places
                                              /\ object[behind[v]] = "inner"
    BY <1>4, <1>10 DEF Inv, Wrapping
  <2>2. \A b \in Places : object'[b] = object[b]
    BY <1>4 DEF Addresses
  <2>3. \A u, v \in Wrappers : Intact(u)' /\ Intact(v)' /\ behind'[u] = behind'[v] => u = v
    BY <1>10, <2>1 DEF Inv, Wrapping
  <2>4. \A b \in Places : object'[b] = "inner" => \E v \in Wrappers : Intact(v)' /\ behind'[v] = b
    BY <1>10, <2>1, <2>2 DEF Inv, Wrapping
  <2>5. \A v \in Wrappers : Intact(v)' => behind'[v] \in Places /\ object'[behind'[v]] = "inner"
    BY <1>10, <2>1, <2>2
  <2> QED
    BY <2>3, <2>4, <2>5 DEF Wrapping
<1>17. Counted'
  <2> SUFFICES ASSUME NEW b \in Addresses, Told(b), b \notin overtaken PROVE RightRecord(b)'
    BY <1>1, <1>7 DEF Counted
  <2>1. object'[b] = object[b] /\ RightRecord(b)
    BY <1>4, <1>8 DEF Inv, Counted
  <2> QED
    BY <1>1, <2>1 DEF RightRecord, Counts
<1>18. Expected'
  BY <1>1, <1>7, <1>9 DEF Inv, Expected
<1>19. ASSUME NEW u \in Threads PROVE Asked(u)' /\ Hand(u)'
  <2>0. Asked(u) /\ Hand(u)
    BY DEF Inv
  <2>1. CASE u = t
    BY <1>1, <1>2, <2>0, <2>1 DEF Asked, Hand, DyingSteps
  <2>2. CASE u # t
    <3>1. pc'[u] = pc[u]
      BY <1>2, <2>2
    <3>2. pc[u] \in Owning => ptr[u] # w
      BY <1>5, <2>2 DEF Owns
    <3>3. Hand(u)'
      BY <1>1, <1>4, <2>0, <3>1, <3>2 DEF Hand, Owning, DyingSteps, Addresses
    <3> QED
      BY <1>1, <2>0, <3>1, <3>3 DEF Asked
  <2> QED
    BY <2>1, <2>2
<1> QED
  BY <1>11, <1>12, <1>13, <1>14, <1>15, <1>16, <1>17, <1>18, <1>19 DEF Inv
-----------------------------------------------------------------------------
(* The ledger hears of a release                                           *)

(* A record is withdrawn: the released texture's, or that of another which *)
(* has its address by now and is overtaken from now on. What a thread has  *)
(* in hand does not change.                                                *)
LEMMA ForgetKeeps ==
  ASSUME Inv, NEW t \in Threads, Only(t), NEW b \in Addresses, Forget(b),
         Told(b) => object[b] \in Bare,
         UNCHANGED <<object, behind, held, hooked>>,
         \A u \in Threads : \A c : Owns(u, c)' <=> Owns(u, c),
         pc[t] # "hook", pc'[t] # "hook", pc[t] \in DyingSteps <=> pc'[t] \in DyingSteps,
         pc[t] \in DyingSteps => ptr'[t] = ptr[t],
         \A c : Withdraws(t, c) => c = b \/ Withdraws(t, c)',
         pc' \in [Threads -> {"idle"} \cup CreateSteps \cup ReleaseSteps],
         ptr' \in [Threads -> Addresses \cup {Nowhere}],
         UNCHANGED call,
         Asked(t)', Hand(t)'
  PROVE  Inv'
<1>1. /\ records' = [c \in DOMAIN records \ {b} |-> records[c]]
      /\ DOMAIN records' = DOMAIN records \ {b} /\ (\A c \in DOMAIN records \ {b} : records'[c] = records[c])
      /\ overtaken' = IF b \in DOMAIN records /\ object[b] \in Bare THEN overtaken \cup {b} ELSE overtaken
      /\ strays' = strays \ {b}
  BY DEF Forget, NoteDestroyed, Counts
<1>2. \A c : Told(c)' = Told(c)
  BY DEF Told, Only
<1>3. \A w : Intact(w)' = Intact(w)
  BY DEF Intact, Only
<1>4. \A u \in Threads : \A c : Withdraws(u, c) => c = b \/ Withdraws(u, c)'
  BY DEF Only, Withdraws
<1>5. Typed'
  BY <1>1 DEF Inv, Typed, call
<1>6. Memories' /\ HeldWell' /\ Apart' /\ Kept'
  BY DEF Inv, Memories, HeldWell, Apart, Kept
<1>7. Wrapping'
  BY <1>3 DEF Inv, Wrapping
<1>8. Counted'
  <2> SUFFICES ASSUME NEW c \in Addresses, Told(c), c \notin overtaken' PROVE RightRecord(c)'
    BY <1>2 DEF Counted
  <2>1. c \notin overtaken
    BY <1>1
  <2>2. RightRecord(c)
    BY <2>1 DEF Inv, Counted
  <2>3. c # b
    BY <1>1, <2>2 DEF RightRecord, Counts
  <2> QED
    BY <1>1, <2>2, <2>3 DEF RightRecord, Counts
<1>9. Expected'
  BY <1>1, <1>2, <1>4 DEF Inv, Expected
<1>10. \A u \in Threads : Asked(u)' /\ Hand(u)'
  BY DEF Only, Inv, Asked, Hand
<1> QED
  BY <1>5, <1>6, <1>7, <1>8, <1>9, <1>10 DEF Inv

(* A texture in a place can only be one that has no wrapper.               *)
LEMMA PlaceTold ==
  ASSUME Inv, NEW b \in Places, Told(b)
  PROVE  object[b] \in Bare
BY ToldExists DEF Inv, Memories, Bare, Addresses

LEMMA ForgetBareKeeps ==
  ASSUME Inv, NEW t \in Threads, ForgetBare(t)
  PROVE  Inv'
<1> USE CreationAssumption
<1>1. /\ pc[t] = "forget" /\ pc'[t] = "idle"
      /\ pc' \in [Threads -> {"idle"} \cup CreateSteps \cup ReleaseSteps]
      /\ \A u \in Threads \ {t} : pc'[u] = pc[u]
  BY MovesTyped DEF Inv, ForgetBare
<1>2. ptr[t] \in Places /\ ptr[t] \in Addresses /\ Asked(t)
  BY <1>1 DEF Inv, Hand, Addresses
<1>3. UNCHANGED <<object, behind, held, hooked, call, ptr>> /\ Forget(ptr[t])
  BY DEF ForgetBare, memory
<1>4. Only(t)
  BY <1>1, <1>3 DEF Only, call
<1>5. \A u \in Threads : \A c : Owns(u, c)' <=> Owns(u, c)
  BY <1>1, <1>3 DEF Owns, Owning
<1>6. \A c : Withdraws(t, c) => c = ptr[t]
  BY <1>1 DEF Withdraws
<1>7. Asked(t)' /\ Hand(t)'
  BY <1>1, <1>2, <1>3 DEF Asked, Hand, DyingSteps, call
<1>8. ptr' \in [Threads -> Addresses \cup {Nowhere}]
  BY <1>3 DEF Inv, Typed
<1> QED
  BY <1>1, <1>2, <1>3, <1>4, <1>5, <1>6, <1>7, <1>8, PlaceTold, ForgetKeeps DEF DyingSteps

LEMMA ForgetUnwrappedKeeps ==
  ASSUME FallBackToManaged, Inv, NEW t \in Threads, ForgetUnwrapped(t)
  PROVE  Inv'
<1> USE CreationAssumption
<1>1. /\ pc[t] = "forgetUnwrapped" /\ pc'[t] = AfterFailure(t)
      /\ pc' \in [Threads -> {"idle"} \cup CreateSteps \cup ReleaseSteps]
      /\ \A u \in Threads \ {t} : pc'[u] = pc[u]
  BY MovesTyped, AfterFailureStep DEF Inv, ForgetUnwrapped, CreateSteps
<1>2. ptr[t] \in Places /\ ptr[t] \in Addresses /\ Asked(t)
  BY <1>1 DEF Inv, Hand, Addresses
<1>3. /\ UNCHANGED <<object, behind, held, hooked, call>> /\ Forget(ptr[t])
      /\ ptr' = [ptr EXCEPT ![t] = Nowhere] /\ \A u \in Threads \ {t} : ptr'[u] = ptr[u]
  BY DEF ForgetUnwrapped, memory, Inv, Typed
<1>4. Only(t)
  BY <1>1, <1>3 DEF Only, call
<1>5. pc'[t] \in {"idle", "fallBack", "retry"} /\ (pc'[t] = "retry" => ~overridden[t])
      /\ (pc'[t] \in {"retry", "fallBack"} => want[t] # "cube")
  BY <1>1, <1>2, AfterFailureStep, AfterFailureAsked
<1>6. \A u \in Threads : \A c : Owns(u, c)' <=> Owns(u, c)
  BY <1>1, <1>3, <1>5 DEF Owns, Owning
<1>7. \A c : Withdraws(t, c) => c = ptr[t]
  BY <1>1 DEF Withdraws
<1>8. Asked(t)' /\ Hand(t)'
  BY <1>1, <1>2, <1>3, <1>5 DEF Asked, Hand, DyingSteps, call
<1>9. ptr' \in [Threads -> Addresses \cup {Nowhere}]
  BY <1>3 DEF Inv, Typed
<1> QED
  BY <1>1, <1>2, <1>3, <1>4, <1>5, <1>6, <1>7, <1>8, <1>9, PlaceTold, ForgetKeeps DEF DyingSteps

LEMMA ForgetInnerKeeps ==
  ASSUME Inv, NEW t \in Threads, ForgetInner(t)
  PROVE  Inv'
<1> USE CreationAssumption
<1>1. /\ pc[t] = "forgetInner" /\ pc'[t] = "destroyed"
      /\ pc' \in [Threads -> {"idle"} \cup CreateSteps \cup ReleaseSteps]
      /\ \A u \in Threads \ {t} : pc'[u] = pc[u]
  BY MovesTyped DEF Inv, ForgetInner, ReleaseSteps
<1>2. /\ behind[ptr[t]] \in Places /\ behind[ptr[t]] \in Addresses /\ Asked(t)
      /\ ptr[t] \in Wrappers /\ object[ptr[t]] = "wrapper"
  BY <1>1 DEF Inv, Hand, Addresses, DyingSteps
<1>3. UNCHANGED <<object, behind, held, hooked, call, ptr>> /\ Forget(behind[ptr[t]])
  BY DEF ForgetInner, memory
<1>4. Only(t)
  BY <1>1, <1>3 DEF Only, call
<1>5. \A u \in Threads : \A c : Owns(u, c)' <=> Owns(u, c)
  BY <1>1, <1>3 DEF Owns, Owning
<1>6. \A c : Withdraws(t, c) => c = behind[ptr[t]] \/ Withdraws(t, c)'
  BY <1>1, <1>3 DEF Withdraws
<1>7. Asked(t)' /\ Hand(t)'
  BY <1>1, <1>2, <1>3 DEF Asked, Hand, DyingSteps, call
<1>8. ptr' \in [Threads -> Addresses \cup {Nowhere}]
  BY <1>3 DEF Inv, Typed
<1> QED
  BY <1>1, <1>2, <1>3, <1>4, <1>5, <1>6, <1>7, <1>8, PlaceTold, ForgetKeeps DEF DyingSteps

LEMMA DestroyedKeeps ==
  ASSUME Inv, NEW t \in Threads, Destroyed(t)
  PROVE  Inv'
<1> USE CreationAssumption
<1>1. /\ pc[t] = "destroyed" /\ pc'[t] = "free"
      /\ pc' \in [Threads -> {"idle"} \cup CreateSteps \cup ReleaseSteps]
      /\ \A u \in Threads \ {t} : pc'[u] = pc[u]
  BY MovesTyped DEF Inv, Destroyed, ReleaseSteps
<1>2. /\ behind[ptr[t]] \in Places /\ Asked(t)
      /\ ptr[t] \in Wrappers /\ ptr[t] \in Addresses /\ object[ptr[t]] = "wrapper" /\ Owns(t, ptr[t])
  BY <1>1 DEF Inv, Hand, Addresses, DyingSteps, Owns, Owning
<1>3. UNCHANGED <<object, behind, held, hooked, call, ptr>> /\ Forget(ptr[t])
  BY DEF Destroyed, memory
<1>4. Only(t)
  BY <1>1, <1>3 DEF Only, call
<1>5. \A u \in Threads : \A c : Owns(u, c)' <=> Owns(u, c)
  BY <1>1, <1>3 DEF Owns, Owning
<1>6. \A c : Withdraws(t, c) => c = ptr[t]
  BY <1>1 DEF Withdraws
<1>7. ~Told(ptr[t])
  BY <1>1, <1>2, OwnedExists DEF Told, Owns, Owning
<1>8. Asked(t)' /\ Hand(t)'
  BY <1>1, <1>2, <1>3 DEF Asked, Hand, DyingSteps, call
<1>9. ptr' \in [Threads -> Addresses \cup {Nowhere}]
  BY <1>3 DEF Inv, Typed
<1> QED
  BY <1>1, <1>2, <1>3, <1>4, <1>5, <1>6, <1>7, <1>8, <1>9, ForgetKeeps DEF DyingSteps

-----------------------------------------------------------------------------
LEMMA InvNext ==
  ASSUME FallBackToManaged, Inv, [Next]_vars
  PROVE  Inv'
<1>1. CASE UNCHANGED vars
  <2> USE <1>1 DEF vars, memory, ledger, history, call
  <2>1. Typed' /\ Memories' /\ HeldWell'
    BY DEF Inv, Typed, Memories, HeldWell
  <2>2. Apart' /\ Kept' /\ Wrapping'
    BY DEF Inv, Apart, Kept, Wrapping, Owns, Intact
  <2>3. Counted' /\ Expected'
    BY DEF Inv, Counted, Expected, Told, RightRecord, Counts, Withdraws
  <2>4. \A t \in Threads : Asked(t)' /\ Hand(t)'
    BY DEF Inv, Asked, Hand
  <2> QED
    BY <2>1, <2>2, <2>3, <2>4 DEF Inv
<1>2. ASSUME NEW t \in Threads, Creation(t) PROVE Inv'
  BY <1>2, RequestKeeps, CreateKeeps, CreateFailsKeeps, WrapKeeps, WrapFailsKeeps, FallBackKeeps, FallBackFailsKeeps,
     RetryKeeps, RetryFailsKeeps, GiveUpKeeps, RememberKeeps, AddHookKeeps
  DEF Creation
<1>3. ASSUME NEW t \in Threads, Destruction(t) PROVE Inv'
  BY <1>3, ReleaseBareKeeps, ReleaseWrapperKeeps, ForgetBareKeeps, ForgetUnwrappedKeeps, ForgetInnerKeeps,
     DestroyedKeeps, FreeWrapperKeeps
  DEF Destruction
<1> QED
  BY <1>1, <1>2, <1>3 DEF Next

(* The strengthened invariant of creation and ledger: who owns each        *)
(* texture, what each thread has in hand, and what it has still to tell    *)
(* the ledger.                                                             *)
THEOREM Invariance ==
  ASSUME FallBackToManaged PROVE Spec => []Inv
<1>1. Inv /\ [Next]_vars => Inv'
  BY InvNext
<1> QED
  BY <1>1, InvInit, PTL DEF Spec

(* A texture that was moved to DEFAULT is the game's only behind a         *)
(* wrapper.                                                                *)
THEOREM MovedOnlyWrapped ==
  ASSUME FallBackToManaged PROVE Spec => []RelocatedIsWrapped
<1>1. Inv => RelocatedIsWrapped
  BY DEF Inv, HeldWell, RelocatedIsWrapped
<1> QED
  BY <1>1, Invariance, PTL

(* The ledger has each texture the game holds, in its pool, however many   *)
(* threads create and release at the addresses of one another.             *)
THEOREM LedgerCounts ==
  ASSUME FallBackToManaged PROVE Spec => []HeldIsCounted
<1>1. Inv => HeldIsCounted
  BY DEF Inv, Typed, Counted, Told, RightRecord, HeldIsCounted
<1> QED
  BY <1>1, Invariance, PTL

(* The ledger has nothing else, but for releases under way and cubes.      *)
THEOREM LedgerHonest ==
  ASSUME FallBackToManaged PROVE Spec => []CountedExists
<1>1. Inv => CountedExists
  <2> SUFFICES ASSUME Inv, NEW a \in DOMAIN records
               PROVE  object[a] \in Bare \cup {"wrapper"} \/ a \in strays \/ \E t \in Threads : Withdraws(t, a)
    BY DEF CountedExists
  <2>1. Told(a) => object[a] \in Bare \cup {"wrapper"}
    BY ToldExists DEF Bare
  <2> QED
    BY <2>1 DEF Inv, Expected
<1> QED
  BY <1>1, Invariance, PTL

(* Every texture is somebody's.                                            *)
THEOREM TexturesKept ==
  ASSUME FallBackToManaged PROVE Spec => []NothingLost
<1>1. Inv => NothingLost
  <2> SUFFICES ASSUME Inv PROVE NothingLost
    OBVIOUS
  <2>1. \A t \in Threads, a \in Addresses : Owns(t, a) => InHand(t, a)
    BY DEF Owns, InHand, Owning, ReleaseSteps
  <2> QED
    BY <2>1 DEF Inv, Kept, Wrapping, Intact, NothingLost
<1> QED
  BY <1>1, Invariance, PTL
-----------------------------------------------------------------------------
(* The totals                                                              *)

MovedOnes == {a \in DOMAIN records : records[a].relocated}
TotalsInv == IsFiniteSet(DOMAIN records) /\ TotalsMatch

(* A set with one element more, or less, or the same again.                *)
LEMMA CountWith ==
  ASSUME NEW S, IsFiniteSet(S), NEW x
  PROVE  /\ IsFiniteSet(S \cup {x}) /\ IsFiniteSet(S \ {x})
         /\ Cardinality(S) \in Nat
         /\ Cardinality(S \cup {x}) = Cardinality(S) - Ones(x \in S) + 1
         /\ Cardinality(S \ {x}) = Cardinality(S) - Ones(x \in S)
<1>1. Cardinality(S) \in Nat
  BY FS_CardinalityType
<1>2. IsFiniteSet(S \cup {x}) /\ Cardinality(S \cup {x}) = IF x \in S THEN Cardinality(S) ELSE Cardinality(S) + 1
  BY FS_AddElement
<1>3. IsFiniteSet(S \ {x}) /\ Cardinality(S \ {x}) = IF x \in S THEN Cardinality(S) - 1 ELSE Cardinality(S)
  BY FS_RemoveElement
<1> QED
  BY <1>1, <1>2, <1>3 DEF Ones

LEMMA CreatedTotals ==
  ASSUME TotalsInv, NEW a, NEW r, NoteCreated(a, r)
  PROVE  TotalsInv'
<1> DEFINE D == DOMAIN records
           M == MovedOnes
<1>1. /\ DOMAIN records' = D \cup {a} /\ (\A b \in D \ {a} : records'[b] = records[b]) /\ records'[a] = r
  BY DEF NoteCreated
<1>2. MovedOnes' = (M \ {a}) \cup (IF r.relocated THEN {a} ELSE {})
  BY <1>1 DEF MovedOnes
<1>3. IsFiniteSet(D) /\ IsFiniteSet(M) /\ total = Cardinality(D) /\ relocated = Cardinality(M)
  BY FS_Subset DEF TotalsInv, TotalsMatch, MovedOnes
<1>4. (a \in D <=> Counts(records, a)) /\ (a \in M <=> Moved(records, a))
  BY DEF MovedOnes, Counts, Moved
<1> HIDE DEF D, M
<1>5. total' = Cardinality(D \cup {a})
  <2>1. total' = total - Ones(a \in D) + 1
    BY <1>4 DEF NoteCreated, Ones
  <2> QED
    BY <1>3, <2>1, CountWith
<1>6. relocated' = Cardinality(MovedOnes')
  <2>1. relocated' = relocated - Ones(a \in M) + Ones(r.relocated)
    BY <1>4 DEF NoteCreated, Ones
  <2>2. /\ IsFiniteSet(M \ {a}) /\ Cardinality(M \ {a}) = relocated - Ones(a \in M)
        /\ Cardinality(M \ {a}) \in Nat
    BY <1>3, CountWith, FS_CardinalityType
  <2>3. CASE r.relocated
    <3>1. Cardinality((M \ {a}) \cup {a}) = Cardinality(M \ {a}) + 1
      BY <2>2, FS_AddElement
    <3> QED
      BY <1>2, <2>1, <2>2, <2>3, <3>1 DEF Ones
  <2>4. CASE ~r.relocated
    <3>1. MovedOnes' = M \ {a}
      BY <1>2, <2>4
    <3> QED
      BY <2>1, <2>2, <2>4, <3>1 DEF Ones
  <2> QED
    BY <2>3, <2>4
<1> QED
  BY <1>1, <1>3, <1>5, <1>6, CountWith DEF TotalsInv, TotalsMatch, MovedOnes

LEMMA DestroyedTotals ==
  ASSUME TotalsInv, NEW a, NoteDestroyed(a)
  PROVE  TotalsInv'
<1> DEFINE D == DOMAIN records
           M == MovedOnes
<1>1. /\ DOMAIN records' = D \ {a} /\ (\A b \in D \ {a} : records'[b] = records[b])
  BY DEF NoteDestroyed
<1>2. MovedOnes' = M \ {a}
  BY <1>1 DEF MovedOnes
<1>3. IsFiniteSet(D) /\ IsFiniteSet(M) /\ total = Cardinality(D) /\ relocated = Cardinality(M)
  BY FS_Subset DEF TotalsInv, TotalsMatch, MovedOnes
<1>4. (a \in D <=> Counts(records, a)) /\ (a \in M <=> Moved(records, a))
  BY DEF MovedOnes, Counts, Moved
<1> HIDE DEF D, M
<1>5. total' = total - Ones(a \in D) /\ relocated' = relocated - Ones(a \in M)
  BY <1>4 DEF NoteDestroyed, Ones
<1>6. total' = Cardinality(D \ {a}) /\ relocated' = Cardinality(MovedOnes')
  BY <1>2, <1>3, <1>5, CountWith
<1> QED
  BY <1>1, <1>3, <1>6, CountWith DEF TotalsInv, TotalsMatch, MovedOnes

LEMMA TotalsKept == Spec => []TotalsInv
<1>1. Init => TotalsInv
  <2> SUFFICES ASSUME Init PROVE TotalsInv
    OBVIOUS
  <2>1. DOMAIN records = {} /\ total = 0 /\ relocated = 0 /\ {a \in DOMAIN records : records[a].relocated} = {}
    BY DEF Init
  <2> QED
    BY <2>1, FS_EmptySet DEF TotalsInv, TotalsMatch
<1>2. ASSUME TotalsInv, [Next]_vars PROVE TotalsInv'
  <2>1. CASE UNCHANGED ledger
    BY <1>2, <2>1 DEF TotalsInv, TotalsMatch, ledger
  <2>2. CASE UNCHANGED vars
    BY <1>2, <2>2 DEF TotalsInv, TotalsMatch, vars, ledger
  <2>3. ASSUME NEW t \in Threads, Creation(t) PROVE TotalsInv'
    <3>1. CASE Remember(t)
      BY <1>2, <3>1, CreatedTotals DEF Remember
    <3>2. CASE ~Remember(t)
      BY <2>1, <2>3, <3>2
      DEF Creation, Request, Create, CreateFails, Wrap, WrapFails, FallBack, FallBackFails,
          Retry, RetryFails, GiveUp, AddHook
    <3> QED
      BY <3>1, <3>2
  <2>4. ASSUME NEW t \in Threads, Destruction(t) PROVE TotalsInv'
    <3>1. ASSUME NEW a, Forget(a) PROVE TotalsInv'
      BY <1>2, <3>1, DestroyedTotals DEF Forget
    <3>2. CASE ForgetBare(t) \/ ForgetUnwrapped(t) \/ ForgetInner(t) \/ Destroyed(t)
      BY <3>1, <3>2 DEF ForgetBare, ForgetUnwrapped, ForgetInner, Destroyed
    <3>3. CASE FreeWrapper(t) \/ \E a \in Addresses : ReleaseBare(t, a) \/ ReleaseWrapper(t, a)
      BY <2>1, <3>3 DEF FreeWrapper, ReleaseBare, ReleaseWrapper
    <3> QED
      BY <2>4, <3>2, <3>3 DEF Destruction
  <2> QED
    BY <1>2, <2>2, <2>3, <2>4 DEF Next
<1> QED
  BY <1>1, <1>2, PTL DEF Spec

(* The two running totals are those of the records, whatever order the     *)
(* threads report in and whatever pools the policy allows.                 *)
THEOREM TotalsTrue == Spec => []TotalsMatch
<1>1. TotalsInv => TotalsMatch
  BY DEF TotalsInv
<1> QED
  BY <1>1, TotalsKept, PTL

(* The state is of its types; in particular the totals never fall below    *)
(* zero, and no thread retries more than three times.                      *)
THEOREM TypeCorrect ==
  ASSUME FallBackToManaged PROVE Spec => []TypeOK
<1>1. Inv /\ TotalsInv => TypeOK
  <2> SUFFICES ASSUME Inv, TotalsInv PROVE TypeOK
    OBVIOUS
  <2>1. IsFiniteSet(DOMAIN records) /\ IsFiniteSet({a \in DOMAIN records : records[a].relocated})
    BY FS_Subset DEF TotalsInv
  <2>2. total \in Nat /\ relocated \in Nat
    BY <2>1, FS_CardinalityType DEF TotalsInv, TotalsMatch
  <2> QED
    BY <2>2 DEF Inv, Typed, TypeOK
<1> QED
  BY <1>1, Invariance, TotalsKept, PTL
==============================================================================
