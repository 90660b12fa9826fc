----------------------------- MODULE ArenaProof -----------------------------
(***************************************************************************)
(* The counters of an arena are exact, its limit holds and a chunk is in   *)
(* one place, for every finite set of threads and of chunks and every      *)
(* limit.                                                                  *)
(***************************************************************************)
EXTENDS Arena, FiniteSetTheorems, TLAPS

Labels == {"idle", "get_check", "get_undo", "get_pop", "get_dec", "own",
           "rel_test", "rel_inc", "rel_push", "rel_used"}

TypeInv ==
    /\ used \in Int /\ released \in Int
    /\ lifo \in Seq(Chunks)
    /\ allocated \subseteq Chunks
    /\ refcount \in [Chunks -> Int]
    /\ pool \in [Chunks -> Nat]
    /\ pc \in [Threads -> Labels]
    /\ chunk \in [Threads -> Chunks \cup {NoChunk}]
    /\ \A t \in Owners : chunk[t] \in Chunks

\* The count of a chunk in use is that of the references its users hold, so
\* the decrement that brings it to zero is that of the last user.
RefcountInv == \A c \in Outside : refcount[c] = pool[c]

PlaceInv == TypeInv /\ OnePlace /\ RefcountInv

-----------------------------------------------------------------------------
(* The chunks outside, after each action.                                  *)

LEMMA InitPlace == ArenaAssumption /\ Init => PlaceInv
<1> SUFFICES ASSUME ArenaAssumption, Init PROVE PlaceInv
  OBVIOUS
<1>1. Owners = {} /\ Outside = {}
  BY DEF Init, Owners, Outside, At
<1>2. TypeInv
  BY <1>1 DEF Init, TypeInv, Labels, Garbage
<1>3. OnePlace
  BY <1>1 DEF Init, OnePlace
<1> QED
  BY <1>1, <1>2, <1>3 DEF PlaceInv, RefcountInv

\* A chunk is got: it was not outside.
LEMMA GetAdds ==
    ASSUME PlaceInv, NEW t \in Threads, GetChunk(t)
    PROVE  /\ chunk'[t] \in Chunks \ Outside
           /\ pc'[t] \in {"get_dec", "own"}
           /\ Outside' = Outside \cup {chunk'[t]}
           /\ Owners' = Owners \cup {t} /\ t \notin Owners
           /\ chunk' = [chunk EXCEPT ![t] = chunk'[t]] /\ pc' = [pc EXCEPT ![t] = pc'[t]]
           /\ \/ /\ lifo # <<>> /\ chunk'[t] = lifo[1]
                 /\ lifo' = Tail(lifo) /\ allocated' = allocated
              \/ /\ lifo = <<>> /\ lifo' = lifo
                 /\ allocated' = allocated \cup {chunk'[t]}
<1> DEFINE c == chunk'[t]
<1>1. /\ c \in Chunks /\ c \notin Outside
      /\ chunk' = [chunk EXCEPT ![t] = c]
      /\ pc' = [pc EXCEPT ![t] = pc'[t]] /\ pc'[t] \in {"get_dec", "own"}
      /\ \/ lifo # <<>> /\ c = lifo[1] /\ lifo' = Tail(lifo) /\ allocated' = allocated
         \/ lifo = <<>> /\ lifo' = lifo /\ allocated' = allocated \cup {c}
  <2>1. CASE lifo # <<>>
    <3>1. /\ chunk' = [chunk EXCEPT ![t] = Head(lifo)]
          /\ lifo' = Tail(lifo) /\ allocated' = allocated
      BY <2>1 DEF GetChunk
    <3>2. c = Head(lifo) /\ Head(lifo) = lifo[1] /\ 1 \in DOMAIN lifo
      BY <2>1, <3>1 DEF PlaceInv, TypeInv
    <3>3. c \in Chunks /\ c \notin Outside
      BY <2>1, <3>2 DEF PlaceInv, TypeInv, OnePlace
    <3>4. pc' = [pc EXCEPT ![t] = AfterPop] /\ AfterPop \in {"get_dec", "own"}
      BY <2>1 DEF GetChunk, Goto, AfterPop
    <3> QED
      BY <2>1, <3>1, <3>2, <3>3, <3>4 DEF PlaceInv, TypeInv
  <2>2. CASE lifo = <<>>
    <3>1. PICK x \in Chunks \ allocated :
              chunk' = [chunk EXCEPT ![t] = x] /\ allocated' = allocated \cup {x} /\ lifo' = lifo
      BY <2>2 DEF GetChunk
    <3>2. c = x
      BY <3>1 DEF PlaceInv, TypeInv
    <3>3. pc' = [pc EXCEPT ![t] = "own"]
      BY <2>2 DEF GetChunk, Goto, AfterMalloc
    <3> QED
      BY <2>2, <3>1, <3>2, <3>3 DEF PlaceInv, TypeInv, OnePlace
  <2> QED
    BY <2>1, <2>2
<1>2. pool' = pool /\ pc[t] = "get_pop"
  BY DEF GetChunk
<1>3. Owners' = Owners \cup {t} /\ t \notin Owners
  BY <1>1, <1>2 DEF Owners, At, PlaceInv, TypeInv
<1>4. /\ chunk'[t] = c
      /\ \A u \in Owners : chunk'[u] = chunk[u]
  BY <1>1, <1>3 DEF PlaceInv, TypeInv, Owners, At
<1>5. {chunk'[u] : u \in Owners'} = {chunk[u] : u \in Owners} \cup {c}
  BY <1>3, <1>4
<1>6. Outside' = Outside \cup {c}
  BY <1>2, <1>5 DEF Outside
<1> QED
  BY <1>1, <1>3, <1>6

\* A chunk is freed or put back: it was outside, and no longer is.
PutBack(t) == ReleasePush(t) \/ (ReleaseTest(t) /\ pc'[t] = "rel_used")

LEMMA PutBackRemoves ==
    ASSUME PlaceInv, NEW t \in Threads, PutBack(t)
    PROVE  /\ chunk[t] \in Outside /\ pool[chunk[t]] = 0
           /\ pc' = [pc EXCEPT ![t] = "rel_used"] /\ chunk' = chunk
           /\ Outside' = Outside \ {chunk[t]}
           /\ Owners' = Owners \ {t} /\ t \in Owners
<1>1. /\ pc' = [pc EXCEPT ![t] = "rel_used"] /\ chunk' = chunk /\ pool' = pool
      /\ pc[t] \in {"rel_test", "rel_push"}
  BY DEF PutBack, ReleasePush, ReleaseTest, Goto, PlaceInv, TypeInv
<1>2. Owners' = Owners \ {t} /\ t \in Owners
  BY <1>1 DEF Owners, At, PlaceInv, TypeInv
<1>3. chunk[t] \in Outside /\ chunk[t] \in Chunks /\ pool[chunk[t]] = 0
  BY <1>1, <1>2 DEF Outside, PlaceInv, TypeInv, OnePlace
<1>4. {chunk[u] : u \in Owners \ {t}} = {chunk[u] : u \in Owners} \ {chunk[t]}
  BY <1>2 DEF PlaceInv, OnePlace
<1>5. {x \in Chunks : pool[x] > 0} = {x \in Chunks : pool[x] > 0} \ {chunk[t]}
  BY <1>3
<1>6. Outside' = Outside \ {chunk[t]}
  BY <1>1, <1>2, <1>4, <1>5 DEF Outside
<1> QED
  BY <1>1, <1>2, <1>3, <1>6

\* No other action changes what is outside, whether the chunk it works on has
\* a thread or users.
Keep(t) ==
    \/ GetBegin(t) \/ GetCheck(t) \/ GetUndo(t) \/ GetDec(t)
    \/ (ReleaseTest(t) /\ pc'[t] # "rel_used") \/ ReleaseInc(t) \/ ReleaseUsed(t)

LEMMA KeepKeeps ==
    ASSUME PlaceInv, NEW t \in Threads, Keep(t)
    PROVE  Outside' = Outside /\ Owners' = Owners
<1>1. /\ pool' = pool /\ pc' = [pc EXCEPT ![t] = pc'[t]]
      /\ t \in Owners' <=> t \in Owners
      /\ \A u \in Owners : chunk'[u] = chunk[u]
  BY DEF Keep, GetBegin, GetCheck, GetUndo, GetDec, ReleaseTest, ReleaseInc, ReleaseUsed,
         Goto, Owners, At, PlaceInv, TypeInv
<1>2. Owners' = Owners
  BY <1>1 DEF Owners, At, PlaceInv, TypeInv
<1>3. {chunk'[u] : u \in Owners'} = {chunk[u] : u \in Owners}
  BY <1>1, <1>2
<1> QED
  BY <1>1, <1>2, <1>3 DEF Outside

\* The steps of the users: what has a reference, or an owner, still has one.
LEMMA RefKeeps ==
    ASSUME PlaceInv, NEW t \in Threads, Ref(t)
    PROVE  Outside' = Outside /\ Owners' = Owners
<1>1. chunk[t] \in Chunks /\ chunk[t] \in {chunk[u] : u \in Owners}
  BY DEF Ref, Owners, At, PlaceInv, TypeInv
<1>2. {x \in Chunks : pool'[x] > 0} = {x \in Chunks : pool[x] > 0} \cup {chunk[t]}
  BY <1>1 DEF Ref, PlaceInv, TypeInv
<1>3. Owners' = Owners /\ chunk' = chunk
  BY DEF Ref, Owners, At
<1> QED
  BY <1>1, <1>2, <1>3 DEF Outside

LEMMA HandOverKeeps ==
    ASSUME PlaceInv, NEW t \in Threads, HandOver(t)
    PROVE  Outside' = Outside /\ Owners' = Owners \ {t}
<1>1. Owners' = Owners \ {t} /\ t \in Owners
  BY DEF HandOver, Goto, Owners, At, PlaceInv, TypeInv
<1>2. \A u \in Owners \ {t} : chunk'[u] = chunk[u]
  BY DEF HandOver, Owners, At, PlaceInv, TypeInv
<1>3. {chunk[u] : u \in Owners} = {chunk'[u] : u \in Owners'} \cup {chunk[t]}
  BY <1>1, <1>2
<1>4. chunk[t] \in {x \in Chunks : pool[x] > 0} /\ pool' = pool
  BY <1>1 DEF HandOver, PlaceInv, TypeInv
<1> QED
  BY <1>1, <1>3, <1>4 DEF Outside

LEMMA ShareKeeps ==
    ASSUME PlaceInv, NEW t \in Threads, Share(t)
    PROVE  Outside' = Outside /\ Owners' = Owners
<1>1. PICK c \in Chunks : HandedOver(c) /\ pool' = [pool EXCEPT ![c] = @ + 1]
  BY DEF Share
<1>2. {x \in Chunks : pool'[x] > 0} = {x \in Chunks : pool[x] > 0}
  BY <1>1 DEF HandedOver, PlaceInv, TypeInv
<1>3. Owners' = Owners /\ chunk' = chunk
  BY DEF Share, Owners, At
<1> QED
  BY <1>2, <1>3 DEF Outside

\* Nobody owns a chunk that was handed over.
LEMMA HandedOverFree ==
    ASSUME PlaceInv, NEW c \in Chunks, HandedOver(c)
    PROVE  /\ c \in Outside /\ pool[c] > 0 /\ refcount[c] = pool[c]
           /\ \A u \in Owners : chunk[u] # c
<1>1. pool[c] > 0 /\ c \in Outside
  BY DEF HandedOver, Outside
<1>2. \A u \in Owners : chunk[u] # c
  BY <1>1 DEF HandedOver, PlaceInv, OnePlace, Owners, At
<1> QED
  BY <1>1, <1>2 DEF PlaceInv, RefcountInv

LEMMA UnrefKeeps ==
    ASSUME PlaceInv, NEW t \in Threads, Unref(t)
    PROVE  Outside' = Outside /\ Owners \subseteq Owners' /\ Owners' \subseteq Owners \cup {t}
<1>1. PICK c \in Chunks :
          /\ HandedOver(c)
          /\ pool' = [pool EXCEPT ![c] = @ - 1]
          /\ IF LastRef(c)
             THEN Goto(t, "rel_test") /\ chunk' = [chunk EXCEPT ![t] = c]
             ELSE UNCHANGED <<pc, chunk>>
  BY DEF Unref
<1>2. c \in Outside /\ pool[c] > 0 /\ refcount[c] = pool[c]
  BY <1>1, HandedOverFree
<1>3. t \notin Owners /\ pc[t] = "idle"
  BY DEF Unref, Owners, At
<1>4. CASE LastRef(c)
  <2>1. {x \in Chunks : pool'[x] > 0} = {x \in Chunks : pool[x] > 0} \ {c}
    BY <1>1, <1>2, <1>4 DEF LastRef, PlaceInv, TypeInv
  <2>2. Owners' = Owners \cup {t} /\ chunk'[t] = c
    BY <1>1, <1>4 DEF Goto, Owners, At, PlaceInv, TypeInv
  <2>3. \A u \in Owners : chunk'[u] = chunk[u]
    BY <1>1, <1>3, <1>4 DEF PlaceInv, TypeInv, Owners, At
  <2>4. {chunk'[u] : u \in Owners'} = {chunk[u] : u \in Owners} \cup {c}
    BY <2>2, <2>3
  <2>5. c \in {x \in Chunks : pool[x] > 0}
    BY <1>2
  <2> QED
    BY <2>1, <2>2, <2>4, <2>5 DEF Outside
<1>5. CASE ~LastRef(c)
  <2>1. {x \in Chunks : pool'[x] > 0} = {x \in Chunks : pool[x] > 0}
    BY <1>1, <1>2, <1>5 DEF LastRef, PlaceInv, TypeInv
  <2>2. Owners' = Owners /\ chunk' = chunk
    BY <1>1, <1>5 DEF Owners, At
  <2> QED
    BY <2>1, <2>2 DEF Outside
<1> QED
  BY <1>4, <1>5
-----------------------------------------------------------------------------
(* A chunk is in one place.                                                *)

LEMMA GetPlace ==
    ASSUME PlaceInv, NEW t \in Threads, GetChunk(t) PROVE PlaceInv'
<1> DEFINE c == chunk'[t]
<1>1. /\ c \in Chunks \ Outside
      /\ pc'[t] \in {"get_dec", "own"}
      /\ Outside' = Outside \cup {c}
      /\ Owners' = Owners \cup {t} /\ t \notin Owners
      /\ chunk' = [chunk EXCEPT ![t] = c] /\ pc' = [pc EXCEPT ![t] = pc'[t]]
      /\ \/ lifo # <<>> /\ c = lifo[1] /\ lifo' = Tail(lifo) /\ allocated' = allocated
         \/ lifo = <<>> /\ lifo' = lifo /\ allocated' = allocated \cup {c}
  BY GetAdds
<1>2. /\ \A u \in Threads \ {t} : chunk'[u] = chunk[u] /\ pc'[u] = pc[u]
      /\ pool' = pool /\ refcount' = [refcount EXCEPT ![c] = 0]
      /\ used' = used /\ released' = released
      /\ chunk' \in [Threads -> Chunks \cup {NoChunk}] /\ pc' \in [Threads -> Labels]
  BY <1>1 DEF GetChunk, PlaceInv, TypeInv, Labels
<1>3. /\ lifo' \in Seq(Chunks) /\ allocated' \subseteq Chunks
      /\ allocated \subseteq allocated' /\ c \in allocated'
      /\ \A i \in DOMAIN lifo' : lifo'[i] # c /\ lifo'[i] \in allocated'
                                 /\ lifo'[i] \notin Outside
      /\ \A i, j \in DOMAIN lifo' : lifo'[i] = lifo'[j] => i = j
  <2>1. CASE lifo # <<>>
    <3>1. lifo' = Tail(lifo) /\ allocated' = allocated /\ c = lifo[1]
      BY <1>1, <2>1
    <3>2. /\ lifo \in Seq(Chunks) /\ Len(lifo) > 0 /\ 1 \in DOMAIN lifo
          /\ DOMAIN lifo' = 1..(Len(lifo) - 1)
          /\ \A i \in DOMAIN lifo' : lifo'[i] = lifo[i + 1] /\ i + 1 \in DOMAIN lifo
      BY <2>1, <3>1 DEF PlaceInv, TypeInv
    <3>3. /\ \A i, j \in DOMAIN lifo : lifo[i] = lifo[j] => i = j
          /\ \A i \in DOMAIN lifo : lifo[i] \notin Outside /\ lifo[i] \in allocated
      BY DEF PlaceInv, OnePlace
    <3>4. \A i \in DOMAIN lifo' : lifo'[i] # c
      BY <3>1, <3>2, <3>3
    <3>5. \A i, j \in DOMAIN lifo' : lifo'[i] = lifo'[j] => i = j
      BY <3>2, <3>3
    <3>6. lifo' \in Seq(Chunks) /\ allocated' \subseteq Chunks
      BY <2>1, <3>1 DEF PlaceInv, TypeInv
    <3> QED
      BY <3>1, <3>2, <3>3, <3>4, <3>5, <3>6
  <2>2. CASE lifo = <<>>
    BY <1>1, <2>2 DEF PlaceInv, TypeInv
  <2> QED
    BY <2>1, <2>2
<1>4. TypeInv'
  <2>1. refcount' \in [Chunks -> Int] /\ pool' \in [Chunks -> Nat]
        /\ used' \in Int /\ released' \in Int
    BY <1>1, <1>2 DEF PlaceInv, TypeInv
  <2>2. \A u \in Owners : u \in Threads \ {t} /\ chunk[u] \in Chunks
    BY <1>1 DEF PlaceInv, TypeInv, Owners, At
  <2>3. \A u \in Owners' : chunk'[u] \in Chunks
    BY <1>1, <1>2, <2>2
  <2> QED
    BY <1>2, <1>3, <2>1, <2>3 DEF TypeInv
<1>5. OnePlace'
  <2>1. \A u \in Owners : u # t /\ chunk'[u] = chunk[u] /\ pc'[u] = pc[u] /\ chunk[u] \in Outside
    BY <1>1, <1>2 DEF Outside, Owners, At
  <2>2. pool[c] = 0
    BY <1>1 DEF Outside, PlaceInv, TypeInv
  <2> QED
    BY <1>1, <1>2, <1>3, <2>1, <2>2 DEF PlaceInv, OnePlace
<1>6. RefcountInv'
  <2>1. pool[c] = 0
    BY <1>1 DEF Outside, PlaceInv, TypeInv
  <2> QED
    BY <1>1, <1>2, <2>1 DEF RefcountInv, PlaceInv, TypeInv
<1> QED
  BY <1>4, <1>5, <1>6 DEF PlaceInv

LEMMA PutBackPlace ==
    ASSUME PlaceInv, NEW t \in Threads, PutBack(t) PROVE PlaceInv'
<1> DEFINE c == chunk[t]
<1>1. /\ c \in Outside /\ pool[c] = 0
      /\ pc' = [pc EXCEPT ![t] = "rel_used"] /\ chunk' = chunk
      /\ Outside' = Outside \ {c}
      /\ Owners' = Owners \ {t} /\ t \in Owners
  BY PutBackRemoves
<1>2. /\ pool' = pool /\ used' = used /\ released' = released
      /\ c \in Chunks /\ c \in allocated
  BY <1>1 DEF PutBack, ReleasePush, ReleaseTest, PlaceInv, TypeInv, OnePlace
<1>3. /\ refcount' \in [Chunks -> Int]
      /\ \A x \in Chunks \ {c} : refcount'[x] = refcount[x]
  BY <1>2 DEF PutBack, ReleasePush, ReleaseTest, Garbage, PlaceInv, TypeInv
<1>4. /\ lifo' \in Seq(Chunks) /\ allocated' \subseteq Chunks /\ Outside' \subseteq allocated'
      /\ \A i, j \in DOMAIN lifo' : lifo'[i] = lifo'[j] => i = j
      /\ \A i \in DOMAIN lifo' : lifo'[i] \notin Outside' /\ lifo'[i] \in allocated'
  <2>0. /\ \A i, j \in DOMAIN lifo : lifo[i] = lifo[j] => i = j
        /\ \A i \in DOMAIN lifo : lifo[i] \notin Outside /\ lifo[i] \in allocated
        /\ Outside \subseteq allocated /\ allocated \subseteq Chunks /\ lifo \in Seq(Chunks)
    BY DEF PlaceInv, TypeInv, OnePlace
  <2>1. CASE ReleasePush(t)
    <3>1. lifo' = <<c>> \o lifo /\ allocated' = allocated
      BY <2>1 DEF ReleasePush
    <3>2. /\ DOMAIN lifo' = 1..(Len(lifo) + 1) /\ lifo'[1] = c
          /\ \A i \in DOMAIN lifo' \ {1} : lifo'[i] = lifo[i - 1] /\ i - 1 \in DOMAIN lifo
      BY <1>2, <2>0, <3>1
    <3>3. \A i \in DOMAIN lifo' \ {1} : lifo'[i] # c
      BY <1>1, <2>0, <3>2
    <3>4. \A i, j \in DOMAIN lifo' : lifo'[i] = lifo'[j] => i = j
      BY <2>0, <3>2, <3>3
    <3>5. \A i \in DOMAIN lifo' : lifo'[i] \notin Outside' /\ lifo'[i] \in allocated'
      BY <1>1, <1>2, <2>0, <3>1, <3>2
    <3> QED
      BY <1>1, <1>2, <2>0, <3>1, <3>4, <3>5
  <2>2. CASE ReleaseTest(t) /\ pc'[t] = "rel_used"
    <3>1. lifo' = lifo /\ allocated' = allocated \ {c}
      BY <1>1, <2>2 DEF ReleaseTest, Goto, PlaceInv, TypeInv
    <3> QED
      BY <1>1, <2>0, <3>1
  <2> QED
    BY <2>1, <2>2 DEF PutBack
<1>5. TypeInv'
  <2>1. pc' \in [Threads -> Labels] /\ pool' \in [Chunks -> Nat]
        /\ chunk' \in [Threads -> Chunks \cup {NoChunk}]
        /\ used' \in Int /\ released' \in Int
    BY <1>1, <1>2 DEF PlaceInv, TypeInv, Labels
  <2>2. \A u \in Owners' : chunk'[u] \in Chunks
    BY <1>1 DEF PlaceInv, TypeInv
  <2> QED
    BY <1>3, <1>4, <2>1, <2>2 DEF TypeInv
<1>6. OnePlace'
  <2>1. \A u \in Owners' : u \in Owners /\ chunk'[u] = chunk[u] /\ pc'[u] = pc[u]
    BY <1>1 DEF Owners, At, PlaceInv, TypeInv
  <2> QED
    BY <1>2, <1>4, <2>1 DEF PlaceInv, OnePlace
<1>7. RefcountInv'
  <2>1. Outside \subseteq Chunks
    BY DEF PlaceInv, TypeInv, OnePlace
  <2> QED
    BY <1>1, <1>2, <1>3, <2>1 DEF RefcountInv, PlaceInv
<1> QED
  BY <1>5, <1>6, <1>7 DEF PlaceInv
LEMMA KeepPlace ==
    ASSUME PlaceInv, NEW t \in Threads, Keep(t) PROVE PlaceInv'
<1>1. Outside' = Outside /\ Owners' = Owners
  BY KeepKeeps
<1>2. /\ pool' = pool /\ refcount' = refcount /\ lifo' = lifo /\ allocated' = allocated
      /\ used' \in Int /\ released' \in Int
      /\ chunk' \in [Threads -> Chunks \cup {NoChunk}] /\ pc' \in [Threads -> Labels]
      /\ \A u \in Owners : chunk'[u] = chunk[u] /\ (pc[u] = "own" => pc'[u] = "own")
  <2> USE DEF Goto, PlaceInv, TypeInv, Labels, Owners, At
  <2>1. CASE GetBegin(t) \/ GetCheck(t) \/ GetUndo(t)
    BY <2>1 DEF GetBegin, GetCheck, GetUndo, Undone
  <2>2. CASE GetDec(t)
    BY <2>2 DEF GetDec
  <2>3. CASE ReleaseTest(t) /\ pc'[t] # "rel_used"
    BY <2>3 DEF ReleaseTest
  <2>4. CASE ReleaseInc(t)
    BY <2>4 DEF ReleaseInc
  <2>5. CASE ReleaseUsed(t)
    BY <2>5 DEF ReleaseUsed
  <2> QED
    BY <2>1, <2>2, <2>3, <2>4, <2>5 DEF Keep
<1>3. TypeInv'
  BY <1>1, <1>2 DEF PlaceInv, TypeInv
<1>4. OnePlace'
  BY <1>1, <1>2 DEF PlaceInv, OnePlace
<1>5. RefcountInv'
  BY <1>1, <1>2 DEF PlaceInv, RefcountInv
<1> QED
  BY <1>3, <1>4, <1>5 DEF PlaceInv

LEMMA RefPlace ==
    ASSUME PlaceInv, NEW t \in Threads, Ref(t) PROVE PlaceInv'
<1>1. Outside' = Outside /\ Owners' = Owners
  BY RefKeeps
<1>2. /\ t \in Owners /\ pc[t] = "own" /\ chunk[t] \in Chunks /\ chunk[t] \in Outside
      /\ pc' = pc /\ chunk' = chunk /\ lifo' = lifo /\ allocated' = allocated
      /\ used' = used /\ released' = released
      /\ pool' = [pool EXCEPT ![chunk[t]] = @ + 1]
      /\ refcount' = [refcount EXCEPT ![chunk[t]] = @ + 1]
  BY DEF Ref, Owners, Outside, At, PlaceInv, TypeInv
<1>3. TypeInv'
  BY <1>1, <1>2 DEF PlaceInv, TypeInv
<1>4. OnePlace'
  <2>1. \A u \in Owners : u # t => chunk[u] # chunk[t] /\ pool'[chunk[u]] = pool[chunk[u]]
    BY <1>2 DEF PlaceInv, TypeInv, OnePlace
  <2> QED
    BY <1>1, <1>2, <2>1 DEF PlaceInv, OnePlace
<1>5. RefcountInv'
  <2>1. \A c \in Outside : c \in Chunks /\ refcount[c] = pool[c]
    BY DEF PlaceInv, TypeInv, OnePlace, RefcountInv
  <2>2. \A c \in Outside : refcount'[c] = pool'[c]
    BY <1>2, <2>1 DEF PlaceInv, TypeInv
  <2> QED
    BY <1>1, <2>2 DEF RefcountInv
<1> QED
  BY <1>3, <1>4, <1>5 DEF PlaceInv

LEMMA HandOverPlace ==
    ASSUME PlaceInv, NEW t \in Threads, HandOver(t) PROVE PlaceInv'
<1>1. Outside' = Outside /\ Owners' = Owners \ {t}
  BY HandOverKeeps
<1>2. /\ pool' = pool /\ refcount' = refcount /\ lifo' = lifo /\ allocated' = allocated
      /\ used' = used /\ released' = released
      /\ chunk' = [chunk EXCEPT ![t] = NoChunk] /\ pc' = [pc EXCEPT ![t] = "idle"]
  BY DEF HandOver, Goto
<1>3. \A u \in Owners \ {t} : u \in Threads /\ chunk'[u] = chunk[u] /\ pc'[u] = pc[u]
  BY <1>2 DEF Owners, At, PlaceInv, TypeInv
<1>4. TypeInv'
  <2>1. chunk' \in [Threads -> Chunks \cup {NoChunk}] /\ pc' \in [Threads -> Labels]
    BY <1>2 DEF PlaceInv, TypeInv, Labels
  <2> QED
    BY <1>1, <1>2, <1>3, <2>1 DEF PlaceInv, TypeInv
<1>5. OnePlace'
  BY <1>1, <1>2, <1>3 DEF PlaceInv, OnePlace
<1>6. RefcountInv'
  BY <1>1, <1>2 DEF PlaceInv, RefcountInv
<1> QED
  BY <1>4, <1>5, <1>6 DEF PlaceInv

LEMMA SharePlace ==
    ASSUME PlaceInv, NEW t \in Threads, Share(t) PROVE PlaceInv'
<1>1. Outside' = Outside /\ Owners' = Owners
  BY ShareKeeps
<1>2. PICK c \in Chunks :
          /\ HandedOver(c)
          /\ pool' = [pool EXCEPT ![c] = @ + 1] /\ refcount' = [refcount EXCEPT ![c] = @ + 1]
  BY DEF Share
<1>3. /\ pc' = pc /\ chunk' = chunk /\ lifo' = lifo /\ allocated' = allocated
      /\ used' = used /\ released' = released
  BY DEF Share
<1>4. \A u \in Owners : chunk[u] # c
  BY <1>2, HandedOverFree
<1>5. TypeInv'
  BY <1>1, <1>2, <1>3 DEF PlaceInv, TypeInv
<1>6. OnePlace'
  <2>1. \A u \in Owners : pool'[chunk[u]] = pool[chunk[u]]
    BY <1>2, <1>4 DEF PlaceInv, TypeInv
  <2> QED
    BY <1>1, <1>3, <2>1 DEF PlaceInv, OnePlace
<1>7. RefcountInv'
  <2>1. \A x \in Outside : x \in Chunks /\ refcount[x] = pool[x]
    BY DEF PlaceInv, TypeInv, OnePlace, RefcountInv
  <2>2. \A x \in Outside : refcount'[x] = pool'[x]
    BY <1>2, <2>1 DEF PlaceInv, TypeInv
  <2> QED
    BY <1>1, <2>2 DEF RefcountInv
<1> QED
  BY <1>5, <1>6, <1>7 DEF PlaceInv

LEMMA UnrefPlace ==
    ASSUME PlaceInv, NEW t \in Threads, Unref(t) PROVE PlaceInv'
<1>1. Outside' = Outside /\ Owners \subseteq Owners' /\ Owners' \subseteq Owners \cup {t}
  BY UnrefKeeps
<1>2. PICK c \in Chunks :
          /\ HandedOver(c)
          /\ pool' = [pool EXCEPT ![c] = @ - 1] /\ refcount' = [refcount EXCEPT ![c] = @ - 1]
          /\ IF LastRef(c)
             THEN Goto(t, "rel_test") /\ chunk' = [chunk EXCEPT ![t] = c]
             ELSE UNCHANGED <<pc, chunk>>
  BY DEF Unref
<1>3. /\ lifo' = lifo /\ allocated' = allocated /\ used' = used /\ released' = released
      /\ pc[t] = "idle" /\ t \notin Owners
  BY DEF Unref, Owners, At
<1>4. /\ c \in Outside /\ pool[c] > 0 /\ refcount[c] = pool[c]
      /\ \A u \in Owners : chunk[u] # c
  BY <1>2, HandedOverFree
<1>5. \A u \in Owners : u \in Threads /\ u # t /\ chunk'[u] = chunk[u] /\ pc'[u] = pc[u]
  BY <1>2, <1>3 DEF Goto, Owners, At, PlaceInv, TypeInv
<1>6. /\ pool' \in [Chunks -> Nat] /\ refcount' \in [Chunks -> Int]
      /\ pool'[c] = pool[c] - 1
      /\ \A x \in Chunks \ {c} : pool'[x] = pool[x] /\ refcount'[x] = refcount[x]
      /\ refcount'[c] = pool'[c]
  BY <1>2, <1>4 DEF PlaceInv, TypeInv
<1>7. t \in Owners' => chunk'[t] = c /\ pool'[c] = 0
  BY <1>2, <1>3, <1>4, <1>6 DEF LastRef, Owners, At, PlaceInv, TypeInv
<1>8. TypeInv'
  <2>1. chunk' \in [Threads -> Chunks \cup {NoChunk}] /\ pc' \in [Threads -> Labels]
    BY <1>2 DEF Goto, PlaceInv, TypeInv, Labels
  <2>2. \A u \in Owners' : chunk'[u] \in Chunks
    BY <1>1, <1>2, <1>5, <1>7 DEF PlaceInv, TypeInv
  <2> QED
    BY <1>3, <1>6, <2>1, <2>2 DEF PlaceInv, TypeInv
<1>9. OnePlace'
  <2>1. \A u \in Owners : chunk[u] \in Chunks /\ pool'[chunk[u]] = pool[chunk[u]]
    BY <1>4, <1>6 DEF PlaceInv, TypeInv
  <2>2. \A u, v \in Owners' : chunk'[u] = chunk'[v] => u = v
    BY <1>1, <1>4, <1>5, <1>7 DEF PlaceInv, OnePlace
  <2>3. \A u \in Owners' : pool'[chunk'[u]] > 0 => pc'[u] = "own"
    BY <1>1, <1>5, <1>7, <2>1 DEF PlaceInv, OnePlace
  <2> QED
    BY <1>1, <1>3, <2>2, <2>3 DEF PlaceInv, OnePlace
<1>10. RefcountInv'
  <2>1. \A x \in Outside : x \in Chunks /\ refcount[x] = pool[x]
    BY DEF PlaceInv, TypeInv, OnePlace, RefcountInv
  <2> QED
    BY <1>1, <1>6, <2>1 DEF RefcountInv
<1> QED
  BY <1>8, <1>9, <1>10 DEF PlaceInv
-----------------------------------------------------------------------------
(* The counters.                                                           *)

\* The calls counted in used that have no chunk, those whose move between the
\* LIFO and the threads is still to be counted in released, and those the
\* limit lets through.
Calls  == At({"get_check", "get_undo", "get_pop", "rel_used"})
Moving == At({"get_dec", "rel_push"})
Passed == At({"get_pop"})

\* The chunks outside and the calls that will get one are within the limit:
\* they all counted themselves before the last of them was let through.
LimitInv == LimitsUsed => Cardinality(Outside) + Cardinality(Passed) <= MaxUsed

LEMMA AllFinite ==
    ASSUME ArenaAssumption, PlaceInv
    PROVE  /\ IsFiniteSet(Outside) /\ Cardinality(Outside) \in Nat
           /\ \A ls : IsFiniteSet(At(ls)) /\ Cardinality(At(ls)) \in Nat
<1>1. Outside \subseteq Chunks /\ IsFiniteSet(Chunks)
  BY DEF ArenaAssumption, PlaceInv, TypeInv, OnePlace
<1>2. \A ls : At(ls) \subseteq Threads /\ IsFiniteSet(Threads)
  BY DEF ArenaAssumption, At
<1> QED
  BY <1>1, <1>2, FS_Subset, FS_CardinalityType

\* A thread that moves is counted where it goes and no longer where it was.
LEMMA AtMoves ==
    ASSUME ArenaAssumption, PlaceInv, NEW t \in Threads, NEW l \in Labels,
           Goto(t, l), NEW ls
    PROVE  Cardinality(At(ls)') = Cardinality(At(ls))
               + (IF l \in ls THEN 1 ELSE 0) - (IF pc[t] \in ls THEN 1 ELSE 0)
<1>1. IsFiniteSet(At(ls)) /\ Cardinality(At(ls)) \in Nat
  BY AllFinite
<1>2. CASE l \in ls /\ pc[t] \notin ls
  <2>1. At(ls)' = At(ls) \cup {t} /\ t \notin At(ls)
    BY <1>2 DEF At, Goto, PlaceInv, TypeInv
  <2>2. Cardinality(At(ls) \cup {t}) = Cardinality(At(ls)) + 1
    BY <1>1, <2>1, FS_AddElement
  <2> QED
    BY <1>1, <1>2, <2>1, <2>2
<1>3. CASE l \notin ls /\ pc[t] \in ls
  <2>1. At(ls)' = At(ls) \ {t} /\ t \in At(ls)
    BY <1>3 DEF At, Goto, PlaceInv, TypeInv
  <2>2. Cardinality(At(ls) \ {t}) = Cardinality(At(ls)) - 1
    BY <1>1, <2>1, FS_RemoveElement
  <2> QED
    BY <1>1, <1>3, <2>1, <2>2
<1>4. CASE l \in ls <=> pc[t] \in ls
  <2>1. At(ls)' = At(ls)
    BY <1>4 DEF At, Goto, PlaceInv, TypeInv
  <2> QED
    BY <1>1, <1>4, <2>1
<1> QED
  BY <1>2, <1>3, <1>4

LEMMA CountsMove ==
    ASSUME ArenaAssumption, PlaceInv, NEW t \in Threads, NEW l \in Labels,
           Goto(t, l)
    PROVE  /\ Cardinality(Calls') = Cardinality(Calls)
               + (IF l \in {"get_check", "get_undo", "get_pop", "rel_used"} THEN 1 ELSE 0)
               - (IF pc[t] \in {"get_check", "get_undo", "get_pop", "rel_used"} THEN 1 ELSE 0)
           /\ Cardinality(Moving') = Cardinality(Moving)
               + (IF l \in {"get_dec", "rel_push"} THEN 1 ELSE 0)
               - (IF pc[t] \in {"get_dec", "rel_push"} THEN 1 ELSE 0)
           /\ Cardinality(Passed') = Cardinality(Passed)
               + (IF l \in {"get_pop"} THEN 1 ELSE 0)
               - (IF pc[t] \in {"get_pop"} THEN 1 ELSE 0)
  BY AtMoves DEF Calls, Moving, Passed

LEMMA CountsNat ==
    ASSUME ArenaAssumption, PlaceInv
    PROVE  /\ Cardinality(Outside) \in Nat /\ Cardinality(Calls) \in Nat
           /\ Cardinality(Moving) \in Nat /\ Cardinality(Passed) \in Nat
           /\ used \in Int /\ released \in Int /\ MaxUsed \in Nat /\ Len(lifo) \in Nat
  BY AllFinite DEF Calls, Moving, Passed, PlaceInv, TypeInv, ArenaAssumption

\* What the two invariants on the counters say.
CountInv ==
    /\ LimitsUsed => used = Cardinality(Outside) + Cardinality(Calls)
    /\ LimitsReleased => released = Len(lifo) + Cardinality(Moving)
    /\ LimitInv

LEMMA CountInvIs == CountInv <=> CountersExact /\ LimitInv
  BY DEF CountInv, CountersExact, Calls, Moving

LEMMA InitCount == ArenaAssumption /\ Init => CountInv
<1> SUFFICES ASSUME ArenaAssumption, Init PROVE CountInv
  OBVIOUS
<1>1. Outside = {} /\ Calls = {} /\ Moving = {} /\ Passed = {}
  BY DEF Init, Owners, Outside, At, Calls, Moving, Passed
<1>2. Cardinality({}) = 0
  BY FS_EmptySet
<1> QED
  BY <1>1, <1>2 DEF Init, CountInv, LimitInv, ArenaAssumption
\* The first half of a get counts it, its end gives it a chunk.
LEMMA BeginCount ==
    ASSUME ArenaAssumption, PlaceInv, CountInv, NEW t \in Threads,
           GetBegin(t) \/ GetUndo(t) \/ GetDec(t)
    PROVE  CountInv'
<1>1. Outside' = Outside
  BY KeepKeeps DEF Keep
<1>2. lifo' = lifo
  BY DEF GetBegin, GetUndo, GetDec
<1>3. CASE GetBegin(t)
  <2>1. PICK l \in {"get_check", "get_pop"} :
            /\ pc[t] = "idle" /\ Goto(t, l) /\ released' = released
            /\ LimitsUsed => l = "get_check" /\ used' = used + 1
    BY <1>3 DEF GetBegin
  <2>2. /\ l = "get_check" => /\ Cardinality(Calls') = Cardinality(Calls) + 1
                              /\ Cardinality(Passed') = Cardinality(Passed)
        /\ Cardinality(Moving') = Cardinality(Moving)
    BY <2>1, CountsMove, CountsNat DEF Labels
  <2> QED
    BY <1>1, <1>2, <2>1, <2>2, CountsNat DEF CountInv, LimitInv, LimitsUsed, LimitsReleased
<1>4. CASE GetUndo(t)
  <2>1. /\ pc[t] = "get_undo" /\ Goto(t, "idle")
        /\ released' = released /\ used' = used - 1
    BY <1>4 DEF GetUndo, Undone
  <2>2. /\ Cardinality(Calls') = Cardinality(Calls) - 1
        /\ Cardinality(Passed') = Cardinality(Passed)
        /\ Cardinality(Moving') = Cardinality(Moving)
    BY <2>1, CountsMove, CountsNat DEF Labels
  <2> QED
    BY <1>1, <1>2, <2>1, <2>2, CountsNat DEF CountInv, LimitInv, LimitsUsed, LimitsReleased
<1>5. CASE GetDec(t)
  <2>1. /\ pc[t] = "get_dec" /\ Goto(t, "own")
        /\ released' = released - 1 /\ used' = used
    BY <1>5 DEF GetDec
  <2>2. /\ Cardinality(Calls') = Cardinality(Calls)
        /\ Cardinality(Passed') = Cardinality(Passed)
        /\ Cardinality(Moving') = Cardinality(Moving) - 1
    BY <2>1, CountsMove, CountsNat, SMTT(20) DEF Labels
  <2> QED
    BY <1>1, <1>2, <2>1, <2>2, CountsNat DEF CountInv, LimitInv, LimitsUsed, LimitsReleased
<1> QED
  BY <1>3, <1>4, <1>5
\* The check lets a call through when what is counted, itself included, is
\* within the limit.
LEMMA CheckCount ==
    ASSUME ArenaAssumption, PlaceInv, CountInv, NEW t \in Threads, GetCheck(t)
    PROVE  CountInv'
<1>1. Outside' = Outside /\ lifo' = lifo /\ used' = used /\ released' = released
  BY KeepKeeps DEF Keep, GetCheck
<1>2. pc[t] = "get_check"
  BY DEF GetCheck
<1>3. CASE OverLimit
  <2>1. Goto(t, "get_undo")
    BY <1>3 DEF GetCheck
  <2>2. /\ Cardinality(Calls') = Cardinality(Calls)
        /\ Cardinality(Passed') = Cardinality(Passed)
        /\ Cardinality(Moving') = Cardinality(Moving)
    BY <1>2, <2>1, CountsMove, CountsNat DEF Labels
  <2> QED
    BY <1>1, <2>2, CountsNat DEF CountInv, LimitInv, LimitsUsed, LimitsReleased
<1>4. CASE ~OverLimit
  <2>1. Goto(t, "get_pop")
    BY <1>4 DEF GetCheck
  <2>2. /\ Cardinality(Calls') = Cardinality(Calls)
        /\ Cardinality(Passed') = Cardinality(Passed) + 1
        /\ Cardinality(Moving') = Cardinality(Moving)
    BY <1>2, <2>1, CountsMove, CountsNat DEF Labels
  <2>3. Cardinality(Passed) + 1 <= Cardinality(Calls)
    <3>1. Passed \cup {t} \subseteq Calls /\ t \notin Passed
      BY <1>2 DEF Passed, Calls, At
    <3>2. IsFiniteSet(Calls) /\ IsFiniteSet(Passed)
      BY AllFinite DEF Calls, Passed
    <3>3. Cardinality(Passed \cup {t}) = Cardinality(Passed) + 1
      BY <3>1, <3>2, FS_AddElement
    <3> QED
      BY <3>1, <3>2, <3>3, FS_Subset
  <2>4. used <= MaxUsed
    BY <1>4, CountsNat DEF OverLimit
  <2> QED
    BY <1>1, <2>2, <2>3, <2>4, CountsNat DEF CountInv, LimitInv, LimitsUsed, LimitsReleased
<1> QED
  BY <1>3, <1>4

LEMMA GetCount ==
    ASSUME ArenaAssumption, PlaceInv, CountInv, NEW t \in Threads, GetChunk(t)
    PROVE  CountInv'
<1>1. /\ Outside' = Outside \cup {chunk'[t]} /\ chunk'[t] \notin Outside
      /\ \/ lifo # <<>> /\ lifo' = Tail(lifo)
         \/ lifo = <<>> /\ lifo' = lifo
  BY GetAdds
<1>2. Cardinality(Outside') = Cardinality(Outside) + 1
  BY <1>1, AllFinite, FS_AddElement
<1>3. pc[t] = "get_pop" /\ used' = used /\ released' = released
  BY DEF GetChunk
<1>4. PICK l \in {"get_dec", "own"} :
          /\ Goto(t, l)
          /\ LimitsReleased => (l = "get_dec" <=> lifo # <<>>)
  BY DEF GetChunk, AfterPop, AfterMalloc
<1>5. /\ Cardinality(Calls') = Cardinality(Calls) - 1
      /\ Cardinality(Passed') = Cardinality(Passed) - 1
      /\ Cardinality(Moving') = Cardinality(Moving) + (IF l = "get_dec" THEN 1 ELSE 0)
  BY <1>3, <1>4, CountsMove, CountsNat DEF Labels
<1>6. Len(lifo') = IF lifo # <<>> THEN Len(lifo) - 1 ELSE Len(lifo)
  BY <1>1 DEF PlaceInv, TypeInv
<1>7. /\ (LimitsUsed => used = Cardinality(Outside) + Cardinality(Calls))'
      /\ LimitInv'
  BY <1>2, <1>3, <1>5, CountsNat, SMTT(20) DEF CountInv, LimitInv, LimitsUsed
<1>8. (LimitsReleased => released = Len(lifo) + Cardinality(Moving))'
  BY <1>3, <1>4, <1>5, <1>6, CountsNat DEF CountInv, LimitsReleased
<1> QED
  BY <1>7, <1>8 DEF CountInv

LEMMA PutBackCount ==
    ASSUME ArenaAssumption, PlaceInv, CountInv, NEW t \in Threads, PutBack(t)
    PROVE  CountInv'
<1>1. /\ Outside' = Outside \ {chunk[t]} /\ chunk[t] \in Outside
      /\ pc' = [pc EXCEPT ![t] = "rel_used"] /\ Goto(t, "rel_used")
  BY PutBackRemoves DEF Goto
<1>2. Cardinality(Outside') = Cardinality(Outside) - 1
  BY <1>1, AllFinite, FS_RemoveElement
<1>3. /\ used' = used /\ released' = released
      /\ \/ pc[t] = "rel_push" /\ Len(lifo') = Len(lifo) + 1
         \/ pc[t] = "rel_test" /\ Len(lifo') = Len(lifo)
  <2>1. CASE ReleasePush(t)
    <3>1. lifo \in Seq(Chunks) /\ chunk[t] \in Chunks /\ lifo' = <<chunk[t]>> \o lifo
      BY <1>1, <2>1 DEF ReleasePush, PlaceInv, TypeInv, OnePlace
    <3> QED
      BY <2>1, <3>1 DEF ReleasePush
  <2>2. CASE ReleaseTest(t) /\ pc'[t] = "rel_used"
    <3>1. lifo' = lifo
      BY <1>1, <2>2 DEF ReleaseTest, Goto, PlaceInv, TypeInv
    <3> QED
      BY <2>2, <3>1 DEF ReleaseTest
  <2> QED
    BY <2>1, <2>2 DEF PutBack
<1>4. /\ Cardinality(Calls') = Cardinality(Calls) + 1
      /\ Cardinality(Passed') = Cardinality(Passed)
      /\ Cardinality(Moving') = Cardinality(Moving) - (IF pc[t] = "rel_push" THEN 1 ELSE 0)
  BY <1>1, <1>3, CountsMove, CountsNat DEF Labels
<1>5. /\ (LimitsUsed => used = Cardinality(Outside) + Cardinality(Calls))'
      /\ LimitInv'
  BY <1>2, <1>3, <1>4, CountsNat, SMTT(20) DEF CountInv, LimitInv, LimitsUsed
<1>6. Len(lifo) \in Nat
  BY DEF PlaceInv, TypeInv
<1>7. (LimitsReleased => released = Len(lifo) + Cardinality(Moving))'
  <2>1. CASE pc[t] = "rel_push"
    BY <1>3, <1>4, <1>6, <2>1, CountsNat DEF CountInv, LimitsReleased
  <2>2. CASE pc[t] = "rel_test"
    BY <1>3, <1>4, <1>6, <2>2, CountsNat DEF CountInv, LimitsReleased
  <2> QED  BY <1>3, <2>1, <2>2
<1> QED
  BY <1>5, <1>7 DEF CountInv

LEMMA ReleaseCount ==
    ASSUME ArenaAssumption, PlaceInv, CountInv, NEW t \in Threads,
           (ReleaseTest(t) /\ pc'[t] # "rel_used") \/ ReleaseInc(t) \/ ReleaseUsed(t)
    PROVE  CountInv'
<1>1. Outside' = Outside /\ lifo' = lifo
  BY KeepKeeps DEF Keep, ReleaseTest, ReleaseInc, ReleaseUsed
<1>2. CASE ReleaseTest(t) /\ pc'[t] # "rel_used"
  <2>1. PICK l \in {"rel_inc", "rel_push"} :
            /\ Goto(t, l) /\ pc[t] = "rel_test" /\ used' = used /\ released' = released
            /\ LimitsReleased => l = "rel_inc"
    BY <1>2 DEF ReleaseTest, Goto, PlaceInv, TypeInv
  <2>2. /\ Cardinality(Calls') = Cardinality(Calls)
        /\ Cardinality(Passed') = Cardinality(Passed)
        /\ l = "rel_inc" => Cardinality(Moving') = Cardinality(Moving)
    BY <2>1, CountsMove, CountsNat DEF Labels
  <2> QED
    BY <1>1, <2>1, <2>2, CountsNat DEF CountInv, LimitInv, LimitsUsed, LimitsReleased
<1>3. CASE ReleaseInc(t)
  <2>1. /\ Goto(t, "rel_push") /\ pc[t] = "rel_inc"
        /\ used' = used /\ released' = released + 1
    BY <1>3 DEF ReleaseInc
  <2>2. /\ Cardinality(Calls') = Cardinality(Calls)
        /\ Cardinality(Passed') = Cardinality(Passed)
        /\ Cardinality(Moving') = Cardinality(Moving) + 1
    BY <2>1, CountsMove, CountsNat DEF Labels
  <2> QED
    BY <1>1, <2>1, <2>2, CountsNat DEF CountInv, LimitInv, LimitsUsed, LimitsReleased
<1>4. CASE ReleaseUsed(t)
  <2>1. /\ Goto(t, "idle") /\ pc[t] = "rel_used" /\ released' = released
        /\ used' = IF LimitsUsed THEN used - 1 ELSE used
    BY <1>4 DEF ReleaseUsed
  <2>2. /\ Cardinality(Calls') = Cardinality(Calls) - 1
        /\ Cardinality(Passed') = Cardinality(Passed)
        /\ Cardinality(Moving') = Cardinality(Moving)
    BY <2>1, CountsMove, CountsNat DEF Labels
  <2> QED
    BY <1>1, <2>1, <2>2, CountsNat DEF CountInv, LimitInv, LimitsUsed, LimitsReleased
<1> QED
  BY <1>2, <1>3, <1>4

LEMMA UserCount ==
    ASSUME ArenaAssumption, PlaceInv, CountInv, NEW t \in Threads,
           Ref(t) \/ HandOver(t) \/ Share(t) \/ Unref(t)
    PROVE  CountInv'
<1>1. Outside' = Outside
  BY RefKeeps, HandOverKeeps, ShareKeeps, UnrefKeeps
<1>2. lifo' = lifo /\ used' = used /\ released' = released
  BY DEF Ref, HandOver, Share, Unref
<1>3. /\ Cardinality(Calls') = Cardinality(Calls)
      /\ Cardinality(Passed') = Cardinality(Passed)
      /\ Cardinality(Moving') = Cardinality(Moving)
  <2>1. CASE pc' = pc
    BY <2>1 DEF Calls, Passed, Moving, At
  <2>2. CASE HandOver(t)
    <3>1. Goto(t, "idle") /\ pc[t] = "own"
      BY <2>2 DEF HandOver
    <3> QED
      BY <3>1, CountsMove, CountsNat DEF Labels
  <2>3. CASE Unref(t) /\ pc' # pc
    <3>1. Goto(t, "rel_test") /\ pc[t] = "idle"
      BY <2>3 DEF Unref
    <3> QED
      BY <3>1, CountsMove, CountsNat DEF Labels
  <2> QED
    BY <2>1, <2>2, <2>3 DEF Ref, Share
<1> QED
  BY <1>1, <1>2, <1>3, CountsNat DEF CountInv, LimitInv, LimitsUsed, LimitsReleased
-----------------------------------------------------------------------------
(* The theorems.                                                           *)

ArenaInv == PlaceInv /\ CountInv

LEMMA ArenaInvariant == Spec => []ArenaInv
<1>1. Init => ArenaInv
  BY ArenaAssumption, InitPlace, InitCount DEF ArenaInv
<1>2. ArenaInv /\ [Next]_vars => ArenaInv'
  <2> SUFFICES ASSUME ArenaInv, [Next]_vars PROVE ArenaInv'
    OBVIOUS
  <2> USE ArenaAssumption DEF ArenaInv
  <2>1. CASE UNCHANGED vars
    BY <2>1 DEF vars, PlaceInv, TypeInv, OnePlace, RefcountInv, CountInv, LimitInv,
                Outside, Owners, Calls, Moving, Passed, At
  <2>2. ASSUME NEW t \in Threads, GetBegin(t) \/ GetUndo(t) \/ GetDec(t) PROVE ArenaInv'
    BY <2>2, KeepPlace, BeginCount DEF Keep
  <2>3. ASSUME NEW t \in Threads, GetCheck(t) PROVE ArenaInv'
    BY <2>3, KeepPlace, CheckCount DEF Keep
  <2>4. ASSUME NEW t \in Threads, GetChunk(t) PROVE ArenaInv'
    BY <2>4, GetPlace, GetCount
  <2>5. ASSUME NEW t \in Threads, PutBack(t) PROVE ArenaInv'
    BY <2>5, PutBackPlace, PutBackCount
  <2>6. ASSUME NEW t \in Threads,
               (ReleaseTest(t) /\ pc'[t] # "rel_used") \/ ReleaseInc(t) \/ ReleaseUsed(t)
        PROVE  ArenaInv'
    BY <2>6, KeepPlace, ReleaseCount DEF Keep
  <2>7. ASSUME NEW t \in Threads, Ref(t) \/ HandOver(t) \/ Share(t) \/ Unref(t)
        PROVE  ArenaInv'
    BY <2>7, RefPlace, HandOverPlace, SharePlace, UnrefPlace, UserCount
  <2> QED
    BY <2>1, <2>2, <2>3, <2>4, <2>5, <2>6, <2>7 DEF Next, Get, Release, PutBack
<1> QED
  BY <1>1, <1>2, PTL DEF Spec

\* A chunk of the arena is in one place and a chunk somebody refers to is never
\* reused (dague_arena_get and AUNREF), for any number of threads and chunks.
THEOREM PlaceCorrect == Spec => []OnePlace
<1>1. ArenaInv => OnePlace
  BY DEF ArenaInv, PlaceInv
<1> QED
  BY <1>1, ArenaInvariant, PTL

\* used and released are exact in every state, calls in between included, so
\* the code's assertions that they are not negative hold, with any limits.
THEOREM CountersCorrect == Spec => []CountersExact
<1>1. ArenaInv => CountersExact
  BY CountInvIs DEF ArenaInv
<1> QED
  BY <1>1, ArenaInvariant, PTL

\* The limit max_used holds although dague_arena_get tests it after it has
\* counted itself and with a counter the other threads change.
THEOREM LimitCorrect == Spec => []OutsideWithinLimit
<1>1. ArenaInv => OutsideWithinLimit
  BY ArenaAssumption, CountsNat DEF ArenaInv, CountInv, LimitInv, OutsideWithinLimit, LimitsUsed
<1> QED
  BY <1>1, ArenaInvariant, PTL
=============================================================================
