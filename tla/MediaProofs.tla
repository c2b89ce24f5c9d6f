---------------------------- MODULE MediaProofs ----------------------------
(***************************************************************************)
(* What the jobs of a GPU worker keep, for every number of jobs, slots,    *)
(* readers and frames.  The caches stay bounded because who is between the *)
(* second check and the end of a load has the lock (Held), and what it     *)
(* found absent nobody else can add.  A reader is evicted under a thread   *)
(* only by a job of yet another set of languages: those in the cache and   *)
(* that of the job came with jobs begun so far, one more than there is     *)
(* room for.  Of a job that was not cancelled the place of the coroutine   *)
(* tells that of its thread (Threads); of one that was, only that the      *)
(* coroutine is over and which file its thread may still make (Kept).      *)
(***************************************************************************)
EXTENDS Media, FiniteSetTheorems, SequenceTheorems, TLAPS

ImageModels == {Model(j) : j \in {i \in Begun : Class(i) = "image"}}
Exceeded == Cardinality(ImageModels) > MaxReaders

\* Who has the lock of a class is at work under it, and the other way round.
Held ==
  /\ \A c \in Classes : lock[c] # NoJob =>
       Class(lock[c]) = c /\ th[lock[c]] \in {"recheck", "load"}
  /\ \A j \in Jobs : th[j] \in {"recheck", "load"} => lock[Class(j)] = j

\* Only models of jobs that have begun are cached.
Used ==
  \A c \in Classes : \A i \in DOMAIN cached[c] :
    \E j \in Begun : Class(j) = c /\ Model(j) = cached[c][i]

\* A thread that goes on without the lock finds its model.
Found == \A j \in Jobs : th[j] = "get" => Cached(j) \/ Exceeded

ModelTypes ==
  /\ job \in Mixes
  /\ cached \in [Classes -> Seq(Models)] /\ lock \in [Classes -> Jobs \cup {NoJob}]
  /\ th \in [Jobs -> ThreadPlaces]

ModelInv == ModelTypes /\ Held /\ ReadersBounded /\ Used /\ Found

\* Where the thread of a coroutine is.
ThreadsOf(place) ==
  CASE place = "convert" -> {"ffmpeg"}
    [] place = "infer" -> {"check", "wait", "recheck", "load", "get", "run"}
    [] place = "frames" -> {"cut"}
    [] OTHER -> {"none"}

ThreadAt(j) ==
  /\ outcome[j] # "cancelled" => th[j] \in ThreadsOf(co[j])
  /\ outcome[j] = "cancelled" => co[j] = "end"
  /\ th[j] \in {"ffmpeg", "cut"} => Class(j) = "video"

Threads == \A j \in Jobs : ThreadAt(j)

\* The files of an ended job, and those that its thread may still make.
FilesAt(j) ==
  co[j] = "end" =>
    /\ FilesOf(j) # {} =>
         /\ Class(j) = "video"
         /\ \/ outcome[j] = "nofile" /\ FilesOf(j) = {<<j, "source">>}
            \/ outcome[j] = "cancelled" /\ FilesOf(j) \in {{<<j, "wav">>}, {<<j, "frames">>}}
    /\ th[j] = "ffmpeg" => FilesOf(j) = {}

KeyErrors == \A j \in Jobs : outcome[j] = "keyerror" => Exceeded

Kinds == {"source", "wav", "frames"}

JobTypes ==
  /\ co \in [Jobs -> Places] /\ outcome \in [Jobs -> Outcomes]
  /\ files \subseteq Jobs \X Kinds
  /\ captions \in [Jobs -> [1 .. Frames -> Captions]]
  /\ IsFiniteSet(Running) /\ Cardinality(Running) <= Slots

Kept == \A j \in Jobs : FilesAt(j)

JobInv == JobTypes /\ Threads /\ KeyErrors /\ Kept

MediaInv == ModelInv /\ JobInv

-----------------------------------------------------------------------------
(* The models. *)

LEMMA JobFacts ==
  ASSUME ModelTypes, NEW j \in Jobs
  PROVE  /\ Class(j) \in Classes /\ Model(j) \in Models
         /\ cached[Class(j)] \in Seq(Models) /\ Len(cached[Class(j)]) \in Nat
         /\ DOMAIN cached[Class(j)] = 1 .. Len(cached[Class(j)])
         /\ \A i \in Jobs : Class(i) = Class(j) /\ Class(i) # "image" => Model(i) = Model(j)
<1>1. job \in [Jobs -> [class : Classes, model : Models, vision : BOOLEAN]]
  BY MediaAssumption DEF ModelTypes
<1>2. Class(j) \in Classes /\ Model(j) \in Models
  BY <1>1 DEF Class, Model
<1>3. cached[Class(j)] \in Seq(Models)
  BY <1>2 DEF ModelTypes
<1>4. \A i \in Jobs : Class(i) = Class(j) /\ Class(i) # "image" => Model(i) = Model(j)
  BY MediaAssumption DEF ModelTypes, Class, Model
<1> QED
  BY <1>2, <1>3, <1>4, LenProperties

\* What has begun stays begun, so that the sets of languages are no fewer later.
LEMMA ExceededLater ==
  ASSUME job' = job, Begun \subseteq Begun', Exceeded
  PROVE  Exceeded'
<1>1. ImageModels \subseteq ImageModels'
  BY DEF ImageModels, Class, Model
<1>2. IsFiniteSet(ImageModels')
  <2> DEFINE these == {i \in Jobs : co'[i] # "start" /\ job'[i].class = "image"}
             m == [i \in these |-> job'[i].model]
  <2>1. IsFiniteSet(these)
    BY MediaAssumption, FS_Subset
  <2>2. ImageModels' = {job'[i].model : i \in these}
    BY DEF ImageModels, Begun, Class, Model
  <2>3. m \in Surjection(these, ImageModels')
    BY <2>2 DEF Surjection
  <2> QED
    BY <2>1, <2>3, FS_Surjection
<1>3. IsFiniteSet(ImageModels) /\ Cardinality(ImageModels) <= Cardinality(ImageModels')
  BY <1>1, <1>2, FS_Subset
<1>4. Cardinality(ImageModels) \in Nat /\ Cardinality(ImageModels') \in Nat /\ MaxReaders \in Nat
  BY <1>2, <1>3, FS_CardinalityType, MediaAssumption
<1> QED
  BY <1>3, <1>4 DEF Exceeded

LEMMA UsedLater ==
  ASSUME Used, UNCHANGED <<job, cached>>, Begun \subseteq Begun'
  PROVE  Used'
<1>1. \A j : (Class(j))' = Class(j) /\ (Model(j))' = Model(j)
  BY DEF Class, Model
<1>2. ASSUME NEW c \in Classes, NEW i \in DOMAIN cached[c]
      PROVE  \E j \in Begun' : Class(j) = c /\ Model(j) = cached[c][i]
  BY <1>2 DEF Used
<1> QED
  BY <1>1, <1>2 DEF Used

\* A thread that is not under the lock, before its step or after it.
LEMMA ModelStill ==
  ASSUME ModelInv, Begun \subseteq Begun', NEW j \in Jobs, NEW p \in ThreadPlaces \ {"recheck", "load"},
         UNCHANGED <<job, cached, lock>>, th' = [th EXCEPT ![j] = p],
         th[j] \notin {"recheck", "load"}, p = "get" => Cached(j)
  PROVE  ModelInv'
<1>1. ModelTypes'
  BY DEF ModelInv, ModelTypes
<1>2. \A i \in Jobs : th'[i] = IF i = j THEN p ELSE th[i]
  BY DEF ModelInv, ModelTypes
<1>3. \A i \in Jobs : (Class(i))' = Class(i) /\ (Model(i))' = Model(i) /\ (Cached(i))' = Cached(i)
  BY DEF Class, Model, Cached
<1>4. Exceeded => Exceeded'
  BY ExceededLater
<1>5. Held'
  <2>1. \A c \in Classes : lock[c] # NoJob => lock[c] \in Jobs
    BY DEF ModelInv, ModelTypes
  <2> QED
    BY <1>2, <1>3, <2>1 DEF ModelInv, Held
<1>6. ReadersBounded'
  BY <1>2, <1>3 DEF ModelInv, ReadersBounded
<1>7. Used'
  BY UsedLater DEF ModelInv
<1>8. Found'
  BY <1>2, <1>3, <1>4 DEF ModelInv, Found
<1> QED
  BY <1>1, <1>5, <1>6, <1>7, <1>8 DEF ModelInv

LEMMA ModelsUnchanged ==
  ASSUME ModelInv, Begun \subseteq Begun', UNCHANGED <<job, cached, lock, th>>
  PROVE  ModelInv'
<1>1. \A i \in Jobs : (Class(i))' = Class(i) /\ (Model(i))' = Model(i) /\ (Cached(i))' = Cached(i)
  BY DEF Class, Model, Cached
<1>2. Exceeded => Exceeded'
  BY ExceededLater
<1>3. Used' /\ Found'
  BY <1>1, <1>2, UsedLater DEF ModelInv, Found
<1> QED
  BY <1>1, <1>3 DEF ModelInv, ModelTypes, Held, ReadersBounded, Class

\* The lock is taken.
LEMMA LockModel ==
  ASSUME ModelInv, NEW j \in Jobs, Lock(j)
  PROVE  ModelInv'
<1>1. /\ th[j] = "wait" /\ lock[Class(j)] = NoJob /\ UNCHANGED <<job, cached>>
      /\ lock' = [lock EXCEPT ![Class(j)] = j] /\ th' = [th EXCEPT ![j] = "recheck"]
  BY DEF Lock, Thread, Stays
<1>2. Class(j) \in Classes /\ \A i \in Jobs : Class(i) \in Classes
  BY JobFacts DEF ModelInv
<1>3. ModelTypes'
  BY <1>1 DEF ModelInv, ModelTypes, ThreadPlaces
<1>4. \A i \in Jobs : th'[i] = IF i = j THEN "recheck" ELSE th[i]
  BY <1>1 DEF ModelInv, ModelTypes
<1>5. \A c \in Classes : lock'[c] = IF c = Class(j) THEN j ELSE lock[c]
  BY <1>1, <1>2 DEF ModelInv, ModelTypes
<1>6. \A i \in Jobs : (Class(i))' = Class(i) /\ (Model(i))' = Model(i) /\ (Cached(i))' = Cached(i)
  BY <1>1 DEF Class, Model, Cached
<1>7. Begun' = Begun /\ Exceeded' = Exceeded
  BY <1>1 DEF Lock, Stays, Begun, Exceeded, ImageModels, Class, Model
<1>8. Held'
  <2>1. ASSUME NEW c \in Classes, lock'[c] # NoJob
        PROVE  (Class(lock[c]))' = c /\ th'[lock'[c]] \in {"recheck", "load"}
    <3>1. (Class(lock[c]))' = Class(lock'[c])
      BY <1>1 DEF Class
    <3>2. CASE c = Class(j)
      BY <1>4, <1>5, <3>1, <3>2
    <3>3. CASE c # Class(j)
      <4>1. lock'[c] = lock[c] /\ lock[c] \in Jobs /\ lock[c] # j
        <5>1. lock'[c] = lock[c] /\ lock[c] \in Jobs
          BY <1>5, <2>1, <3>3 DEF ModelInv, ModelTypes
        <5> QED
          BY <1>1, <2>1, <5>1 DEF ModelInv, Held
      <4>2. Class(lock[c]) = c /\ th[lock[c]] \in {"recheck", "load"}
        BY <2>1, <4>1 DEF ModelInv, Held
      <4> QED
        BY <1>4, <3>1, <4>1, <4>2
    <3> QED
      BY <3>2, <3>3
  <2>2. ASSUME NEW i \in Jobs, th'[i] \in {"recheck", "load"}
        PROVE  lock'[Class(i)] = i
    <3>1. CASE i = j
      BY <1>2, <1>5, <3>1
    <3>2. CASE i # j
      <4>1. lock[Class(i)] = i /\ Class(i) # Class(j)
        BY <1>1, <1>4, <2>2, <3>2, MediaAssumption DEF ModelInv, Held
      <4> QED
        BY <1>2, <1>5, <4>1
    <3> QED
      BY <3>1, <3>2
  <2>3. \A i \in Jobs : lock'[(Class(i))'] = lock'[Class(i)]
    BY <1>6
  <2> QED
    BY <2>1, <2>2, <2>3 DEF Held
<1>9. ReadersBounded'
  BY <1>1, <1>4, <1>6 DEF ModelInv, ReadersBounded
<1>10. Used' /\ Found'
  BY <1>1, <1>4, <1>6, <1>7, UsedLater DEF ModelInv, Found
<1> QED
  BY <1>3, <1>8, <1>9, <1>10 DEF ModelInv

\* The lock is given back by the thread that has it.
LEMMA UnlockHeld ==
  ASSUME ModelInv, NEW j \in Jobs, th[j] \in {"recheck", "load"}, Unlock(j), job' = job,
         NEW p \in ThreadPlaces \ {"recheck", "load"}, th' = [th EXCEPT ![j] = p]
  PROVE  /\ Held' /\ lock' \in [Classes -> Jobs \cup {NoJob}] /\ th' \in [Jobs -> ThreadPlaces]
         /\ \A i \in Jobs : th'[i] = IF i = j THEN p ELSE th[i]
         /\ \A i \in Jobs : Class(i) = Class(j) /\ i # j => th[i] \notin {"recheck", "load"}
<1>1. Class(j) \in Classes /\ \A i \in Jobs : Class(i) \in Classes
  BY JobFacts DEF ModelInv
<1>2. \A i \in Jobs : th'[i] = IF i = j THEN p ELSE th[i]
  BY DEF ModelInv, ModelTypes
<1>3. /\ \A c \in Classes : lock'[c] = IF c = Class(j) THEN NoJob ELSE lock[c]
      /\ lock' \in [Classes -> Jobs \cup {NoJob}]
  BY <1>1 DEF Unlock, ModelInv, ModelTypes
<1>4. \A i \in Jobs : (Class(i))' = Class(i)
  BY DEF Class
<1>5. lock[Class(j)] = j
  BY DEF ModelInv, Held
<1>6. \A i \in Jobs : Class(i) = Class(j) /\ i # j => th[i] \notin {"recheck", "load"}
  BY <1>5 DEF ModelInv, Held
<1>7. ASSUME NEW c \in Classes, lock'[c] # NoJob
      PROVE  (Class(lock[c]))' = c /\ th'[lock'[c]] \in {"recheck", "load"}
  <2>1. c # Class(j) /\ lock'[c] = lock[c] /\ lock[c] \in Jobs
    BY <1>3, <1>7 DEF ModelInv, ModelTypes
  <2>2. Class(lock[c]) = c /\ th[lock[c]] \in {"recheck", "load"}
    BY <1>7, <2>1 DEF ModelInv, Held
  <2>3. (Class(lock[c]))' = Class(lock[c])
    BY <2>1 DEF Class
  <2>4. lock[c] # j
    BY <2>1, <2>2
  <2> QED
    BY <1>2, <2>1, <2>2, <2>3, <2>4
<1>8. ASSUME NEW i \in Jobs, th'[i] \in {"recheck", "load"}
      PROVE  lock'[(Class(i))'] = i
  <2>1. i # j /\ th[i] \in {"recheck", "load"}
    BY <1>2, <1>8
  <2>2. lock[Class(i)] = i /\ Class(i) # Class(j)
    BY <1>6, <2>1 DEF ModelInv, Held
  <2> QED
    BY <1>1, <1>3, <1>4, <2>2
<1>9. Held'
  BY <1>7, <1>8 DEF Held
<1>10. th' \in [Jobs -> ThreadPlaces]
  BY DEF ModelInv, ModelTypes
<1> QED
  BY <1>2, <1>3, <1>6, <1>9, <1>10

\* The cache is full, and its models and that of the job are all in use.
LEMMA FullExceeded ==
  ASSUME ModelInv, NEW j \in Begun, ~Cached(j), Len(cached[Class(j)]) >= MaxReaders
  PROVE  Class(j) = "image" /\ Exceeded
<1> DEFINE s == cached[Class(j)]
           n == Len(s)
           f == [i \in 1 .. n + 1 |-> IF i = n + 1 THEN Model(j) ELSE s[i]]
<1>1. /\ j \in Jobs /\ Class(j) \in Classes /\ n \in Nat /\ DOMAIN s = 1 .. n /\ MaxReaders \in Nat \ {0}
      /\ \A i \in Jobs : Class(i) = Class(j) /\ Class(i) # "image" => Model(i) = Model(j)
  BY JobFacts, MediaAssumption DEF ModelInv, Begun
<1>2. \A i \in 1 .. n : s[i] # Model(j) /\ \E k \in Begun : Class(k) = Class(j) /\ Model(k) = s[i]
  BY <1>1 DEF ModelInv, Used, Cached
<1>3. Class(j) = "image"
  <2>1. 1 \in 1 .. n
    BY <1>1
  <2> QED
    BY <1>1, <1>2, <2>1 DEF Begun
<1>4. \A i \in 1 .. n : s[i] \in ImageModels
  BY <1>2, <1>3 DEF ImageModels
<1>5. Model(j) \in ImageModels
  BY <1>3 DEF ImageModels
<1>6. \A a, b \in 1 .. n : s[a] = s[b] => a = b
  BY <1>1 DEF ModelInv, ReadersBounded, IsInjective
<1>7. f \in Injection(1 .. n + 1, ImageModels)
  <2>1. f \in [1 .. n + 1 -> ImageModels]
    BY <1>1, <1>4, <1>5
  <2>2. \A a, b \in 1 .. n + 1 : f[a] = f[b] => a = b
    <3>1. ASSUME NEW a \in 1 .. n + 1, NEW b \in 1 .. n + 1, f[a] = f[b] PROVE a = b
      <4>1. CASE a = n + 1 /\ b # n + 1
        BY <1>1, <1>2, <3>1, <4>1
      <4>2. CASE a # n + 1 /\ b = n + 1
        BY <1>1, <1>2, <3>1, <4>2
      <4>3. CASE a # n + 1 /\ b # n + 1
        <5>1. a \in 1 .. n /\ b \in 1 .. n
          BY <1>1, <4>3
        <5> QED
          BY <1>6, <3>1, <4>3, <5>1
      <4> QED
        BY <4>1, <4>2, <4>3
    <3> QED
      BY <3>1
  <2>3. IsInjective(f)
    BY <2>1, <2>2 DEF IsInjective
  <2> QED
    BY <2>1, <2>3 DEF Injection
<1>8. IsFiniteSet(ImageModels)
  <2>1. IsFiniteSet(Jobs)
    BY MediaAssumption
  <2>2. IsFiniteSet({i \in Begun : Class(i) = "image"})
    BY <2>1, FS_Subset DEF Begun
  <2> DEFINE m == [i \in {k \in Begun : Class(k) = "image"} |-> Model(i)]
  <2>3. m \in Surjection({i \in Begun : Class(i) = "image"}, ImageModels)
    BY DEF Surjection, ImageModels
  <2> QED
    BY <2>2, <2>3, FS_Surjection
<1>9. Cardinality(1 .. n + 1) = n + 1 /\ Cardinality(1 .. n + 1) <= Cardinality(ImageModels)
  <2>1. Cardinality(1 .. n + 1) = n + 1
    BY <1>1, FS_Interval
  <2> QED
    BY <1>7, <1>8, <2>1, FS_Injection
<1>10. Cardinality(ImageModels) \in Nat
  BY <1>8, FS_CardinalityType
<1> QED
  BY <1>1, <1>3, <1>9, <1>10 DEF Exceeded

\* What is said of the models of a class that a step leaves alone.
LEMMA OtherClass ==
  ASSUME ModelInv, NEW j \in Jobs, job' = job, Begun' = Begun,
         NEW s \in Seq(Models), cached' = [cached EXCEPT ![Class(j)] = s]
  PROVE  /\ cached' \in [Classes -> Seq(Models)]
         /\ \A c \in Classes : cached'[c] = IF c = Class(j) THEN s ELSE cached[c]
         /\ \A i \in Jobs : (Class(i))' = Class(i) /\ (Model(i))' = Model(i) /\ Class(i) \in Classes
         /\ \A i \in Jobs : Class(i) # Class(j) => (Cached(i))' = Cached(i)
         /\ Exceeded' = Exceeded
<1>1. \A i \in Jobs : (Class(i))' = Class(i) /\ (Model(i))' = Model(i) /\ Class(i) \in Classes
  BY JobFacts DEF Class, Model, ModelInv
<1>2. /\ cached' \in [Classes -> Seq(Models)]
      /\ \A c \in Classes : cached'[c] = IF c = Class(j) THEN s ELSE cached[c]
  BY <1>1 DEF ModelInv, ModelTypes
<1>3. \A i \in Jobs : Class(i) # Class(j) => (Cached(i))' = Cached(i)
  BY <1>1, <1>2 DEF Cached
<1>4. Exceeded' = Exceeded
  BY DEF Exceeded, ImageModels, Class, Model
<1> QED
  BY <1>1, <1>2, <1>3, <1>4

\* What a cache keeps when a model is to be added.
Room(s) == IF Len(s) >= MaxReaders THEN Tail(s) ELSE s

LEMMA Evicted ==
  ASSUME NEW s \in Seq(Models), IsInjective(s), Len(s) <= MaxReaders
  PROVE  /\ Room(s) \in Seq(Models) /\ IsInjective(Room(s)) /\ Len(Room(s)) < MaxReaders
         /\ \A i \in DOMAIN Room(s) : \E k \in DOMAIN s : Room(s)[i] = s[k]
<1>1. Len(s) \in Nat /\ DOMAIN s = 1 .. Len(s) /\ MaxReaders \in Nat \ {0}
  BY LenProperties, MediaAssumption
<1>2. CASE Len(s) >= MaxReaders
  <2>1. PICK n : n \in Nat /\ n = Len(s) /\ n = MaxReaders
    <3>1. \A m, n \in Nat : m <= n /\ m >= n => m = n
      OBVIOUS
    <3>2. Len(s) = MaxReaders
      BY <1>1, <1>2, <3>1
    <3> QED
      BY <1>1, <3>2
  <2>2. s # << >>
    <3>1. n # 0
      BY <1>1, <2>1
    <3>2. Len(<< >>) = 0
      OBVIOUS
    <3> QED
      BY <2>1, <3>1, <3>2
  <2>3. PICK e : e = Tail(s)
    OBVIOUS
  <2>4. /\ e \in Seq(Models) /\ Len(e) = n - 1
        /\ \A i \in 1 .. Len(e) : e[i] = s[i + 1]
    BY <2>1, <2>2, <2>3, HeadTailProperties
  <2>5. DOMAIN e = 1 .. n - 1
    BY <2>4, LenProperties
  <2>6. \A i \in DOMAIN e : e[i] = s[i + 1] /\ i + 1 \in DOMAIN s /\ i \in Nat
    BY <1>1, <2>1, <2>4, <2>5
  <2>7. IsInjective(e)
    BY <2>6 DEF IsInjective
  <2>8. Room(s) = e
    BY <1>2, <2>3 DEF Room
  <2>9. Len(e) < MaxReaders
    BY <2>1, <2>4
  <2> QED
    BY <2>4, <2>6, <2>7, <2>8, <2>9
<1>3. CASE ~(Len(s) >= MaxReaders)
  BY <1>1, <1>3 DEF Room
<1> QED
  BY <1>2, <1>3

\* A second check that misses makes room; whose model went, others are too many for
\* the cache.
LEMMA RecheckMisses ==
  ASSUME ModelInv, NEW j \in Jobs, j \in Begun, Recheck(j), ~Cached(j)
  PROVE  ModelInv'
<1> DEFINE s == cached[Class(j)]
           e == Room(s)
<1>1. /\ th[j] = "recheck" /\ UNCHANGED <<job, lock>> /\ Begun' = Begun /\ th' = [th EXCEPT ![j] = "load"]
      /\ cached' = [cached EXCEPT ![Class(j)] = e]
  BY DEF Recheck, Thread, Stays, Room, Begun
<1>2. /\ Class(j) \in Classes /\ s \in Seq(Models) /\ Len(s) \in Nat /\ DOMAIN s = 1 .. Len(s)
      /\ MaxReaders \in Nat \ {0}
  BY JobFacts, MediaAssumption DEF ModelInv
<1>3. /\ e \in Seq(Models) /\ IsInjective(e) /\ Len(e) < MaxReaders
      /\ \A i \in DOMAIN e : \E k \in DOMAIN s : e[i] = s[k]
  BY <1>2, Evicted DEF ModelInv, ReadersBounded
<1>4. e # s => Exceeded
  BY FullExceeded DEF Room
<1> HIDE DEF e
<1>5. /\ cached' \in [Classes -> Seq(Models)]
      /\ \A c \in Classes : cached'[c] = IF c = Class(j) THEN e ELSE cached[c]
      /\ \A i \in Jobs : (Class(i))' = Class(i) /\ (Model(i))' = Model(i) /\ Class(i) \in Classes
      /\ \A i \in Jobs : Class(i) # Class(j) => (Cached(i))' = Cached(i)
      /\ Exceeded' = Exceeded
  BY <1>1, <1>3, OtherClass
<1>6. ModelTypes'
  BY <1>1, <1>5 DEF ModelInv, ModelTypes, ThreadPlaces
<1>7. \A i \in Jobs : th'[i] = IF i = j THEN "load" ELSE th[i]
  BY <1>1 DEF ModelInv, ModelTypes
<1>8. Held'
  <2>1. \A c \in Classes : lock[c] # NoJob =>
          lock[c] \in Jobs /\ Class(lock[c]) = c /\ th'[lock[c]] \in {"recheck", "load"}
    BY <1>7 DEF ModelInv, ModelTypes, Held
  <2>2. \A i \in Jobs : th'[i] \in {"recheck", "load"} => lock[Class(i)] = i
    BY <1>1, <1>7 DEF ModelInv, Held
  <2> QED
    BY <1>1, <1>5, <2>1, <2>2 DEF Held
<1>9. \A i \in Jobs : i # j /\ Class(i) = Class(j) => th[i] \notin {"recheck", "load"}
  BY <1>1 DEF ModelInv, Held
<1>10. ~(Cached(j))'
  BY <1>2, <1>3, <1>5 DEF Cached
<1>11. ReadersBounded'
  <2>1. ASSUME NEW c \in Classes
        PROVE  Len(cached'[c]) <= MaxReaders /\ IsInjective(cached'[c])
    <3>1. CASE c = Class(j)
      <4>1. Len(e) \in Nat
        BY <1>3, LenProperties
      <4> QED
        BY <1>2, <1>3, <1>5, <3>1, <4>1
    <3>2. CASE c # Class(j)
      BY <1>5, <3>2 DEF ModelInv, ReadersBounded
    <3> QED
      BY <3>1, <3>2
  <2>2. \A i, k \in Jobs : th'[i] = "load" /\ th'[k] = "load" /\ Class(i) = Class(k) => i = k
    BY <1>7, <1>9 DEF ModelInv, ReadersBounded
  <2>3. ASSUME NEW i \in Jobs, th'[i] = "load"
        PROVE  ~(Cached(i))' /\ Len(cached'[Class(i)]) < MaxReaders
    <3>1. CASE i = j
      BY <1>2, <1>3, <1>5, <1>10, <3>1
    <3>2. CASE i # j
      <4>1. th[i] = "load" /\ Class(i) # Class(j)
        BY <1>7, <1>9, <2>3, <3>2
      <4> QED
        BY <1>5, <4>1 DEF ModelInv, ReadersBounded
    <3> QED
      BY <3>1, <3>2
  <2> QED
    BY <1>5, <2>1, <2>2, <2>3 DEF ReadersBounded
<1>12. Used'
  <2>1. ASSUME NEW c \in Classes, NEW i \in DOMAIN cached'[c]
        PROVE  \E k \in DOMAIN cached[c] : cached'[c][i] = cached[c][k]
    BY <1>3, <1>5, <2>1
  <2>2. ASSUME NEW c \in Classes, NEW i \in DOMAIN cached'[c]
        PROVE  \E k \in Begun : Class(k) = c /\ Model(k) = cached'[c][i]
    BY <2>1, <2>2 DEF ModelInv, Used
  <2> QED
    BY <1>1, <1>5, <2>2 DEF Used, Begun
<1>13. Found'
  <2>1. ASSUME NEW i \in Jobs, th'[i] = "get"
        PROVE  (Cached(i))' \/ Exceeded
    <3>1. th[i] = "get" /\ (Cached(i) \/ Exceeded)
      BY <1>7, <2>1 DEF ModelInv, Found
    <3>2. CASE e = s
      <4>1. \A c \in Classes : cached'[c] = cached[c]
        BY <1>5, <3>2
      <4> QED
        BY <1>5, <3>1, <4>1 DEF Cached
    <3>3. CASE e # s
      BY <1>4, <3>3
    <3> QED
      BY <3>2, <3>3
  <2> QED
    BY <1>5, <2>1 DEF Found
<1> QED
  BY <1>6, <1>8, <1>11, <1>12, <1>13 DEF ModelInv

\* A load ends with a model nobody else has added.
LEMMA LoadModel ==
  ASSUME ModelInv, NEW j \in Jobs, j \in Begun, Load(j)
  PROVE  ModelInv'
<1> DEFINE s == cached[Class(j)]
           e == Append(s, Model(j))
<1>1. /\ th[j] = "load" /\ job' = job /\ Begun' = Begun /\ Unlock(j) /\ th' = [th EXCEPT ![j] = "get"]
      /\ cached' = [cached EXCEPT ![Class(j)] = e]
  BY DEF Load, Thread, Stays, Begun
<1>2. /\ Class(j) \in Classes /\ Model(j) \in Models /\ s \in Seq(Models) /\ Len(s) \in Nat
      /\ DOMAIN s = 1 .. Len(s) /\ MaxReaders \in Nat \ {0}
  BY JobFacts, MediaAssumption DEF ModelInv
<1>3. /\ ~Cached(j) /\ Len(s) < MaxReaders /\ IsInjective(s)
  BY <1>1, <1>2 DEF ModelInv, ReadersBounded
<1>4. /\ e \in Seq(Models) /\ Len(e) = Len(s) + 1 /\ e[Len(s) + 1] = Model(j)
      /\ \A i \in 1 .. Len(s) : e[i] = s[i]
      /\ DOMAIN e = 1 .. Len(s) + 1
  <2>1. /\ e \in Seq(Models) /\ Len(e) = Len(s) + 1 /\ e[Len(s) + 1] = Model(j)
        /\ \A i \in 1 .. Len(s) : e[i] = s[i]
    BY <1>2, AppendProperties
  <2> QED
    BY <2>1, LenProperties
<1> HIDE DEF e
<1>5. /\ cached' \in [Classes -> Seq(Models)]
      /\ \A c \in Classes : cached'[c] = IF c = Class(j) THEN e ELSE cached[c]
      /\ \A i \in Jobs : (Class(i))' = Class(i) /\ (Model(i))' = Model(i) /\ Class(i) \in Classes
      /\ \A i \in Jobs : Class(i) # Class(j) => (Cached(i))' = Cached(i)
      /\ Exceeded' = Exceeded
  BY <1>1, <1>4, OtherClass
<1>6. /\ Held' /\ lock' \in [Classes -> Jobs \cup {NoJob}] /\ th' \in [Jobs -> ThreadPlaces]
      /\ \A i \in Jobs : th'[i] = IF i = j THEN "get" ELSE th[i]
      /\ \A i \in Jobs : Class(i) = Class(j) /\ i # j => th[i] \notin {"recheck", "load"}
  BY <1>1, UnlockHeld DEF ThreadPlaces
<1>7. ModelTypes'
  BY <1>1, <1>5, <1>6 DEF ModelInv, ModelTypes
<1>8. IsInjective(e)
  <2>1. \A i \in 1 .. Len(s) : s[i] # Model(j)
    BY <1>2, <1>3 DEF Cached
  <2>2. \A a, b \in 1 .. Len(s) : s[a] = s[b] => a = b
    BY <1>2, <1>3 DEF IsInjective
  <2>3. \A a, b \in 1 .. Len(s) + 1 : e[a] = e[b] => a = b
    BY <1>2, <1>4, <2>1, <2>2
  <2> QED
    BY <1>4, <2>3 DEF IsInjective
<1>9. ReadersBounded'
  <2>1. \A c \in Classes : Len(cached'[c]) <= MaxReaders /\ IsInjective(cached'[c])
    BY <1>2, <1>3, <1>4, <1>5, <1>8 DEF ModelInv, ReadersBounded
  <2>2. \A i, k \in Jobs : th'[i] = "load" /\ th'[k] = "load" /\ Class(i) = Class(k) => i = k
    BY <1>6 DEF ModelInv, ReadersBounded
  <2>3. ASSUME NEW i \in Jobs, th'[i] = "load"
        PROVE  ~(Cached(i))' /\ Len(cached'[Class(i)]) < MaxReaders
    <3>1. th[i] = "load" /\ Class(i) # Class(j)
      BY <1>6, <2>3
    <3> QED
      BY <1>5, <3>1 DEF ModelInv, ReadersBounded
  <2> QED
    BY <1>5, <2>1, <2>2, <2>3 DEF ReadersBounded
<1>10. Used'
  <2>1. ASSUME NEW c \in Classes, NEW i \in DOMAIN cached'[c]
        PROVE  \E k \in Begun : Class(k) = c /\ Model(k) = cached'[c][i]
    <3>1. CASE c = Class(j) /\ i = Len(s) + 1
      BY <1>4, <1>5, <3>1
    <3>2. CASE c = Class(j) /\ i # Len(s) + 1
      <4>1. i \in DOMAIN s /\ cached'[c][i] = s[i]
        BY <1>2, <1>4, <1>5, <2>1, <3>2
      <4> QED
        BY <3>2, <4>1 DEF ModelInv, Used
    <3>3. CASE c # Class(j)
      BY <1>5, <2>1, <3>3 DEF ModelInv, Used
    <3> QED
      BY <3>1, <3>2, <3>3
  <2> QED
    BY <1>1, <1>5, <2>1 DEF Used, Begun
<1>11. Found'
  <2>1. ASSUME NEW i \in Jobs, th'[i] = "get", Class(i) = Class(j)
        PROVE  (Cached(i))' \/ Exceeded
    <3>1. CASE i = j
      <4>1. Len(s) + 1 \in DOMAIN e
        BY <1>2, <1>4
      <4> QED
        BY <1>2, <1>4, <1>5, <3>1, <4>1 DEF Cached
    <3>2. CASE i # j /\ Cached(i)
      <4>1. PICK k \in DOMAIN s : s[k] = Model(i)
        BY <2>1, <3>2 DEF Cached
      <4>2. k \in DOMAIN e /\ e[k] = Model(i)
        BY <1>2, <1>4, <4>1
      <4> QED
        BY <1>2, <1>5, <2>1, <4>2 DEF Cached
    <3>3. CASE i # j /\ ~Cached(i)
      BY <1>6, <2>1, <3>3 DEF ModelInv, Found
    <3> QED
      BY <3>1, <3>2, <3>3
  <2>2. ASSUME NEW i \in Jobs, th'[i] = "get", Class(i) # Class(j)
        PROVE  (Cached(i))' \/ Exceeded
    BY <1>5, <1>6, <2>2 DEF ModelInv, Found
  <2> QED
    BY <1>5, <2>1, <2>2 DEF Found
<1> QED
  BY <1>6, <1>7, <1>9, <1>10, <1>11 DEF ModelInv

\* The lock is given back, and nothing was loaded.
LEMMA UnlockModel ==
  ASSUME ModelInv, Begun \subseteq Begun', NEW j \in Jobs, th[j] \in {"recheck", "load"}, Unlock(j),
         UNCHANGED <<job, cached>>,
         NEW p \in ThreadPlaces \ {"recheck", "load"}, th' = [th EXCEPT ![j] = p],
         p = "get" => Cached(j)
  PROVE  ModelInv'
<1>1. /\ Held' /\ lock' \in [Classes -> Jobs \cup {NoJob}] /\ th' \in [Jobs -> ThreadPlaces]
      /\ \A i \in Jobs : th'[i] = IF i = j THEN p ELSE th[i]
  BY UnlockHeld
<1>2. \A i \in Jobs : (Class(i))' = Class(i) /\ (Model(i))' = Model(i) /\ (Cached(i))' = Cached(i)
  BY DEF Class, Model, Cached
<1>3. Exceeded => Exceeded'
  BY ExceededLater
<1>4. ModelTypes'
  BY <1>1 DEF ModelInv, ModelTypes
<1>5. ReadersBounded'
  BY <1>1, <1>2 DEF ModelInv, ReadersBounded
<1>6. Used' /\ Found'
  BY <1>1, <1>2, <1>3, UsedLater DEF ModelInv, Found
<1> QED
  BY <1>1, <1>4, <1>5, <1>6 DEF ModelInv

-----------------------------------------------------------------------------
(* The coroutines. *)

\* What a step of job j leaves is checked at j alone.
LEMMA JobMoves ==
  ASSUME ModelTypes, JobInv, NEW j \in Jobs, job' = job,
         co' \in [Jobs -> Places], outcome' \in [Jobs -> Outcomes],
         captions' \in [Jobs -> [1 .. Frames -> Captions]],
         files' \subseteq Jobs \X Kinds,
         \A i \in Jobs \ {j} : /\ co'[i] = co[i] /\ outcome'[i] = outcome[i] /\ th'[i] = th[i]
                               /\ (FilesOf(i))' = FilesOf(i),
         co'[j] # "start",
         co'[j] \in Working => co[j] \in Working \/ Cardinality(Running) < Slots,
         ThreadAt(j)', FilesAt(j)', outcome'[j] = "keyerror" => Exceeded
  PROVE  JobInv' /\ Begun \subseteq Begun'
<1>1. \A i \in Jobs : (Class(i))' = Class(i)
  BY DEF Class
<1>2. Begun \subseteq Begun'
  BY DEF Begun
<1>3. Exceeded => Exceeded'
  BY <1>2, ExceededLater
<1>4. IsFiniteSet(Running') /\ Cardinality(Running') <= Slots
  <2>1. IsFiniteSet(Running) /\ Cardinality(Running) \in Nat /\ Cardinality(Running) <= Slots
        /\ Slots \in Nat
    BY FS_CardinalityType, MediaAssumption DEF JobInv, JobTypes
  <2>2. CASE Running' \subseteq Running
    <3>1. IsFiniteSet(Running') /\ Cardinality(Running') <= Cardinality(Running)
      BY <2>1, <2>2, FS_Subset
    <3> QED
      BY <2>1, <3>1, FS_CardinalityType
  <2>3. CASE ~(Running' \subseteq Running)
    <3>1. \A i \in Jobs \ {j} : i \in Running' <=> i \in Running
      BY DEF Running
    <3>2. j \in Running' /\ j \notin Running
      BY <2>3, <3>1 DEF Running
    <3>3. Running' = Running \cup {j} /\ Cardinality(Running) < Slots
      BY <3>1, <3>2 DEF Running
    <3>4. IsFiniteSet(Running') /\ Cardinality(Running') = Cardinality(Running) + 1
      BY <2>1, <3>2, <3>3, FS_AddElement
    <3> QED
      BY <2>1, <3>3, <3>4
  <2> QED
    BY <2>2, <2>3
<1>5. JobTypes'
  BY <1>4 DEF JobTypes, Kinds
<1>6. Threads'
  <2>1. ASSUME NEW i \in Jobs, i # j PROVE ThreadAt(i)'
    BY <1>1, <2>1 DEF JobInv, Threads, ThreadAt
  <2> QED
    BY <2>1 DEF Threads
<1>7. KeyErrors'
  BY <1>3 DEF JobInv, KeyErrors
<1>8. Kept'
  <2>1. ASSUME NEW i \in Jobs, i # j PROVE FilesAt(i)'
    BY <1>1, <2>1 DEF JobInv, Kept, FilesAt
  <2> QED
    BY <2>1 DEF Kept
<1> QED
  BY <1>2, <1>5, <1>6, <1>7, <1>8 DEF JobInv

\* The end of a job removes its files but those said to be left, and no others.
LEMMA JobEnds ==
  ASSUME ModelTypes, JobInv, NEW j \in Jobs, NEW r \in Outcomes, NEW left, EndsLeaving(j, r, left),
         captions' = captions, NEW t, th' = [th EXCEPT ![j] = t],
         r # "cancelled" => t = "none",
         t \in {"ffmpeg", "cut"} => Class(j) = "video",
         left # {} => /\ Class(j) = "video" /\ t # "ffmpeg"
                      /\ \/ r = "nofile" /\ left = {<<j, "source">>}
                         \/ r = "cancelled" /\ left = {<<j, "frames">>},
         r = "keyerror" => Exceeded
  PROVE  JobInv' /\ Begun \subseteq Begun'
<1>1. /\ job' = job /\ co' = [co EXCEPT ![j] = "end"] /\ outcome' = [outcome EXCEPT ![j] = r]
      /\ files' = (files \ FilesOf(j)) \cup left
  BY DEF EndsLeaving
<1>2. /\ co \in [Jobs -> Places] /\ outcome \in [Jobs -> Outcomes] /\ th \in [Jobs -> ThreadPlaces]
      /\ files \subseteq Jobs \X Kinds
      /\ captions \in [Jobs -> [1 .. Frames -> Captions]]
  BY DEF JobInv, JobTypes, ModelTypes, Kinds
<1>3. left \subseteq {j} \X Kinds
  BY DEF Kinds
<1>4. (FilesOf(j))' = left /\ \A i \in Jobs \ {j} : (FilesOf(i))' = FilesOf(i)
  BY <1>1, <1>3 DEF FilesOf
<1>5. co' \in [Jobs -> Places] /\ outcome' \in [Jobs -> Outcomes] /\ co'[j] = "end" /\ outcome'[j] = r
      /\ th'[j] = t
  BY <1>1, <1>2 DEF Places, Working
<1>6. \A i \in Jobs \ {j} : co'[i] = co[i] /\ outcome'[i] = outcome[i] /\ th'[i] = th[i]
  BY <1>1, <1>2
<1>7. co'[j] \notin Working
  BY <1>5 DEF Working
<1>8. files' \subseteq Jobs \X Kinds
  BY <1>1, <1>2, <1>3
<1>9. (Class(j))' = Class(j)
  BY <1>1 DEF Class
<1>10. ThreadAt(j)'
  <2>1. "none" \in ThreadsOf("end")
    BY DEF ThreadsOf
  <2> QED
    BY <1>5, <1>9, <2>1 DEF ThreadAt
<1>11. FilesAt(j)'
  <2>1. CASE left = {}
    BY <1>4, <2>1 DEF FilesAt
  <2>2. CASE left # {}
    BY <1>4, <1>5, <1>9, <2>2 DEF FilesAt
  <2> QED
    BY <2>1, <2>2
<1> QED
  BY <1>1, <1>2, <1>4, <1>5, <1>6, <1>7, <1>8, <1>10, <1>11, JobMoves

\* The end of a job that leaves nothing.
LEMMA JobEndsClean ==
  ASSUME ModelTypes, JobInv, NEW j \in Jobs, NEW r \in Outcomes, Ends(j, r),
         captions' = captions, NEW t, th' = [th EXCEPT ![j] = t],
         r # "cancelled" => t = "none",
         t \in {"ffmpeg", "cut"} => Class(j) = "video",
         r = "keyerror" => Exceeded
  PROVE  JobInv' /\ Begun \subseteq Begun'
<1>1. PICK left : left = {}
  OBVIOUS
<1>2. EndsLeaving(j, r, left)
  BY <1>1 DEF Ends
<1> QED
  BY <1>1, <1>2, JobEnds

\* A job goes on, with files of its own.
LEMMA JobGoes ==
  ASSUME ModelTypes, JobInv, NEW j \in Jobs, NEW p \in Working, Goes(j, p), co[j] # "end",
         co[j] \in Working \/ Cardinality(Running) < Slots,
         NEW new, new \subseteq {j} \X Kinds, files' = files \cup new,
         captions' \in [Jobs -> [1 .. Frames -> Captions]],
         NEW t \in ThreadsOf(p), th' = [th EXCEPT ![j] = t],
         t \in {"ffmpeg", "cut"} => Class(j) = "video"
  PROVE  JobInv' /\ Begun \subseteq Begun'
<1>1. job' = job /\ co' = [co EXCEPT ![j] = p] /\ outcome' = outcome
  BY DEF Goes
<1>2. /\ co \in [Jobs -> Places] /\ outcome \in [Jobs -> Outcomes] /\ th \in [Jobs -> ThreadPlaces]
      /\ files \subseteq Jobs \X Kinds
  BY DEF JobInv, JobTypes, ModelTypes, Kinds
<1>3. \A i \in Jobs \ {j} : (FilesOf(i))' = FilesOf(i)
  BY DEF FilesOf
<1>4. co' \in [Jobs -> Places] /\ co'[j] = p /\ th'[j] = t
  BY <1>1, <1>2 DEF Places
<1>5. \A i \in Jobs \ {j} : co'[i] = co[i] /\ outcome'[i] = outcome[i] /\ th'[i] = th[i]
  BY <1>1, <1>2
<1>6. p # "start" /\ p # "end"
  BY DEF Working
<1>7. files' \subseteq Jobs \X Kinds
  BY <1>2
<1>8. outcome'[j] = "keyerror" => Exceeded
  BY <1>1 DEF JobInv, KeyErrors
<1>9. ThreadAt(j)'
  <2>1. (Class(j))' = Class(j)
    BY <1>1 DEF Class
  <2>2. outcome[j] # "cancelled"
    BY DEF JobInv, Threads, ThreadAt
  <2> QED
    BY <1>1, <1>4, <2>1, <2>2 DEF ThreadAt
<1>10. FilesAt(j)'
  BY <1>4, <1>6 DEF FilesAt
<1> QED
  BY <1>1, <1>2, <1>3, <1>4, <1>5, <1>6, <1>7, <1>8, <1>9, <1>10, JobMoves

\* A thread goes on, or ends when its coroutine is gone.
LEMMA JobWaits ==
  ASSUME ModelTypes, JobInv, NEW j \in Jobs, UNCHANGED <<job, co, outcome, files, captions>>,
         NEW t, th' = [th EXCEPT ![j] = t], t \notin {"ffmpeg", "cut"}, co[j] # "start",
         outcome[j] # "cancelled" => t \in ThreadsOf(co[j])
  PROVE  JobInv' /\ Begun \subseteq Begun'
<1>1. /\ co \in [Jobs -> Places] /\ outcome \in [Jobs -> Outcomes] /\ th \in [Jobs -> ThreadPlaces]
      /\ files \subseteq Jobs \X Kinds
      /\ captions \in [Jobs -> [1 .. Frames -> Captions]]
  BY DEF JobInv, JobTypes, ModelTypes, Kinds
<1>2. \A i \in Jobs : (FilesOf(i))' = FilesOf(i) /\ (Class(i))' = Class(i)
  BY DEF FilesOf, Class
<1>3. \A i \in Jobs \ {j} : th'[i] = th[i]
  BY <1>1
<1>4. th'[j] = t
  BY <1>1
<1>5. outcome[j] = "keyerror" => Exceeded
  BY DEF JobInv, KeyErrors
<1>6. ThreadAt(j)'
  BY <1>2, <1>4 DEF JobInv, Threads, ThreadAt
<1>7. FilesAt(j)'
  BY <1>2, <1>4 DEF JobInv, Kept, FilesAt
<1> QED
  BY <1>1, <1>2, <1>3, <1>4, <1>5, <1>6, <1>7, JobMoves

-----------------------------------------------------------------------------
(* The steps. *)

LEMMA InitMedia == Init => MediaInv
<1> SUFFICES ASSUME Init PROVE MediaInv
  OBVIOUS
<1>1. ModelTypes
  BY DEF Init, ModelTypes, ThreadPlaces
<1>2. /\ \A c \in Classes : cached[c] = << >> /\ lock[c] = NoJob
      /\ \A j \in Jobs : co[j] = "start" /\ outcome[j] = "none" /\ th[j] = "none"
  BY DEF Init
<1>3. IsInjective(<< >>) /\ Len(<< >>) = 0 /\ DOMAIN << >> = {}
  <2>1. DOMAIN << >> = {}
    OBVIOUS
  <2> QED
    BY <2>1 DEF IsInjective
<1>4. Held /\ ReadersBounded /\ Used /\ Found
  <2>1. ReadersBounded
    BY <1>2, <1>3, MediaAssumption DEF ReadersBounded
  <2> QED
    BY <1>2, <1>3, <2>1 DEF Held, Used, Found
<1>5. Running = {}
  BY <1>2 DEF Running, Working
<1>6. JobTypes
  <2>1. IsFiniteSet(Running) /\ Cardinality(Running) <= Slots
    BY <1>5, FS_EmptySet, MediaAssumption
  <2> QED
    BY <2>1 DEF Init, JobTypes, Places, Outcomes, Captions
<1>7. Threads /\ KeyErrors /\ Kept
  <2>1. "none" \in ThreadsOf("start")
    BY DEF ThreadsOf
  <2> QED
    BY <1>2, <2>1 DEF Threads, ThreadAt, KeyErrors, Kept, FilesAt
<1> QED
  BY <1>1, <1>4, <1>6, <1>7 DEF MediaInv, ModelInv, JobInv

\* What is known of a job by the place of its coroutine, or of its thread.
LEMMA PlaceFacts ==
  ASSUME MediaInv, NEW j \in Jobs
  PROVE  /\ co[j] \in {"start", "fetch", "caption"} => th[j] = "none"
         /\ co[j] = "convert" => th[j] = "ffmpeg"
         /\ co[j] = "frames" => th[j] = "cut"
         /\ th[j] = "ffmpeg" => Class(j) = "video" /\ (co[j] = "convert" \/ outcome[j] = "cancelled")
         /\ th[j] = "cut" => Class(j) = "video" /\ (co[j] = "frames" \/ outcome[j] = "cancelled")
         /\ th[j] \in ThreadsOf("infer") => co[j] = "infer" \/ outcome[j] = "cancelled"
         /\ co[j] = "infer" => th[j] \in ThreadsOf("infer")
         /\ outcome[j] = "cancelled" => co[j] = "end"
         /\ th[j] # "none" => j \in Begun
<1>1. ThreadAt(j) /\ co[j] \in Working \cup {"start", "end"}
  BY DEF MediaInv, JobInv, Threads, JobTypes, Places
<1> QED
  BY <1>1 DEF ThreadAt, ThreadsOf, Working, Begun

\* A step of the coroutine alone.
LEMMA CoroutineSteps ==
  ASSUME MediaInv, NEW j \in Jobs, UNCHANGED <<th, cached, lock>>,
         \/ Begin(j) \/ BeginFails(j) \/ Cancel(j) \/ FetchFails(j) \/ Finish(j)
         \/ \E f \in 1 .. Frames : Caption(j, f)
  PROVE  MediaInv'
<1>0. PICK t : t = th[j]
  OBVIOUS
<1>1. ModelTypes /\ JobInv /\ th' = [th EXCEPT ![j] = t]
  BY <1>0 DEF MediaInv, ModelInv, ModelTypes
<1>2. job' = job
  BY DEF Begin, BeginFails, Cancel, FetchFails, Finish, Caption, Goes, Ends, EndsLeaving
<1>3. /\ co[j] \in {"start", "fetch", "caption"} => t = "none"
      /\ t \in {"ffmpeg", "cut"} => Class(j) = "video"
  BY <1>0, PlaceFacts
<1>4. captions \in [Jobs -> [1 .. Frames -> Captions]]
  BY <1>1 DEF JobInv, JobTypes
<1>5. "none" \in ThreadsOf("fetch") /\ "none" \in ThreadsOf("caption")
      /\ "fetch" \in Working /\ "caption" \in Working
  BY DEF ThreadsOf, Working
<1>6. ASSUME Begin(j) PROVE JobInv' /\ Begun \subseteq Begun'
  <2>1. /\ co[j] = "start" /\ Cardinality(Running) < Slots /\ Goes(j, "fetch")
        /\ files' = files \cup TempFiles(j) /\ captions' = captions
    BY <1>6 DEF Begin
  <2>2. TempFiles(j) \subseteq {j} \X Kinds
    <3>1. Class(j) \in {"image", "audio", "video"}
      BY <1>1, JobFacts DEF Classes
    <3> QED
      BY <3>1 DEF TempFiles, Kinds
  <2>3. t = "none"
    BY <1>3, <2>1
  <2> QED
    BY <1>1, <1>4, <1>5, <2>1, <2>2, <2>3, JobGoes
<1>7. ASSUME BeginFails(j) PROVE JobInv' /\ Begun \subseteq Begun'
  <2>1. co[j] = "start" /\ captions' = captions /\ t = "none" /\ "nofile" \in Outcomes
    BY <1>3, <1>7 DEF BeginFails, Outcomes
  <2>2. PICK left \in SUBSET {<<j, "source">>} :
          (left # {} => Class(j) = "video") /\ EndsLeaving(j, "nofile", left)
    BY <1>7 DEF BeginFails
  <2>3. PICK r : r = "nofile"
    OBVIOUS
  <2>4. left # {} => /\ Class(j) = "video" /\ t # "ffmpeg"
                     /\ \/ r = "nofile" /\ left = {<<j, "source">>}
                        \/ r = "cancelled" /\ left = {<<j, "frames">>}
    BY <2>1, <2>2, <2>3
  <2>5. EndsLeaving(j, r, left) /\ r \in Outcomes /\ r # "keyerror"
    BY <2>1, <2>2, <2>3
  <2>6. t \notin {"ffmpeg", "cut"}
    BY <2>1
  <2> QED
    BY <1>1, <2>1, <2>4, <2>5, <2>6, JobEnds
<1>8. ASSUME Cancel(j) PROVE JobInv' /\ Begun \subseteq Begun'
  <2>1. captions' = captions /\ "cancelled" \in Outcomes
    BY <1>8 DEF Cancel, Outcomes
  <2>2. PICK left \in SUBSET {<<j, "frames">>} :
          (left # {} => th[j] = "cut") /\ EndsLeaving(j, "cancelled", left)
    BY <1>8 DEF Cancel
  <2>3. PICK r : r = "cancelled"
    OBVIOUS
  <2>4. left # {} => /\ Class(j) = "video" /\ t # "ffmpeg"
                     /\ \/ r = "nofile" /\ left = {<<j, "source">>}
                        \/ r = "cancelled" /\ left = {<<j, "frames">>}
    BY <1>0, <1>3, <2>2, <2>3
  <2>5. EndsLeaving(j, r, left) /\ r \in Outcomes /\ r # "keyerror"
    BY <2>1, <2>2, <2>3
  <2> QED
    BY <1>1, <1>3, <2>1, <2>3, <2>4, <2>5, JobEnds
<1>9. ASSUME FetchFails(j) \/ Finish(j) PROVE JobInv' /\ Begun \subseteq Begun'
  <2>1. captions' = captions /\ t = "none"
    BY <1>3, <1>9 DEF FetchFails, Finish
  <2>2. \E r \in {"failed", "ok"} : Ends(j, r)
    BY <1>9 DEF FetchFails, Finish
  <2>3. {"failed", "ok"} \subseteq Outcomes
    BY DEF Outcomes
  <2> QED
    BY <1>1, <2>1, <2>2, <2>3, JobEndsClean
<1>10. ASSUME NEW f \in 1 .. Frames, Caption(j, f) PROVE JobInv' /\ Begun \subseteq Begun'
  <2>1. PICK c \in Descriptions : captions' = [captions EXCEPT ![j][f] = c]
    BY <1>10 DEF Caption
  <2>2. c \in Captions
    BY DEF Descriptions, Captions
  <2>3. captions' \in [Jobs -> [1 .. Frames -> Captions]]
    BY <1>4, <1>10, <2>1, <2>2
  <2>4. /\ {} \subseteq {j} \X Kinds /\ files' = files \cup {}
        /\ co[j] \in Working /\ co[j] = "caption" /\ Goes(j, "caption") /\ t = "none"
    BY <1>3, <1>10 DEF Caption, Working
  <2> QED
    BY <1>1, <1>5, <2>3, <2>4, JobGoes
<1>11. JobInv' /\ Begun \subseteq Begun'
  BY <1>6, <1>7, <1>8, <1>9, <1>10
<1> QED
  BY <1>2, <1>11, ModelsUnchanged DEF MediaInv

\* A step of the thread that does not go through the cache.
LEMMA ThreadSteps ==
  ASSUME MediaInv, NEW j \in Jobs, Fetch(j) \/ Convert(j) \/ Infer(j) \/ ExtractFrames(j)
  PROVE  MediaInv'
<1>1. ModelTypes /\ JobInv /\ UNCHANGED <<job, cached, lock>>
  BY DEF MediaInv, ModelInv, Fetch, Convert, Infer, ExtractFrames, Goes, Ends, EndsLeaving, modelVars
<1>2. captions' = captions /\ captions \in [Jobs -> [1 .. Frames -> Captions]]
  BY <1>1 DEF JobInv, JobTypes, Fetch, Convert, Infer, ExtractFrames
<1>3. PICK t \in {"none", "ffmpeg", "check", "cut"} : th' = [th EXCEPT ![j] = t]
  BY DEF Fetch, Convert, Infer, ExtractFrames, Thread
<1>4. th'[j] = t
  BY <1>1, <1>3 DEF ModelTypes
<1>5. /\ {} \subseteq {j} \X Kinds /\ {<<j, "frames">>} \subseteq {j} \X Kinds
      /\ {"convert", "infer", "frames", "caption"} \subseteq Working
      /\ "ffmpeg" \in ThreadsOf("convert") /\ "check" \in ThreadsOf("infer")
      /\ "cut" \in ThreadsOf("frames") /\ "none" \in ThreadsOf("caption")
      /\ {"ok", "failed"} \subseteq Outcomes /\ "run" \in ThreadsOf("infer")
  BY DEF Kinds, Working, ThreadsOf, Outcomes
<1>6. ASSUME Fetch(j) PROVE JobInv' /\ Begun \subseteq Begun'
  <2>1. co[j] = "fetch" /\ files' = files \cup {} /\ co[j] \in Working
    BY <1>6 DEF Fetch, Working
  <2>2. CASE Class(j) = "video"
    <3>1. Goes(j, "convert") /\ th' = [th EXCEPT ![j] = "ffmpeg"]
      BY <1>6, <2>2 DEF Fetch, Thread
    <3> QED
      BY <1>1, <1>2, <1>5, <2>1, <2>2, <3>1, JobGoes
  <2>3. CASE Class(j) # "video"
    <3>1. Goes(j, "infer") /\ th' = [th EXCEPT ![j] = "check"]
      BY <1>6, <2>3 DEF Fetch, Thread
    <3> QED
      BY <1>1, <1>2, <1>5, <2>1, <3>1, JobGoes
  <2> QED
    BY <2>2, <2>3
<1>7. ASSUME Convert(j) PROVE JobInv' /\ Begun \subseteq Begun'
  <2>1. th[j] = "ffmpeg"
    BY <1>7 DEF Convert
  <2>2. CASE co[j] = "convert"
    <3>1. Goes(j, "infer") /\ th' = [th EXCEPT ![j] = "check"] /\ files' = files \cup {}
      BY <1>7, <2>2 DEF Convert, Thread
    <3>2. co[j] \in Working /\ co[j] # "end"
      BY <2>2 DEF Working
    <3> QED
      BY <1>1, <1>2, <1>5, <3>1, <3>2, JobGoes
  <2>3. CASE co[j] # "convert"
    <3>1. /\ UNCHANGED <<co, outcome>> /\ th' = [th EXCEPT ![j] = "none"]
          /\ files' \in {files, files \cup {<<j, "wav">>}}
      BY <1>7, <2>3 DEF Convert, Thread
    <3>2. outcome[j] = "cancelled" /\ co[j] = "end" /\ Class(j) = "video"
      BY <2>1, <2>3, PlaceFacts
    <3>3. FilesOf(j) = {}
      BY <1>1, <2>1, <3>2 DEF JobInv, Kept, FilesAt
    <3>4. \A i \in Jobs \ {j} : (FilesOf(i))' = FilesOf(i)
      BY <3>1 DEF FilesOf
    <3>5. (FilesOf(j))' \in {{}, {<<j, "wav">>}}
      <4>1. CASE files' = files
        BY <3>3, <4>1 DEF FilesOf
      <4>2. CASE files' = files \cup {<<j, "wav">>}
        <5>1. (FilesOf(j))' = FilesOf(j) \cup {<<j, "wav">>}
          BY <4>2 DEF FilesOf
        <5> QED
          BY <3>3, <5>1
      <4> QED
        BY <3>1, <4>1, <4>2
    <3>6. /\ files' \subseteq Jobs \X Kinds
          /\ co' \in [Jobs -> Places] /\ outcome' \in [Jobs -> Outcomes]
      BY <1>1, <3>1 DEF JobInv, JobTypes, Kinds
    <3>7. (\A i \in Jobs \ {j} : th'[i] = th[i]) /\ th'[j] = "none"
      BY <1>1, <3>1 DEF ModelTypes
    <3>8. (Class(j))' = Class(j)
      BY <1>1 DEF Class
    <3>9. ThreadAt(j)' /\ FilesAt(j)'
      BY <3>1, <3>2, <3>5, <3>7, <3>8 DEF ThreadAt, FilesAt
    <3>10. co'[j] \notin Working /\ co'[j] # "start" /\ outcome'[j] # "keyerror"
      BY <3>1, <3>2 DEF Working
    <3> QED
      BY <1>1, <1>2, <3>1, <3>4, <3>6, <3>7, <3>9, <3>10, JobMoves
  <2> QED
    BY <2>2, <2>3
<1>8. ASSUME th[j] \in {"run", "cut"}, th' = [th EXCEPT ![j] = "none"], UNCHANGED <<co, outcome, files>>,
             co[j] # "infer", co[j] # "frames"
      PROVE  JobInv' /\ Begun \subseteq Begun'
  <2>1. outcome[j] = "cancelled" /\ co[j] # "start"
    BY <1>5, <1>8, PlaceFacts
  <2>2. PICK u : u = "none"
    OBVIOUS
  <2>3. u \notin {"ffmpeg", "cut"} /\ th' = [th EXCEPT ![j] = u]
    BY <1>8, <2>2
  <2> QED
    BY <1>1, <1>2, <1>8, <2>1, <2>3, JobWaits
<1>9. ASSUME Infer(j) PROVE JobInv' /\ Begun \subseteq Begun'
  <2>1. th[j] = "run"
    BY <1>9 DEF Infer
  <2>2. CASE co[j] # "infer"
    <3>1. UNCHANGED <<co, outcome, files>> /\ th' = [th EXCEPT ![j] = "none"]
      BY <1>9, <2>2 DEF Infer, Thread
    <3>2. co[j] # "frames"
      BY <2>1, PlaceFacts
    <3> QED
      BY <1>8, <2>1, <2>2, <3>1, <3>2
  <2>3. CASE co[j] = "infer"
    <3>1. co[j] \in Working /\ co[j] # "end"
      BY <2>3 DEF Working
    <3>2. \/ /\ \E r \in {"ok", "failed"} : Ends(j, r)
             /\ th' = [th EXCEPT ![j] = "none"]
          \/ Goes(j, "caption") /\ th' = [th EXCEPT ![j] = "none"] /\ files' = files \cup {}
          \/ /\ Goes(j, "frames") /\ th' = [th EXCEPT ![j] = "cut"]
             /\ files' = files \cup {<<j, "frames">>} /\ Class(j) = "video"
      BY <1>9, <2>3 DEF Infer, Thread
    <3>3. CASE (\E r \in {"ok", "failed"} : Ends(j, r)) /\ th' = [th EXCEPT ![j] = "none"]
      BY <1>1, <1>2, <1>5, <3>3, JobEndsClean
    <3>4. CASE Goes(j, "caption") /\ th' = [th EXCEPT ![j] = "none"] /\ files' = files \cup {}
      BY <1>1, <1>2, <1>5, <3>1, <3>4, JobGoes
    <3>5. CASE /\ Goes(j, "frames") /\ th' = [th EXCEPT ![j] = "cut"]
               /\ files' = files \cup {<<j, "frames">>} /\ Class(j) = "video"
      BY <1>1, <1>2, <1>5, <3>1, <3>5, JobGoes
    <3> QED
      BY <3>2, <3>3, <3>4, <3>5
  <2> QED
    BY <2>2, <2>3
<1>10. ASSUME ExtractFrames(j) PROVE JobInv' /\ Begun \subseteq Begun'
  <2>1. th[j] = "cut" /\ th' = [th EXCEPT ![j] = "none"]
    BY <1>10 DEF ExtractFrames, Thread
  <2>2. CASE co[j] # "frames"
    <3>1. UNCHANGED <<co, outcome, files>>
      BY <1>10, <2>2 DEF ExtractFrames
    <3>2. co[j] # "infer"
      BY <2>1, PlaceFacts DEF ThreadsOf
    <3> QED
      BY <1>8, <2>1, <2>2, <3>1, <3>2
  <2>3. CASE co[j] = "frames"
    <3>1. co[j] \in Working /\ co[j] # "end"
      BY <2>3 DEF Working
    <3>2. (Goes(j, "caption") /\ files' = files \cup {}) \/ Ends(j, "ok")
      BY <1>10, <2>3 DEF ExtractFrames
    <3>3. CASE Goes(j, "caption") /\ files' = files \cup {}
      BY <1>1, <1>2, <1>5, <2>1, <3>1, <3>3, JobGoes
    <3>4. CASE Ends(j, "ok")
      BY <1>1, <1>2, <1>5, <2>1, <3>4, JobEndsClean
    <3> QED
      BY <3>2, <3>3, <3>4
  <2> QED
    BY <2>2, <2>3
<1>11. JobInv' /\ Begun \subseteq Begun'
  BY <1>6, <1>7, <1>9, <1>10
<1>12. th[j] \in {"none", "ffmpeg", "run", "cut"}
  BY PlaceFacts DEF Fetch, Convert, Infer, ExtractFrames
<1>13. t \in ThreadPlaces \ {"recheck", "load"} /\ t # "get"
  BY DEF ThreadPlaces
<1> QED
  BY <1>1, <1>3, <1>11, <1>12, <1>13, ModelStill DEF MediaInv

\* A thread whose call fails takes its coroutine along, if that is still there.
LEMMA JobFails ==
  ASSUME MediaInv, NEW j \in Jobs, NEW r \in {"failed", "keyerror"},
         ThreadFails(j, r), th[j] \in {"ffmpeg", "load", "get", "run"}, r = "keyerror" => Exceeded
  PROVE  JobInv' /\ Begun \subseteq Begun' /\ job' = job /\ th' = [th EXCEPT ![j] = "none"]
<1>1. /\ th' = [th EXCEPT ![j] = "none"] /\ captions' = captions /\ r \in Outcomes
      /\ "none" \notin {"ffmpeg", "cut"} /\ ModelTypes /\ JobInv
  BY DEF ThreadFails, Thread, Outcomes, MediaInv, ModelInv
<1>2. CASE co[j] \in {"convert", "infer"}
  <2>1. Ends(j, r)
    BY <1>2 DEF ThreadFails
  <2>2. job' = job
    BY <2>1 DEF Ends, EndsLeaving
  <2> QED
    BY <1>1, <2>1, <2>2, JobEndsClean
<1>3. CASE co[j] \notin {"convert", "infer"}
  <2>1. UNCHANGED <<job, co, outcome, files>>
    BY <1>3 DEF ThreadFails
  <2>2. outcome[j] = "cancelled" /\ co[j] # "start"
    BY <1>3, PlaceFacts DEF ThreadsOf
  <2> QED
    BY <1>1, <2>1, <2>2, JobWaits
<1> QED
  BY <1>2, <1>3

LEMMA FailSteps ==
  ASSUME MediaInv, NEW j \in Jobs, ConvertFails(j) \/ LoadFails(j) \/ InferFails(j)
  PROVE  MediaInv'
<1>1. ModelInv /\ ModelTypes
  BY DEF MediaInv, ModelInv
<1>2. ThreadFails(j, "failed") /\ th[j] \in {"ffmpeg", "load", "run"}
  BY DEF ConvertFails, LoadFails, InferFails
<1>3. JobInv' /\ Begun \subseteq Begun' /\ job' = job /\ th' = [th EXCEPT ![j] = "none"]
  BY <1>2, JobFails
<1>4. "none" \in ThreadPlaces \ {"recheck", "load"}
  BY DEF ThreadPlaces
<1>5. CASE ConvertFails(j) \/ InferFails(j)
  <2>1. UNCHANGED <<cached, lock>> /\ th[j] \notin {"recheck", "load"}
    BY <1>5 DEF ConvertFails, InferFails, modelVars
  <2> QED
    BY <1>1, <1>3, <1>4, <2>1, ModelStill DEF MediaInv
<1>6. CASE LoadFails(j)
  <2>1. Unlock(j) /\ th[j] = "load" /\ cached' = cached
    BY <1>6 DEF LoadFails
  <2> QED
    BY <1>1, <1>3, <1>4, <2>1, UnlockModel DEF MediaInv
<1> QED
  BY <1>5, <1>6

\* A step of the thread on the models.
LEMMA ModelSteps ==
  ASSUME MediaInv, NEW j \in Jobs, Check(j) \/ Lock(j) \/ Recheck(j) \/ Load(j) \/ Get(j)
  PROVE  MediaInv'
<1>1. ModelInv /\ ModelTypes /\ JobInv
  BY DEF MediaInv, ModelInv
<1>2. th[j] \in ThreadsOf("infer") /\ th[j] # "none"
  BY DEF Check, Lock, Recheck, Load, Get, ThreadsOf
<1>3. j \in Begun /\ co[j] # "start" /\ (outcome[j] # "cancelled" => co[j] = "infer")
  BY <1>2, PlaceFacts DEF Begun
<1>4. ASSUME Stays, NEW t \in {"wait", "recheck", "load", "get", "run"}, Thread(j, t)
      PROVE  JobInv' /\ Begun \subseteq Begun' /\ job' = job /\ th' = [th EXCEPT ![j] = t]
  <2>1. UNCHANGED <<job, co, outcome, files, captions>> /\ th' = [th EXCEPT ![j] = t]
    BY <1>4 DEF Stays, Thread
  <2>2. t \in ThreadsOf("infer") /\ t \notin {"ffmpeg", "cut"}
    BY DEF ThreadsOf
  <2> QED
    BY <1>1, <1>3, <2>1, <2>2, JobWaits
<1>5. {"wait", "get", "run", "none"} \subseteq ThreadPlaces \ {"recheck", "load"}
  BY DEF ThreadPlaces
<1>6. CASE Check(j)
  <2>1. PICK t \in {"get", "wait"} : Thread(j, t) /\ (t = "get" => Cached(j))
    BY <1>6 DEF Check
  <2>2. Stays /\ th[j] = "check" /\ UNCHANGED <<cached, lock>>
    BY <1>6 DEF Check, modelVars
  <2>3. JobInv' /\ Begun \subseteq Begun' /\ job' = job /\ th' = [th EXCEPT ![j] = t]
    BY <1>4, <2>1, <2>2
  <2> QED
    BY <1>1, <1>5, <2>1, <2>2, <2>3, ModelStill DEF MediaInv
<1>7. CASE Lock(j)
  BY <1>1, <1>4, <1>7, LockModel DEF Lock, MediaInv
<1>8. CASE Recheck(j) /\ Cached(j)
  <2>1. Stays /\ Thread(j, "get") /\ Unlock(j) /\ cached' = cached /\ th[j] = "recheck"
    BY <1>8 DEF Recheck
  <2>2. JobInv' /\ Begun \subseteq Begun' /\ job' = job /\ th' = [th EXCEPT ![j] = "get"]
    BY <1>4, <2>1
  <2> QED
    BY <1>1, <1>5, <1>8, <2>1, <2>2, UnlockModel DEF MediaInv
<1>9. CASE Recheck(j) /\ ~Cached(j)
  <2>1. Stays /\ Thread(j, "load")
    BY <1>9 DEF Recheck
  <2>2. JobInv'
    BY <1>4, <2>1
  <2> QED
    BY <1>1, <1>3, <1>9, <2>2, RecheckMisses DEF MediaInv
<1>10. CASE Load(j)
  <2>1. Stays /\ Thread(j, "get")
    BY <1>10 DEF Load
  <2>2. JobInv'
    BY <1>4, <2>1
  <2> QED
    BY <1>1, <1>3, <1>10, <2>2, LoadModel DEF MediaInv
<1>11. CASE Get(j) /\ Cached(j)
  <2>1. Stays /\ Thread(j, "run") /\ UNCHANGED <<cached, lock>> /\ th[j] = "get"
    BY <1>11 DEF Get, modelVars
  <2>2. JobInv' /\ Begun \subseteq Begun' /\ job' = job /\ th' = [th EXCEPT ![j] = "run"]
    BY <1>4, <2>1
  <2> QED
    BY <1>1, <1>5, <2>1, <2>2, ModelStill DEF MediaInv
<1>12. CASE Get(j) /\ ~Cached(j)
  <2>1. ThreadFails(j, "keyerror") /\ UNCHANGED <<cached, lock>> /\ th[j] = "get"
    BY <1>12 DEF Get, modelVars
  <2>2. Exceeded
    BY <1>1, <1>12, <2>1 DEF ModelInv, Found
  <2>3. JobInv' /\ Begun \subseteq Begun' /\ job' = job /\ th' = [th EXCEPT ![j] = "none"]
    BY <2>1, <2>2, JobFails
  <2> QED
    BY <1>1, <1>5, <2>1, <2>3, ModelStill DEF MediaInv
<1> QED
  BY <1>6, <1>7, <1>8, <1>9, <1>10, <1>11, <1>12

LEMMA NextMedia == MediaInv /\ [Next]_vars => MediaInv'
<1> SUFFICES ASSUME MediaInv, [Next]_vars PROVE MediaInv'
  OBVIOUS
<1>1. CASE UNCHANGED vars
  <2>1. ModelInv'
    <3>1. UNCHANGED <<job, cached, lock, th, co>>
      BY <1>1 DEF vars, modelVars
    <3>2. Begun \subseteq Begun'
      BY <3>1 DEF Begun
    <3> QED
      BY <3>1, <3>2, ModelsUnchanged DEF MediaInv
  <2>2. \A i \in Jobs : (Class(i))' = Class(i) /\ (FilesOf(i))' = FilesOf(i)
    BY <1>1 DEF vars, Class, FilesOf
  <2>3. Exceeded' = Exceeded /\ Running' = Running
    BY <1>1 DEF vars, Exceeded, ImageModels, Begun, Class, Model, Running
  <2>4. JobTypes'
    BY <1>1, <2>3 DEF MediaInv, JobInv, JobTypes, vars
  <2>5. Threads' /\ KeyErrors' /\ Kept'
    BY <1>1, <2>2, <2>3 DEF MediaInv, JobInv, Threads, ThreadAt, KeyErrors, Kept, FilesAt, vars
  <2> QED
    BY <2>1, <2>4, <2>5 DEF MediaInv, JobInv
<1>2. ASSUME NEW j \in Jobs, Begin(j) \/ BeginFails(j) \/ Cancel(j) \/ Coroutine(j) \/ Threaded(j)
      PROVE  MediaInv'
  <2>1. CASE Begin(j) \/ BeginFails(j) \/ Cancel(j) \/ FetchFails(j) \/ Finish(j)
             \/ \E f \in 1 .. Frames : Caption(j, f)
    <3>1. UNCHANGED <<th, cached, lock>>
      BY <2>1 DEF Begin, BeginFails, Cancel, FetchFails, Finish, Caption, modelVars
    <3> QED
      BY <2>1, <3>1, CoroutineSteps
  <2>2. CASE Fetch(j) \/ Convert(j) \/ Infer(j) \/ ExtractFrames(j)
    BY <2>2, ThreadSteps
  <2>3. CASE ConvertFails(j) \/ LoadFails(j) \/ InferFails(j)
    BY <2>3, FailSteps
  <2>4. CASE Check(j) \/ Lock(j) \/ Recheck(j) \/ Load(j) \/ Get(j)
    BY <2>4, ModelSteps
  <2> QED
    BY <1>2, <2>1, <2>2, <2>3, <2>4 DEF Coroutine, Threaded
<1> QED
  BY <1>1, <1>2 DEF Next

LEMMA MediaHolds == Spec => []MediaInv
<1> QED
  BY InitMedia, NextMedia, PTL DEF Spec

-----------------------------------------------------------------------------
\* Every variable has its type, no more jobs run than the worker has slots, and a
\* lock of a class is with a thread between its second check and its load.
THEOREM MediaTypeCorrect == Spec => []MediaTypeOK
<1>1. MediaInv => MediaTypeOK
  BY DEF MediaInv, ModelInv, ModelTypes, Held, JobInv, JobTypes, Kinds, MediaTypeOK
<1> QED
  BY <1>1, MediaHolds, PTL

\* The double-checked loads keep each cache within its bound, without a model
\* twice, however many jobs of however many classes load at once.
THEOREM ReadersCorrect == Spec => []ReadersBounded
<1>1. MediaInv => ReadersBounded
  BY DEF MediaInv, ModelInv
<1> QED
  BY <1>1, MediaHolds, PTL

\* The lookup without the lock misses only when the images begun so far came with
\* more sets of languages than the cache has room for.
THEOREM KeyErrorCorrect == Spec => []KeyErrorNeedsMore
<1>1. MediaInv => KeyErrorNeedsMore
  BY DEF MediaInv, JobInv, KeyErrors, Exceeded, ImageModels, KeyErrorNeedsMore
<1> QED
  BY <1>1, MediaHolds, PTL

\* The finally clauses leave no temporary file of an ended job but one of a video:
\* the first when the second could not be made, or what ffmpeg makes when the job
\* was cancelled under it.
THEOREM FilesCorrect == Spec => []FilesGone
<1>1. MediaInv => FilesGone
  BY DEF MediaInv, JobInv, Kept, FilesAt, FilesGone
<1> QED
  BY <1>1, MediaHolds, PTL

\* No thread works for nobody but those of cancelled jobs, and the others are no
\* more than the slots, for any number of jobs and slots.
THEOREM SlotsCorrect == Spec => []SlotsHold
<1>1. MediaInv => SlotsHold
  <2> SUFFICES ASSUME MediaInv PROVE SlotsHold
    OBVIOUS
  <2> DEFINE at == {j \in Jobs : th[j] # "none" /\ outcome[j] # "cancelled"}
  <2>1. ASSUME NEW j \in Jobs, outcome[j] # "cancelled"
        PROVE  th[j] # "none" <=> co[j] \in {"convert", "infer", "frames"}
    <3>1. th[j] \in ThreadsOf(co[j])
      BY <2>1 DEF MediaInv, JobInv, Threads, ThreadAt
    <3> QED
      BY <3>1 DEF ThreadsOf
  <2>2. at \subseteq Running
    BY <2>1 DEF Running, Working
  <2>3. IsFiniteSet(Running) /\ Cardinality(Running) <= Slots /\ Slots \in Nat
    BY MediaAssumption DEF MediaInv, JobInv, JobTypes
  <2>4. IsFiniteSet(at) /\ Cardinality(at) <= Cardinality(Running)
    BY <2>2, <2>3, FS_Subset
  <2>5. Cardinality(at) \in Nat /\ Cardinality(Running) \in Nat
    BY <2>3, <2>4, FS_CardinalityType
  <2>6. Cardinality(at) <= Slots
    BY <2>3, <2>4, <2>5
  <2> QED
    BY <2>1, <2>6 DEF SlotsHold
<1> QED
  BY <1>1, MediaHolds, PTL
=============================================================================
