---------------------------- MODULE UpgradeProofs ----------------------------
(* Theorems about Upgrade, for any number of operators, any images and     *)
(* archives, any partitions and any number of blocks, proved with TLAPS.   *)
EXTENDS Upgrade, SequenceTheorems, TLAPS

(* The runs whose image is known.                                          *)
Writing == {"erase", "copy", "verify"}
Counting == {"copy", "verify"}

RunOK(r) ==
  /\ r.at \in Writing => /\ r.file \in Images
                         /\ Header[r.file] \in Partitions
  /\ r.at \in Writing \cup {"open"} => r.try \in 1..2
  /\ r.at \in Counting => r.block \in 1..Blocks

Typed ==
  /\ TypeOK
  /\ \A o \in Operators : RunOK(run[o])
  /\ writers # {} => list # None

(* Two runs that write to one partition have hurt it.                      *)
Exclusive ==
  \A o, v \in Operators :
    /\ o # v
    /\ run[o].at \in Counting /\ run[v].at \in Counting
    /\ Header[run[o].file] = Header[run[v].file]
    => hurt[Header[run[o].file]]

(* What a run has found to be the same when it read it back still is,      *)
(* while nobody else has touched the partition.                            *)
ReadBack ==
  \A o \in Operators :
    LET p == Header[run[o].file] IN
    /\ run[o].at = "verify" /\ run[o].same /\ ~hurt[p]
    => \A b \in 1..Blocks : b < run[o].block => flash[p][b] = run[o].file

Inv == Typed /\ Exclusive /\ ReadBack /\ WholeUnlessHurt
-----------------------------------------------------------------------------
(* Lemmas about the operators.                                             *)

(* None is no file, no upload and no list.                                 *)
LEMMA NoneIsNoImage == None \notin Images /\ None \notin Uploads /\ None \notin Seq(Images)
  BY NamesAssumption

(* A list written over the head of a list is a list.                       *)
LEMMA OverType ==
  ASSUME NEW new \in Seq(Images), NEW old \in Seq(Images)
  PROVE  Over(new, old) \in Seq(Images)
  <1>1. \A k \in Len(new) + 1 .. Len(old) : old[k] \in Images
    BY ElementOfSeq, LenProperties
  <1>2. SubSeq(old, Len(new) + 1, Len(old)) \in Seq(Images)
    BY <1>1, LenProperties, SubSeqProperties
  <1> QED
    BY <1>2, ConcatProperties DEF Over

(* What a run finds under the name it is given is an image or nothing.     *)
LEMMA FoundType ==
  ASSUME TypeOK, NEW o \in Operators
  PROVE  Found(o) \in Images \cup {None}
  <1>1. ASSUME image \in Uploads \ Tars
        PROVE  Contents[image][1] \in Images
    <2>1. Contents[image] \in Seq(Images) /\ Len(Contents[image]) = 1
      BY <1>1, UploadAssumption
    <2> QED
      BY <2>1, ElementOfSeq
  <1>2. run[o] \in Runs
    BY DEF TypeOK
  <1> QED
    BY <1>1, <1>2 DEF Found, Runs

(* What upgrade accepts is an image for a partition it knows.              *)
LEMMA AcceptedType ==
  ASSUME NEW i \in Images \cup {None}, Accepted(i)
  PROVE  i \in Images /\ Header[i] \in Partitions
  BY DEF Accepted

(* A run other than o is where it was.                                     *)
LEMMA OthersStay ==
  ASSUME TypeOK, NEW o \in Operators, NEW r, Go(o, r)
  PROVE  /\ run'[o] = r
         /\ \A v \in Operators : v # o => run'[v] = run[v]
         /\ r \in Runs => run' \in [Operators -> Runs]
  BY DEF Go, TypeOK

(* A run that has not begun is a run.                                      *)
LEMMA IdleType == Idle \in Runs
  <1>1. <<>> \in Seq(Images)
    BY EmptySeq
  <1> QED
    BY <1>1, BlocksAssumption DEF Idle, Runs, Places

(* One field of a run changes.                                             *)
LEMMA AtType ==
  ASSUME NEW r \in Runs, NEW place \in Places
  PROVE  LET s == [r EXCEPT !.at = place]
         IN  /\ s \in Runs /\ s.at = place /\ s.queue = r.queue /\ s.file = r.file
             /\ s.direct = r.direct /\ s.try = r.try /\ s.block = r.block /\ s.same = r.same
  BY DEF Runs

(* ... its count of tries,                                                 *)
LEMMA TryType ==
  ASSUME NEW r \in Runs, NEW n \in {1, 2}
  PROVE  LET s == [r EXCEPT !.try = n]
         IN  s \in Runs /\ s.at = r.at /\ s.file = r.file /\ s.try = n /\ s.block = r.block
  BY DEF Runs

(* ... its block,                                                          *)
LEMMA BlockType ==
  ASSUME NEW r \in Runs, NEW n \in 0..Blocks
  PROVE  LET s == [r EXCEPT !.block = n]
         IN  s \in Runs /\ s.at = r.at /\ s.file = r.file /\ s.try = r.try /\ s.block = n
  BY DEF Runs

(* ... its record of what it has read back,                                *)
LEMMA SameType ==
  ASSUME NEW r \in Runs, NEW x \in BOOLEAN
  PROVE  LET s == [r EXCEPT !.same = x]
         IN  /\ s \in Runs /\ s.at = r.at /\ s.file = r.file /\ s.try = r.try
             /\ s.block = r.block /\ s.same = x
  BY DEF Runs

(* ... the members it has yet to write,                                    *)
LEMMA QueueType ==
  ASSUME NEW r \in Runs, NEW q \in Seq(Images)
  PROVE  LET s == [r EXCEPT !.queue = q]
         IN  s \in Runs /\ s.at = r.at /\ s.file = r.file /\ s.try = r.try
  BY DEF Runs

(* ... its image,                                                          *)
LEMMA FileType ==
  ASSUME NEW r \in Runs, NEW i \in Images
  PROVE  LET s == [r EXCEPT !.file = i]
         IN  s \in Runs /\ s.at = r.at /\ s.file = i /\ s.try = r.try
  BY DEF Runs

(* ... and the note that the upload itself is the image.                   *)
LEMMA DirectType ==
  ASSUME NEW r \in Runs
  PROVE  LET s == [r EXCEPT !.direct = TRUE]
         IN  s \in Runs /\ s.at = r.at /\ s.try = r.try
  BY DEF Runs

(* A run that is sent to another place.                                    *)
LEMMA SentTo ==
  ASSUME TypeOK, NEW o \in Operators, NEW place \in Places
  PROVE  /\ At(o, place) \in Runs /\ At(o, place).at = place
         /\ At(o, place).file = run[o].file /\ At(o, place).try = run[o].try
  BY AtType DEF At, TypeOK

(* A failure of the first try leads to a second, one of the second on.     *)
LEMMA FailedType ==
  ASSUME TypeOK, NEW o \in Operators
  PROVE  /\ Failed(o) \in Runs
         /\ Failed(o).at \in {"open", "unlink"}
         /\ Failed(o).file = run[o].file
         /\ run[o].try = 1 => Failed(o).at = "open" /\ Failed(o).try = 2
         /\ run[o].try # 1 => Failed(o).at = "unlink"
  <1>1. "open" \in Places /\ "unlink" \in Places
    BY DEF Places
  <1>2. CASE run[o].try = 1
    <2>1. Failed(o) = [At(o, "open") EXCEPT !.try = 2]
      BY <1>2 DEF Failed
    <2>2. At(o, "open") \in Runs /\ At(o, "open").at = "open" /\ At(o, "open").file = run[o].file
      BY <1>1, SentTo
    <2>3. Failed(o) \in Runs /\ Failed(o).at = "open" /\ Failed(o).file = run[o].file
          /\ Failed(o).try = 2
      BY <2>1, <2>2, TryType
    <2> QED
      BY <1>2, <2>3
  <1>3. CASE run[o].try # 1
    BY <1>1, <1>3, SentTo DEF Failed
  <1> QED
    BY <1>2, <1>3
-----------------------------------------------------------------------------
(* The invariant holds when the device boots for the first time.           *)
LEMMA InitKeeps == Init => Inv
  <1> SUFFICES ASSUME Init PROVE Inv
    OBVIOUS
  <1>1. Typed
    <2>1. \A o \in Operators : run[o] = Idle
      BY DEF Init
    <2>2. run \in [Operators -> Runs]
      BY IdleType DEF Init
    <2>3. flash \in [Partitions -> [1..Blocks -> Images \cup Marks]]
      BY DEF Init, Marks
    <2>4. TypeOK
      BY <2>2, <2>3, BoundsAssumption DEF Init, TypeOK
    <2>5. \A o \in Operators : RunOK(run[o])
      BY <2>1 DEF RunOK, Idle, Writing, Counting
    <2> QED
      BY <2>4, <2>5 DEF Typed, Init
  <1>2. \A o \in Operators : run[o].at = "idle"
    BY DEF Init, Idle
  <1>3. Exclusive /\ ReadBack
    BY <1>2 DEF Exclusive, ReadBack, Counting
  <1>4. \A p \in Partitions : Whole(p)
    BY DEF Init, Whole
  <1> QED
    BY <1>1, <1>3, <1>4 DEF Inv, WholeUnlessHurt
-----------------------------------------------------------------------------
(* Every step preserves the types.                                         *)

(* Requests of the pages keep the types.                                   *)
LEMMA RequestTyped ==
  ASSUME Typed, NEW o \in Operators, (\E u \in Uploads : SetUpdate(o, u)) \/ SetOnlyUpdate(o)
  PROVE  Typed'
  <1>1. requests' \in 0..MaxRequests
    BY BoundsAssumption DEF SetUpdate, SetOnlyUpdate, Typed, TypeOK
  <1>2. ASSUME NEW u \in Uploads, SetUpdate(o, u)
        PROVE  Typed'
    <2>1. want' \in [Operators -> Uploads \cup {None}] /\ alone' \in [Operators -> BOOLEAN]
      BY <1>2 DEF SetUpdate, Typed, TypeOK, Quiet
    <2>2. TypeOK'
      BY <1>1, <1>2, <2>1 DEF SetUpdate, Typed, TypeOK
    <2> QED
      BY <1>2, <2>2 DEF SetUpdate, Typed, RunOK
  <1>3. ASSUME SetOnlyUpdate(o)
        PROVE  Typed'
    <2>1. At(o, "tar") \in Runs /\ At(o, "tar").at = "tar"
      BY SentTo DEF Typed, Places
    <2>2. run'[o] = At(o, "tar") /\ \A v \in Operators : v # o => run'[v] = run[v]
      BY <1>3, OthersStay DEF SetOnlyUpdate, Typed
    <2>3. run' \in [Operators -> Runs]
      BY <1>3, <2>1, OthersStay DEF SetOnlyUpdate, Typed
    <2>4. \A v \in Operators : RunOK(run'[v])
      BY <2>1, <2>2 DEF RunOK, Typed, Writing, Counting
    <2>5. list' \in Seq(Images) /\ list' # None
      BY <1>3, EmptySeq, NoneIsNoImage DEF SetOnlyUpdate
    <2>6. writers' \subseteq Operators /\ alone' \in [Operators -> BOOLEAN]
      BY <1>3 DEF SetOnlyUpdate, Typed, TypeOK, Quiet
    <2>7. TypeOK'
      BY <1>1, <1>3, <2>3, <2>5, <2>6 DEF SetOnlyUpdate, Typed, TypeOK
    <2> QED
      BY <2>4, <2>5, <2>7 DEF Typed, RunOK
  <1> QED
    BY <1>2, <1>3

(* A step that leaves run o outside of the writing places.                 *)
LEMMA RestTyped ==
  ASSUME Typed, NEW o \in Operators, NEW r \in Runs, Go(o, r), r.at \notin Writing,
         r.at = "open" => r.try \in 1..2
  PROVE  run' \in [Operators -> Runs] /\ \A v \in Operators : RunOK(run'[v])
  <1>1. run'[o] = r /\ \A v \in Operators : v # o => run'[v] = run[v]
    BY OthersStay DEF Typed
  <1>2. RunOK(r)
    BY DEF RunOK, Writing, Counting
  <1> QED
    BY <1>1, <1>2, OthersStay DEF Typed

(* tar keeps the types: what is listed and unpacked are images.            *)
LEMMA UnpackTyped ==
  ASSUME Typed, NEW o \in Operators, Unpack(o)
  PROVE  Typed'
  <1> DEFINE names == IF image \in Tars THEN Contents[image] ELSE <<>>
  <1>1. names \in Seq(Images)
    BY UploadAssumption, EmptySeq DEF Typed, TypeOK
  <1>2. {names[k] : k \in DOMAIN names} \subseteq Images
    BY <1>1, ElementOfSeq, LenProperties
  <1>3. files' \subseteq Images
    BY <1>2 DEF Unpack, Typed, TypeOK
  <1>4. list' \in Seq(Images) \cup {None} /\ (writers # {} => list' # None)
    <2>1. CASE o \in writers
      <3>1. list \in Seq(Images)
        BY <2>1 DEF Typed, TypeOK
      <3> QED
        BY <1>1, <2>1, <3>1, OverType, NoneIsNoImage DEF Unpack
    <2>2. CASE o \notin writers
      BY <2>2 DEF Unpack, Typed, TypeOK
    <2> QED
      BY <2>1, <2>2
  <1>5. At(o, "list") \in Runs /\ At(o, "list").at = "list"
    BY DEF At, Typed, TypeOK, Places, Runs
  <1>6. run' \in [Operators -> Runs] /\ \A v \in Operators : RunOK(run'[v])
    BY <1>5, RestTyped DEF Unpack, Writing
  <1>7. TypeOK'
    BY <1>3, <1>4, <1>6 DEF Unpack, Typed, TypeOK, history
  <1> QED
    BY <1>4, <1>6, <1>7 DEF Typed, RunOK, Unpack

(* What the steps below have in common: they move run o and nothing else   *)
(* but partitions, members, the count of faults and the record of hurts.   *)
LEMMA MoveTyped ==
  ASSUME Typed,
         run' \in [Operators -> Runs], \A v \in Operators : RunOK(run'[v]),
         UNCHANGED <<image, list, writers, eon, up, requests, cuts, want, alone>>,
         files' \subseteq files,
         flash' \in [Partitions -> [1..Blocks -> Images \cup Marks]],
         faults' \in 0..MaxFaults,
         hurt' \in [Partitions -> BOOLEAN], missed' \subseteq Partitions
  PROVE  Typed'
  <1>1. TypeOK'
    BY DEF Typed, TypeOK
  <1> QED
    BY <1>1 DEF Typed, RunOK

(* Reading the list, taking a member and removing it keep the types.       *)
LEMMA QueueTyped ==
  ASSUME Typed, NEW o \in Operators, ReadList(o) \/ NextMember(o) \/ Unlink(o)
  PROVE  Typed'
  <1>1. run[o] \in Runs /\ list \in Seq(Images) \cup {None}
    BY DEF Typed, TypeOK
  <1>2. ASSUME NEW r \in Runs, Go(o, r), r.at \notin Writing,
               r.at = "open" => r.try \in 1..2, files' \subseteq files,
               UNCHANGED <<image, list, writers, flash, eon, up, requests, faults, cuts, history>>
        PROVE  Typed'
    <2>1. run' \in [Operators -> Runs] /\ \A v \in Operators : RunOK(run'[v])
      BY <1>2, RestTyped
    <2> QED
      BY <1>2, <2>1, MoveTyped DEF Typed, TypeOK, history
  <1>3. CASE ReadList(o)
    <2>1. CASE list = None
      <3>1. At(o, "leaving") \in Runs /\ At(o, "leaving").at = "leaving"
        BY <1>1 DEF At, Runs, Places
      <3>2. None # <<>>
        BY NoneIsNoImage, EmptySeq
      <3>3. Go(o, At(o, "leaving"))
        BY <1>3, <2>1, <3>2 DEF ReadList
      <3> QED
        BY <1>2, <1>3, <3>1, <3>3 DEF ReadList, Writing, tmp
    <2>2. CASE list # None /\ list = <<>>
      <3> DEFINE r == [At(o, "open") EXCEPT !.direct = TRUE, !.try = 1]
      <3> DEFINE s == [At(o, "open") EXCEPT !.direct = TRUE]
      <3>1. s \in Runs /\ s.at = "open"
        BY SentTo, DirectType DEF Typed, Places
      <3>2. r = [s EXCEPT !.try = 1]
        OBVIOUS
      <3> HIDE DEF r, s
      <3>3. r \in Runs /\ r.at = "open" /\ r.try = 1
        BY <3>1, <3>2, TryType
      <3>4. Go(o, r)
        BY <1>3, <2>2 DEF ReadList, r
      <3> QED
        BY <1>2, <1>3, <3>3, <3>4 DEF ReadList, Writing, tmp
    <2>3. CASE list # None /\ list # <<>>
      <3> DEFINE r == [At(o, "next") EXCEPT !.queue = list]
      <3>1. r \in Runs /\ r.at = "next"
        BY <1>1, <2>3, SentTo, QueueType DEF Typed, Places
      <3>2. Go(o, r)
        BY <1>3, <2>3 DEF ReadList
      <3> QED
        BY <1>2, <1>3, <3>1, <3>2 DEF ReadList, Writing, tmp
    <2> QED
      BY <2>1, <2>2, <2>3
  <1>4. CASE NextMember(o)
    <2>1. CASE run[o].queue = <<>>
      <3>1. At(o, "finish") \in Runs /\ At(o, "finish").at = "finish"
        BY <1>1 DEF At, Runs, Places
      <3> QED
        BY <1>2, <1>4, <2>1, <3>1 DEF NextMember, Writing, tmp
    <2>2. CASE run[o].queue # <<>>
      <3> DEFINE r == [At(o, "open") EXCEPT !.file = Head(run[o].queue),
                                            !.queue = Tail(run[o].queue), !.try = 1]
      <3>1. Head(run[o].queue) \in Images /\ Tail(run[o].queue) \in Seq(Images)
        BY <1>1, <2>2, HeadTailProperties DEF Runs
      <3> DEFINE s == [At(o, "open") EXCEPT !.file = Head(run[o].queue)]
                 t == [s EXCEPT !.queue = Tail(run[o].queue)]
      <3>2. s \in Runs /\ s.at = "open"
        BY <3>1, SentTo, FileType DEF Typed, Places
      <3>3. t \in Runs /\ t.at = "open"
        BY <3>1, <3>2, QueueType
      <3>4. r = [t EXCEPT !.try = 1]
        OBVIOUS
      <3> HIDE DEF r, s, t
      <3>5. r \in Runs /\ r.at = "open" /\ r.try = 1
        BY <3>3, <3>4, TryType
      <3>6. Go(o, r)
        BY <1>4, <2>2 DEF NextMember, r
      <3> QED
        BY <1>2, <1>4, <3>5, <3>6 DEF NextMember, Writing, tmp
    <2> QED
      BY <2>1, <2>2
  <1>5. CASE Unlink(o)
    <2> DEFINE r == [Idle EXCEPT !.at = IF run[o].direct THEN "finish" ELSE "next",
                                 !.queue = run[o].queue]
    <2>1. r \in Runs /\ r.at \in {"finish", "next"}
      BY <1>1, IdleType DEF Runs, Places, Idle
    <2>2. Go(o, r) /\ files' \subseteq files
      BY <1>5 DEF Unlink
    <2> QED
      BY <1>2, <1>5, <2>1, <2>2 DEF Unlink, Writing
  <1> QED
    BY <1>3, <1>4, <1>5

(* The count of faults keeps to its bound.                                 *)
LEMMA FaultType ==
  ASSUME Typed, Fault
  PROVE  faults' \in 0..MaxFaults
  BY BoundsAssumption DEF Fault, Typed, TypeOK

(* A run that has opened its image knows the partition it is for.          *)
LEMMA OpenTyped ==
  ASSUME Typed, NEW o \in Operators, Open(o) \/ Refuse(o) \/ OpenError(o)
  PROVE  Typed'
  <1>1. run[o] \in Runs
    BY DEF Typed, TypeOK
  <1>2. hurt' \in [Partitions -> BOOLEAN]
    BY DEF Open, Refuse, OpenError, Working, Typed, TypeOK
  <1>3. CASE Open(o)
    <2> DEFINE r == [At(o, "erase") EXCEPT !.file = Found(o)]
    <2>1. Found(o) \in Images /\ Header[Found(o)] \in Partitions
      BY <1>3, FoundType, AcceptedType DEF Open, Typed
    <2>2. r \in Runs
      BY <1>1, <2>1 DEF At, Runs, Places
    <2>3. run[o].try \in 1..2
      BY <1>3 DEF Open, Typed, RunOK
    <2>4. RunOK(r)
      BY <1>1, <2>1, <2>3 DEF RunOK, At, Runs, Writing, Counting
    <2>5. run' \in [Operators -> Runs] /\ \A v \in Operators : RunOK(run'[v])
      BY <1>3, <2>2, <2>4, OthersStay DEF Open, Typed
    <2> QED
      BY <1>2, <1>3, <2>5, MoveTyped DEF Open, Typed, TypeOK, tmp
  <1>4. CASE Refuse(o)
    <2>1. At(o, "unlink") \in Runs /\ At(o, "unlink").at = "unlink"
      BY <1>1 DEF At, Runs, Places
    <2>2. run' \in [Operators -> Runs] /\ \A v \in Operators : RunOK(run'[v])
      BY <1>4, <2>1, RestTyped DEF Refuse, Writing
    <2> QED
      BY <1>2, <1>4, <2>2, MoveTyped DEF Refuse, Typed, TypeOK, tmp
  <1>5. CASE OpenError(o)
    <2>1. At(o, "unlink") \in Runs /\ At(o, "unlink").at = "unlink"
      BY <1>1 DEF At, Runs, Places
    <2>2. run' \in [Operators -> Runs] /\ \A v \in Operators : RunOK(run'[v])
      BY <1>5, <2>1, RestTyped DEF OpenError, Writing
    <2>3. Header[Found(o)] \in Partitions
      BY <1>5, FoundType, AcceptedType DEF OpenError, Typed
    <2>4. missed' \subseteq Partitions
      BY <1>5, <2>3 DEF OpenError, Typed, TypeOK
    <2>5. faults' \in 0..MaxFaults
      BY <1>5, FaultType DEF OpenError
    <2> QED
      BY <1>2, <1>5, <2>2, <2>4, <2>5, MoveTyped DEF OpenError, Typed, TypeOK, tmp
  <1> QED
    BY <1>3, <1>4, <1>5

(* A writing run moves on with its file.                                   *)
LEMMA WriterMoves ==
  ASSUME Typed, NEW o \in Operators, run[o].at \in Writing,
         NEW r \in Runs, Go(o, r), r.file = run[o].file,
         \/ r.try = run[o].try
         \/ r.try \in 1..2,
         r.at \in Counting => r.block \in 1..Blocks
  PROVE  run' \in [Operators -> Runs] /\ \A v \in Operators : RunOK(run'[v])
  <1>1. RunOK(run[o])
    BY DEF Typed
  <1>2. RunOK(r)
    BY <1>1 DEF RunOK
  <1> QED
    BY <1>2, OthersStay DEF Typed

(* A failing call keeps the types.                                         *)
LEMMA FailTyped ==
  ASSUME Typed, NEW o \in Operators, run[o].at \in Writing, Go(o, Failed(o))
  PROVE  run' \in [Operators -> Runs] /\ \A v \in Operators : RunOK(run'[v])
  <1>1. run[o].try \in 1..2
    BY DEF Typed, RunOK
  <1>2. Failed(o) \in Runs /\ Failed(o).at \in {"open", "unlink"}
        /\ (Failed(o).at = "open" => Failed(o).try \in 1..2)
    BY <1>1, FailedType DEF Typed
  <1> QED
    BY <1>2, RestTyped DEF Writing

(* One write changes one block of one partition.                           *)
LEMMA BurnType ==
  ASSUME Typed, NEW p \in Partitions, NEW b \in 1..Blocks,
         NEW content \in Images \cup Marks, Burn(p, b, content)
  PROVE  /\ flash' \in [Partitions -> [1..Blocks -> Images \cup Marks]]
         /\ \A q \in Partitions : q # p => flash'[q] = flash[q]
  BY DEF Burn, Typed, TypeOK

(* Erasing keeps the types.                                                *)
LEMMA EraseTyped ==
  ASSUME Typed, NEW o \in Operators, Erase(o) \/ EraseError(o)
  PROVE  Typed'
  <1> DEFINE p == Header[run[o].file]
  <1>1. /\ run[o] \in Runs /\ run[o].at = "erase" /\ run[o].file \in Images
        /\ p \in Partitions /\ run[o].try \in 1..2
    BY DEF Typed, TypeOK, RunOK, Erase, EraseError, Writing
  <1>2. CASE Erase(o)
    <2> DEFINE r == [At(o, "copy") EXCEPT !.block = 1]
    <2>1. r \in Runs /\ r.file = run[o].file /\ r.try = run[o].try /\ r.block \in 1..Blocks
      <3>1. 1 \in 1..Blocks /\ 1 \in 0..Blocks
        BY BlocksAssumption
      <3> QED
        BY <3>1, SentTo, BlockType DEF Typed, Places
    <2>2. Go(o, r)
      BY <1>2 DEF Erase
    <2>3. run' \in [Operators -> Runs] /\ \A v \in Operators : RunOK(run'[v])
      BY <1>1, <2>1, <2>2, WriterMoves DEF Writing
    <2>4. flash' \in [Partitions -> [1..Blocks -> Images \cup Marks]]
      BY <1>1, <1>2 DEF Erase, Typed, TypeOK, Marks
    <2>5. hurt' \in [Partitions -> BOOLEAN]
      BY <1>2 DEF Erase, Typed, TypeOK, Working
    <2> QED
      BY <1>2, <2>3, <2>4, <2>5, MoveTyped DEF Erase, Typed, TypeOK, tmp
  <1>3. CASE EraseError(o)
    <2>1. Go(o, Failed(o)) /\ Fault
      BY <1>3 DEF EraseError
    <2>2. run' \in [Operators -> Runs] /\ \A v \in Operators : RunOK(run'[v])
      BY <1>1, <2>1, FailTyped DEF Writing
    <2>3. flash' \in [Partitions -> [1..Blocks -> Images \cup Marks]]
      <3>1. PICK k \in 0..Blocks :
              flash' = [flash EXCEPT ![p] = [b \in 1..Blocks |-> IF b <= k THEN "erased" ELSE @[b]]]
        BY <1>3 DEF EraseError
      <3>2. [b \in 1..Blocks |-> IF b <= k THEN "erased" ELSE flash[p][b]]
              \in [1..Blocks -> Images \cup Marks]
        <4>1. flash[p] \in [1..Blocks -> Images \cup Marks]
          BY <1>1 DEF Typed, TypeOK
        <4> QED
          BY <4>1 DEF Marks
      <3> QED
        BY <1>1, <3>1, <3>2 DEF Typed, TypeOK
    <2>4. hurt' \in [Partitions -> BOOLEAN]
      BY <1>3 DEF EraseError, FailHurts, Working, Typed, TypeOK
    <2> QED
      BY <1>3, <2>1, <2>2, <2>3, <2>4, FaultType, MoveTyped DEF EraseError, Typed, TypeOK, tmp
  <1> QED
    BY <1>2, <1>3

(* What a step of copy_flash leads to.                                     *)
LEMMA CopyMoves ==
  ASSUME Typed, NEW o \in Operators, Copy(o)
  PROVE  \/ /\ ~LastBlock(o) /\ UNCHANGED hurt
            /\ Go(o, [run[o] EXCEPT !.block = @ + 1])
         \/ Fails(o)
         \/ /\ LastBlock(o) /\ UNCHANGED hurt
            /\ Go(o, [At(o, "verify") EXCEPT !.block = 1, !.same = TRUE])
  BY DEF Copy

(* Writing a block keeps the types.                                        *)
LEMMA CopyTyped ==
  ASSUME Typed, NEW o \in Operators, Copy(o) \/ ShortWrite(o)
  PROVE  Typed'
  <1> DEFINE p == Header[run[o].file]
             b == run[o].block
  <1>1. /\ run[o] \in Runs /\ run[o].at = "copy" /\ run[o].file \in Images
        /\ p \in Partitions /\ run[o].try \in 1..2 /\ b \in 1..Blocks
    BY DEF Typed, TypeOK, RunOK, Copy, ShortWrite, Writing, Counting
  <1>2. flash' \in [Partitions -> [1..Blocks -> Images \cup Marks]]
    <2>1. \E content \in Images \cup Marks : Burn(p, b, content)
      BY <1>1 DEF Copy, ShortWrite, Burnt, Marks
    <2> QED
      BY <1>1, <2>1, BurnType
  <1>3. faults' \in 0..MaxFaults
    BY FaultType DEF Copy, ShortWrite, Typed, TypeOK
  <1>3a. missed' \subseteq Partitions
    BY DEF Copy, ShortWrite, Typed, TypeOK
  <1>4. CASE Fails(o)
    <2>1. run' \in [Operators -> Runs] /\ \A v \in Operators : RunOK(run'[v])
      BY <1>1, <1>4, FailTyped DEF Fails, Writing
    <2>2. hurt' \in [Partitions -> BOOLEAN]
      BY <1>4 DEF Fails, FailHurts, Typed, TypeOK
    <2> QED
      BY <1>2, <1>3, <1>3a, <2>1, <2>2, MoveTyped DEF Copy, ShortWrite, tmp
  <1>5. ASSUME ~LastBlock(o), UNCHANGED hurt, Go(o, [run[o] EXCEPT !.block = @ + 1])
        PROVE  Typed'
    <2> DEFINE r == [run[o] EXCEPT !.block = @ + 1]
    <2>1. r \in Runs /\ r.file = run[o].file /\ r.try = run[o].try /\ r.block \in 1..Blocks
      BY <1>1, <1>5, BlocksAssumption DEF Runs, LastBlock
    <2>2. run' \in [Operators -> Runs] /\ \A v \in Operators : RunOK(run'[v])
      BY <1>1, <1>5, <2>1, WriterMoves DEF Writing
    <2> QED
      BY <1>2, <1>3, <1>3a, <1>5, <2>2, MoveTyped DEF Copy, ShortWrite, tmp, Typed, TypeOK
  <1>6. ASSUME UNCHANGED hurt, Go(o, [At(o, "verify") EXCEPT !.block = 1, !.same = TRUE])
        PROVE  Typed'
    <2> DEFINE r == [At(o, "verify") EXCEPT !.block = 1, !.same = TRUE]
    <2>1. r \in Runs /\ r.file = run[o].file /\ r.try = run[o].try /\ r.block \in 1..Blocks
      <3> DEFINE s == [At(o, "verify") EXCEPT !.block = 1]
      <3>1. 1 \in 1..Blocks /\ 1 \in 0..Blocks
        BY BlocksAssumption
      <3>2. s \in Runs /\ s.file = run[o].file /\ s.try = run[o].try /\ s.block = 1
        BY <3>1, SentTo, BlockType DEF Typed, Places
      <3>3. r = [s EXCEPT !.same = TRUE]
        OBVIOUS
      <3> QED
        BY <3>1, <3>2, <3>3, SameType
    <2>2. run' \in [Operators -> Runs] /\ \A v \in Operators : RunOK(run'[v])
      BY <1>1, <1>6, <2>1, WriterMoves DEF Writing
    <2> QED
      BY <1>2, <1>3, <1>3a, <1>6, <2>2, MoveTyped DEF Copy, ShortWrite, tmp, Typed, TypeOK
  <1> QED
    BY <1>4, <1>5, <1>6, CopyMoves DEF ShortWrite

(* What a step of verify_flash leads to.                                   *)
LEMMA VerifyMoves ==
  ASSUME NEW o \in Operators, Verify(o)
  PROVE  \/ /\ ~LastBlock(o) /\ UNCHANGED hurt
            /\ Go(o, [run[o] EXCEPT !.block = @ + 1, !.same = Same(o)])
         \/ LastBlock(o) /\ Same(o) /\ Go(o, At(o, "unlink")) /\ UNCHANGED hurt
         \/ Fails(o)
  BY DEF Verify

(* Reading a block back keeps the types.                                   *)
LEMMA VerifyTyped ==
  ASSUME Typed, NEW o \in Operators, Verify(o)
  PROVE  Typed'
  <1>1. /\ run[o] \in Runs /\ run[o].at = "verify" /\ run[o].file \in Images
        /\ run[o].try \in 1..2 /\ run[o].block \in 1..Blocks
    BY DEF Typed, TypeOK, RunOK, Verify, Writing, Counting
  <1>2. ASSUME run' \in [Operators -> Runs], \A v \in Operators : RunOK(run'[v]),
               hurt' \in [Partitions -> BOOLEAN]
        PROVE  Typed'
    BY <1>2, MoveTyped DEF Verify, tmp, Typed, TypeOK
  <1>3. CASE Fails(o)
    <2>1. run' \in [Operators -> Runs] /\ \A v \in Operators : RunOK(run'[v])
      BY <1>1, <1>3, FailTyped DEF Fails, Writing
    <2>2. hurt' \in [Partitions -> BOOLEAN]
      BY <1>3 DEF Fails, FailHurts, Typed, TypeOK
    <2> QED
      BY <1>2, <2>1, <2>2
  <1>4. ASSUME ~LastBlock(o), UNCHANGED hurt,
               Go(o, [run[o] EXCEPT !.block = @ + 1, !.same = Same(o)])
        PROVE  Typed'
    <2> DEFINE r == [run[o] EXCEPT !.block = @ + 1, !.same = Same(o)]
    <2>1. r \in Runs /\ r.file = run[o].file /\ r.try = run[o].try /\ r.block \in 1..Blocks
      <3>1. Same(o) \in BOOLEAN
        BY <1>1 DEF Same, Runs
      <3> DEFINE s == [run[o] EXCEPT !.block = @ + 1]
      <3>2. run[o].block + 1 \in 1..Blocks /\ run[o].block + 1 \in 0..Blocks
        BY <1>1, <1>4, BlocksAssumption DEF LastBlock
      <3>3. s \in Runs /\ s.file = run[o].file /\ s.try = run[o].try /\ s.block \in 1..Blocks
        BY <1>1, <3>2, BlockType
      <3>4. r = [s EXCEPT !.same = Same(o)]
        OBVIOUS
      <3> QED
        BY <3>1, <3>3, <3>4, SameType
    <2>2. run' \in [Operators -> Runs] /\ \A v \in Operators : RunOK(run'[v])
      BY <1>1, <1>4, <2>1, WriterMoves DEF Writing
    <2> QED
      BY <1>2, <1>4, <2>2 DEF Typed, TypeOK
  <1>5. ASSUME Go(o, At(o, "unlink")), UNCHANGED hurt
        PROVE  Typed'
    <2>1. At(o, "unlink") \in Runs /\ At(o, "unlink").at = "unlink"
      BY <1>1 DEF At, Runs, Places
    <2>2. run' \in [Operators -> Runs] /\ \A v \in Operators : RunOK(run'[v])
      BY <1>5, <2>1, RestTyped DEF Writing
    <2> QED
      BY <1>2, <1>5, <2>2 DEF Typed, TypeOK
  <1> QED
    BY <1>3, <1>4, <1>5, VerifyMoves

(* Removing the list keeps the types.                                      *)
LEMMA FinishTyped ==
  ASSUME Typed, NEW o \in Operators, Finish(o)
  PROVE  Typed'
  <1>1. At(o, "leaving") \in Runs /\ At(o, "leaving").at = "leaving"
    BY DEF At, Typed, TypeOK, Runs, Places
  <1>2. run' \in [Operators -> Runs] /\ \A v \in Operators : RunOK(run'[v])
    BY <1>1, RestTyped DEF Finish, Writing
  <1>3. TypeOK'
    BY <1>2 DEF Finish, Typed, TypeOK, history
  <1> QED
    BY <1>2, <1>3 DEF Typed, RunOK, Finish

(* Going down keeps the types.                                             *)
LEMMA HaltTyped ==
  ASSUME Typed, Halt, cuts' \in 0..MaxCuts
  PROVE  Typed'
  <1>1. run' \in [Operators -> Runs] /\ \A v \in Operators : run'[v] = Idle
    BY IdleType DEF Halt
  <1>2. \A v \in Operators : RunOK(run'[v])
    BY <1>1 DEF RunOK, Idle, Writing, Counting
  <1>3. up' \in BOOLEAN /\ hurt' \in [Partitions -> BOOLEAN]
    BY DEF Halt, Whole, Working, Typed, TypeOK
  <1>4. TypeOK'
    BY <1>1, <1>3 DEF Halt, Typed, TypeOK
  <1> QED
    BY <1>2, <1>4 DEF Typed, RunOK, Halt

(* Every step of the specification keeps the types.                        *)
LEMMA NextTyped ==
  ASSUME Typed, [Next]_vars
  PROVE  Typed'
  <1>1. ASSUME NEW o \in Operators, Step(o)
        PROVE  Typed'
    <2>1. CASE Reboot(o)
      BY <2>1, HaltTyped DEF Reboot, Typed, TypeOK
    <2> QED
      BY <1>1, <2>1, UnpackTyped, QueueTyped, OpenTyped, EraseTyped, CopyTyped,
         VerifyTyped, FinishTyped DEF Step
  <1>2. CASE PowerCut
    <2>1. cuts' \in 0..MaxCuts
      BY <1>2, BoundsAssumption DEF PowerCut, Typed, TypeOK
    <2> QED
      BY <1>2, <2>1, HaltTyped DEF PowerCut
  <1>3. CASE UNCHANGED vars
    BY <1>3 DEF vars, tmp, history, Typed, TypeOK, RunOK
  <1> QED
    BY <1>1, <1>2, <1>3, RequestTyped DEF Next
-----------------------------------------------------------------------------
(* Every step preserves Exclusive, ReadBack and WholeUnlessHurt.           *)

Kept == Exclusive /\ ReadBack /\ WholeUnlessHurt

(* A run that writes or reads back a partition.                            *)
On(v, p) == run[v].at \in Counting /\ Header[run[v].file] = p

(* Working of a run that did not move.                                     *)
LEMMA WorkingStays ==
  ASSUME NEW v, NEW p, run'[v] = run[v]
  PROVE  Working(v, p)' <=> Working(v, p)
  BY DEF Working

(* A run that writes knows its image and its partition.                    *)
LEMMA OnIsKnown ==
  ASSUME Typed, NEW v \in Operators, run[v].at \in Counting
  PROVE  run[v].file \in Images /\ Header[run[v].file] \in Partitions
  BY DEF Typed, RunOK, Counting, Writing

(* A run that writes to a partition is at work on it.                      *)
LEMMA OnIsWorking ==
  ASSUME Typed, NEW v \in Operators, NEW p, On(v, p)
  PROVE  Working(v, p)
  BY OnIsKnown DEF On, Working, Counting

(* A step that leaves the flash alone and ends with run o outside of copy  *)
(* and verify, where what o was at is whole, hurt or still being worked on.*)
LEMMA CalmKeeps ==
  ASSUME Inv, NEW o \in Operators, NEW r, Go(o, r), UNCHANGED flash,
         r.at \notin Counting,
         \A p \in Partitions : hurt[p] => hurt'[p],
         \A p \in Partitions :
           Working(o, p) => Working(o, p)' \/ hurt'[p] \/ Whole(p)
  PROVE  Kept'
  <1>1. run'[o] = r /\ \A v \in Operators : v # o => run'[v] = run[v]
    BY OthersStay DEF Inv, Typed
  <1>2. \A v \in Operators : run'[v].at \in Counting => v # o /\ run'[v] = run[v]
    BY <1>1
  <1>3. Exclusive'
    <2> SUFFICES ASSUME NEW u \in Operators, NEW v \in Operators, u # v,
                        run'[u].at \in Counting, run'[v].at \in Counting,
                        Header[run'[u].file] = Header[run'[v].file]
                 PROVE  hurt'[Header[run'[u].file]]
      BY DEF Exclusive
    <2>1. run'[u] = run[u] /\ run'[v] = run[v]
      BY <1>2
    <2>2. hurt[Header[run[u].file]] /\ Header[run[u].file] \in Partitions
      BY <2>1, OnIsKnown DEF Inv, Exclusive
    <2> QED
      BY <2>1, <2>2
  <1>4. ReadBack'
    <2> SUFFICES ASSUME NEW v \in Operators, run'[v].at = "verify", run'[v].same,
                        ~hurt'[Header[run'[v].file]],
                        NEW b \in 1..Blocks, b < run'[v].block
                 PROVE  flash'[Header[run'[v].file]][b] = run'[v].file
      BY DEF ReadBack
    <2>1. run'[v] = run[v]
      BY <1>2 DEF Counting
    <2>2. Header[run[v].file] \in Partitions
      BY <2>1, OnIsKnown DEF Inv, Counting
    <2> QED
      BY <2>1, <2>2 DEF Inv, ReadBack
  <1>5. WholeUnlessHurt'
    <2> SUFFICES ASSUME NEW p \in Partitions, ~hurt'[p],
                        \A v \in Operators : ~Working(v, p)'
                 PROVE  Whole(p)'
      BY DEF WholeUnlessHurt
    <2>1. Whole(p)' <=> Whole(p)
      BY DEF Whole
    <2>2. \A v \in Operators : v # o => ~Working(v, p)
      BY <1>1, WorkingStays
    <2> QED
      BY <2>1, <2>2 DEF Inv, WholeUnlessHurt
  <1> QED
    BY <1>3, <1>4, <1>5 DEF Kept

(* A step of run o that changes a partition: whoever else writes there has *)
(* hurt it, and o goes on with it or has hurt it.                          *)
LEMMA TouchKeeps ==
  ASSUME Inv, NEW o \in Operators, NEW p \in Partitions, NEW r, Go(o, r),
         \A q \in Partitions : q # p => flash'[q] = flash[q],
         \A q \in Partitions : q # p /\ hurt[q] => hurt'[q],
         \A q \in Partitions : q # p => ~Working(o, q),
         \A v \in Others(o) : On(v, p) => hurt'[p],
         r.at \in Counting => Header[r.file] = p,
         r.at = "verify" => r.block = 1,
         hurt'[p] \/ Working(o, p)'
  PROVE  Kept'
  <1>1. run'[o] = r /\ \A v \in Others(o) : run'[v] = run[v]
    BY OthersStay DEF Inv, Typed, Others
  <1>2. Exclusive'
    <2> SUFFICES ASSUME NEW u \in Operators, NEW v \in Operators, u # v,
                        run'[u].at \in Counting, run'[v].at \in Counting,
                        Header[run'[u].file] = Header[run'[v].file]
                 PROVE  hurt'[Header[run'[u].file]]
      BY DEF Exclusive
    <2>1. CASE Header[run'[u].file] = p
      <3>1. \A w \in Others(o) : run'[w].at \in Counting /\ Header[run'[w].file] = p => hurt'[p]
        BY <1>1 DEF On
      <3>2. u \in Others(o) \/ v \in Others(o)
        BY DEF Others
      <3>3. Header[run'[v].file] = p
        BY <2>1
      <3>4. hurt'[p]
        BY <2>1, <3>1, <3>2, <3>3
      <3> QED
        BY <2>1, <3>4
    <2>2. CASE Header[run'[u].file] # p
      <3>1. u # o /\ v # o
        BY <1>1, <2>2
      <3>2. run'[u] = run[u] /\ run'[v] = run[v]
        BY <1>1, <3>1 DEF Others
      <3>3. hurt[Header[run[u].file]] /\ Header[run[u].file] \in Partitions
        BY <3>2, OnIsKnown DEF Inv, Exclusive
      <3> QED
        BY <2>2, <3>2, <3>3
    <2> QED
      BY <2>1, <2>2
  <1>3. ReadBack'
    <2> SUFFICES ASSUME NEW v \in Operators, run'[v].at = "verify", run'[v].same,
                        ~hurt'[Header[run'[v].file]],
                        NEW b \in 1..Blocks, b < run'[v].block
                 PROVE  flash'[Header[run'[v].file]][b] = run'[v].file
      BY DEF ReadBack
    <2>1. CASE v = o
      BY <1>1, <2>1
    <2>2. CASE v # o
      <3>1. v \in Others(o) /\ run'[v] = run[v]
        BY <1>1, <2>2 DEF Others
      <3>2. Header[run[v].file] \in Partitions /\ Header[run[v].file] # p
        BY <3>1, OnIsKnown DEF Inv, Counting, On
      <3>3. flash[Header[run[v].file]][b] = run[v].file
        BY <3>1, <3>2 DEF Inv, ReadBack
      <3> QED
        BY <3>1, <3>2, <3>3
    <2> QED
      BY <2>1, <2>2
  <1>4. WholeUnlessHurt'
    <2> SUFFICES ASSUME NEW q \in Partitions, ~hurt'[q],
                        \A v \in Operators : ~Working(v, q)'
                 PROVE  Whole(q)'
      BY DEF WholeUnlessHurt
    <2>1. q # p
      OBVIOUS
    <2>2. Whole(q)' <=> Whole(q)
      BY <2>1 DEF Whole
    <2>3. \A v \in Operators : ~Working(v, q)
      BY <1>1, <2>1, WorkingStays DEF Others
    <2> QED
      BY <2>1, <2>2, <2>3 DEF Inv, WholeUnlessHurt
  <1> QED
    BY <1>2, <1>3, <1>4 DEF Kept

(* Requests touch no partition and no run that is at work.                 *)
LEMMA RequestKeeps ==
  ASSUME Inv, NEW o \in Operators, (\E u \in Uploads : SetUpdate(o, u)) \/ SetOnlyUpdate(o)
  PROVE  Kept'
  <1>1. CASE \E u \in Uploads : SetUpdate(o, u)
    BY <1>1 DEF SetUpdate, Inv, Kept, Exclusive, ReadBack, WholeUnlessHurt, Working, Whole
  <1>2. CASE SetOnlyUpdate(o)
    <2>1. At(o, "tar").at = "tar"
      BY SentTo DEF Inv, Typed, Places
    <2>2. \A p \in Partitions : ~Working(o, p)
      BY <1>2 DEF SetOnlyUpdate, Working
    <2> QED
      BY <1>2, <2>1, <2>2, CalmKeeps DEF SetOnlyUpdate, Counting
  <1> QED
    BY <1>1, <1>2

(* Steps of a run between two images.                                      *)
LEMMA BetweenKeeps ==
  ASSUME Inv, NEW o \in Operators,
         Unpack(o) \/ ReadList(o) \/ NextMember(o) \/ Unlink(o) \/ Finish(o)
  PROVE  Kept'
  <1>1. run[o].at \in {"tar", "list", "next", "unlink", "finish"}
    BY DEF Unpack, ReadList, NextMember, Unlink, Finish
  <1>2. \A p \in Partitions : ~Working(o, p)
    BY <1>1 DEF Working
  <1>3. UNCHANGED <<flash, hurt>>
    BY DEF Unpack, ReadList, NextMember, Unlink, Finish, history
  <1>4. PICK r : Go(o, r)
    BY DEF Unpack, ReadList, NextMember, Unlink, Finish
  <1>5. run'[o].at \notin Counting
    <2>1. Typed' /\ run'[o] = r
      BY <1>4, UnpackTyped, QueueTyped, FinishTyped, OthersStay DEF Inv, Typed
    <2>2. CASE Unpack(o)
      BY <2>2, SentTo, OthersStay DEF Unpack, Inv, Typed, Places, Counting
    <2>3. CASE ReadList(o)
      <3>1. run[o] \in Runs /\ None # <<>>
        BY NoneIsNoImage, EmptySeq DEF Inv, Typed, TypeOK
      <3>2. \A place \in {"leaving", "open", "next"} : At(o, place).at = place
        BY SentTo DEF Inv, Typed, Places
      <3>3. CASE list = None
        <4>1. Go(o, At(o, "leaving"))
          BY <2>3, <3>1, <3>3 DEF ReadList
        <4> QED
          BY <3>2, <4>1, OthersStay DEF Inv, Typed, Counting
      <3>4. CASE list # None /\ list = <<>>
        <4>1. Go(o, [At(o, "open") EXCEPT !.direct = TRUE, !.try = 1])
          BY <2>3, <3>4 DEF ReadList
        <4>2. [At(o, "open") EXCEPT !.direct = TRUE, !.try = 1].at = "open"
          BY <3>1, <3>2 DEF At, Runs
        <4> QED
          BY <4>1, <4>2, OthersStay DEF Inv, Typed, Counting
      <3>5. CASE list # None /\ list # <<>>
        <4>1. Go(o, [At(o, "next") EXCEPT !.queue = list])
          BY <2>3, <3>5 DEF ReadList
        <4>2. [At(o, "next") EXCEPT !.queue = list].at = "next"
          BY <3>1, <3>2 DEF At, Runs
        <4> QED
          BY <4>1, <4>2, OthersStay DEF Inv, Typed, Counting
      <3> QED
        BY <3>3, <3>4, <3>5
    <2>4. CASE NextMember(o)
      <3>1. run[o] \in Runs
        BY DEF Inv, Typed, TypeOK
      <3>2. \A place \in {"finish", "open"} : At(o, place).at = place
        BY SentTo DEF Inv, Typed, Places
      <3>3. [At(o, "open") EXCEPT !.file = Head(run[o].queue),
                                  !.queue = Tail(run[o].queue), !.try = 1].at = "open"
        BY <3>1, <3>2 DEF At, Runs
      <3> QED
        BY <2>4, <3>2, <3>3, OthersStay DEF NextMember, Inv, Typed, Counting
    <2>5. CASE Unlink(o)
      <3>1. [Idle EXCEPT !.at = IF run[o].direct THEN "finish" ELSE "next",
                         !.queue = run[o].queue].at \in {"finish", "next"}
        BY DEF Idle
      <3> QED
        BY <2>5, <3>1, OthersStay DEF Unlink, Inv, Typed, Counting
    <2>6. CASE Finish(o)
      BY <2>6, SentTo, OthersStay DEF Finish, Inv, Typed, Places, Counting
    <2> QED
      BY <2>2, <2>3, <2>4, <2>5, <2>6
  <1>6. r.at \notin Counting
    BY <1>4, <1>5, OthersStay DEF Inv, Typed
  <1> QED
    BY <1>2, <1>3, <1>4, <1>6, CalmKeeps

(* A second try that finds or opens another image, or none, has hurt its   *)
(* own.                                                                    *)
LEMMA OpenKeeps ==
  ASSUME Inv, NEW o \in Operators, Open(o) \/ Refuse(o) \/ OpenError(o)
  PROVE  Kept'
  <1>1. run[o] \in Runs
    BY DEF Inv, Typed, TypeOK
  <1>2. CASE Open(o)
    <2> DEFINE r == [At(o, "erase") EXCEPT !.file = Found(o)]
    <2>1. Found(o) \in Images
      BY <1>2, FoundType, AcceptedType DEF Open, Inv, Typed
    <2>2. r.at = "erase" /\ r.file = Found(o) /\ r.try = run[o].try
      <3>1. At(o, "erase") \in Runs /\ At(o, "erase").at = "erase"
            /\ At(o, "erase").try = run[o].try
        BY SentTo DEF Inv, Typed, Places
      <3> QED
        BY <2>1, <3>1, FileType
    <2>3. Go(o, r) /\ UNCHANGED flash
      BY <1>2 DEF Open
    <2> HIDE DEF r
    <2>4. run'[o] = r
      BY <2>3, OthersStay DEF Inv, Typed
    <2>5. ASSUME NEW p \in Partitions, Working(o, p), ~hurt'[p]
          PROVE  Working(o, p)'
      <3>1. Header[Found(o)] = p
        BY <1>2, <2>5 DEF Open
      <3>2. run[o].try = 2
        BY <1>2, <2>5 DEF Open, Working
      <3> QED
        BY <2>1, <2>2, <2>4, <3>1, <3>2 DEF Working
    <2>6. \A p \in Partitions : hurt[p] => hurt'[p]
      BY <1>2 DEF Open
    <2> QED
      BY <2>2, <2>3, <2>5, <2>6, CalmKeeps DEF Counting
  <1>3. CASE Refuse(o)
    <2>1. At(o, "unlink").at = "unlink"
      BY SentTo DEF Inv, Typed, Places
    <2>2. \A p \in Partitions : (hurt[p] => hurt'[p]) /\ (Working(o, p) => hurt'[p])
      BY <1>3 DEF Refuse
    <2> QED
      BY <1>3, <2>1, <2>2, CalmKeeps DEF Refuse, Counting
  <1>4. CASE OpenError(o)
    <2>1. At(o, "unlink").at = "unlink"
      BY SentTo DEF Inv, Typed, Places
    <2>2. \A p \in Partitions : (hurt[p] => hurt'[p]) /\ (Working(o, p) => hurt'[p])
      BY <1>4 DEF OpenError
    <2> QED
      BY <1>4, <2>1, <2>2, CalmKeeps DEF OpenError, Counting
  <1> QED
    BY <1>2, <1>3, <1>4

(* The run of a failed try goes on with its partition or has hurt it.      *)
LEMMA FailGoesOn ==
  ASSUME Typed, NEW o \in Operators, NEW p, run[o].at \in Writing,
         p = Header[run[o].file], Go(o, Failed(o)), run[o].try = 2 => hurt'[p]
  PROVE  /\ run'[o] = Failed(o) /\ Failed(o).at \in {"open", "unlink"}
         /\ hurt'[p] \/ Working(o, p)'
  <1>1. run'[o] = Failed(o)
    BY OthersStay DEF Typed
  <1>2. run[o].file \in Images /\ run[o].try \in 1..2
    BY DEF Typed, RunOK
  <1>3. CASE run[o].try = 1
    BY <1>1, <1>2, <1>3, FailedType DEF Typed, Working
  <1>4. CASE run[o].try # 1
    <2>1. run[o].try = 2
      BY <1>2, <1>4
    <2> QED
      BY <1>1, <2>1, FailedType DEF Typed
  <1> QED
    BY <1>3, <1>4

(* A writing run works on the partition of its image and on no other.      *)
LEMMA WriterWorks ==
  ASSUME Typed, NEW o \in Operators, run[o].at \in Writing
  PROVE  /\ run[o] \in Runs /\ run[o].file \in Images /\ run[o].try \in 1..2
         /\ Header[run[o].file] \in Partitions
         /\ \A q : q # Header[run[o].file] => ~Working(o, q)
  BY DEF Typed, TypeOK, RunOK, Working

(* An erase records who else is at work on the partition.                  *)
LEMMA EraseKeeps ==
  ASSUME Inv, NEW o \in Operators, Erase(o) \/ EraseError(o)
  PROVE  Kept'
  <1>1. run[o].at = "erase"
    BY DEF Erase, EraseError
  <1>2. PICK p \in Partitions : /\ run[o] \in Runs /\ run[o].file \in Images
                                /\ p = Header[run[o].file]
                                /\ \A q : q # p => ~Working(o, q)
    BY <1>1, WriterWorks DEF Inv, Writing
  <1>3. \A q \in Partitions : q # p => flash'[q] = flash[q]
    BY <1>2 DEF Erase, EraseError, Inv, Typed, TypeOK
  <1>4. \A q \in Partitions : q # p /\ hurt[q] => hurt'[q]
    BY <1>2 DEF Erase, EraseError, FailHurts, Inv, Typed, TypeOK
  <1>5. \A v \in Others(o) : On(v, p) => hurt'[p]
    <2>1. \A v \in Others(o) : On(v, p) => Working(v, p)
      BY OnIsWorking DEF Others, Inv
    <2>2. (\E v \in Others(o) : Working(v, p)) => hurt'[p]
      BY <1>2 DEF Erase, EraseError, Inv, Typed, TypeOK
    <2> QED
      BY <2>1, <2>2
  <1>6. CASE Erase(o)
    <2> DEFINE r == [At(o, "copy") EXCEPT !.block = 1]
    <2>1. r.at = "copy" /\ r.file = run[o].file
      <3>1. At(o, "copy") \in Runs /\ At(o, "copy").at = "copy"
            /\ At(o, "copy").file = run[o].file
        BY SentTo DEF Inv, Typed, Places
      <3>2. 1 \in 0..Blocks
        BY BlocksAssumption
      <3> QED
        BY <3>1, <3>2, BlockType
    <2>2. Go(o, r)
      BY <1>6 DEF Erase
    <2> HIDE DEF r
    <2>3. Working(o, p)'
      <3>1. run'[o] = r
        BY <2>2, OthersStay DEF Inv, Typed
      <3> QED
        BY <1>2, <2>1, <3>1 DEF Working
    <2>4. r.at # "verify" /\ Header[r.file] = p
      BY <1>2, <2>1
    <2> QED
      BY <1>2, <1>3, <1>4, <1>5, <2>2, <2>3, <2>4, TouchKeeps
  <1>7. CASE EraseError(o)
    <2>1. Go(o, Failed(o))
      BY <1>7 DEF EraseError
    <2>2. run[o].try = 2 => hurt'[p]
      BY <1>2, <1>7 DEF EraseError, FailHurts
    <2>3. Failed(o).at \in {"open", "unlink"} /\ (hurt'[p] \/ Working(o, p)')
      BY <1>1, <1>2, <2>1, <2>2, FailGoesOn DEF Inv, Writing
    <2>4. Failed(o).at \notin Counting /\ Failed(o).at # "verify"
      BY <2>3 DEF Counting
    <2> QED
      BY <1>2, <1>3, <1>4, <1>5, <2>1, <2>3, <2>4, TouchKeeps
  <1> QED
    BY <1>6, <1>7

(* One write: whoever else is on the partition has hurt it before.         *)
LEMMA CopyKeeps ==
  ASSUME Inv, NEW o \in Operators, Copy(o) \/ ShortWrite(o)
  PROVE  Kept'
  <1>1. run[o].at = "copy"
    BY DEF Copy, ShortWrite
  <1>2. PICK p \in Partitions : /\ run[o] \in Runs /\ run[o].file \in Images
                                /\ p = Header[run[o].file]
                                /\ \A q : q # p => ~Working(o, q)
    BY <1>1, WriterWorks DEF Inv, Writing
  <1>3. \A q \in Partitions : q # p => flash'[q] = flash[q]
    BY <1>2 DEF Copy, ShortWrite, Burn, Inv, Typed, TypeOK
  <1>4. \A v \in Others(o) : On(v, p) => hurt[p]
    BY <1>1, <1>2 DEF Others, On, Inv, Exclusive, Counting
  <1>5. ASSUME NEW r, Go(o, r), r.at \in Counting, r.file = run[o].file,
               r.at = "verify" => r.block = 1, UNCHANGED hurt
        PROVE  Kept'
    <2>1. run'[o] = r
      BY <1>5, OthersStay DEF Inv, Typed
    <2>2. Working(o, p)'
      BY <1>2, <1>5, <2>1 DEF Working, Counting
    <2>3. \A v \in Others(o) : On(v, p) => hurt'[p]
      BY <1>4, <1>5
    <2>4. \A q \in Partitions : q # p /\ hurt[q] => hurt'[q]
      BY <1>5
    <2>5. Header[r.file] = p
      BY <1>2, <1>5
    <2> QED
      BY <1>2, <1>3, <1>5, <2>2, <2>3, <2>4, <2>5, TouchKeeps
  <1>6. CASE Fails(o)
    <2>1. Go(o, Failed(o)) /\ \A q \in Partitions : hurt'[q] = FailHurts(o, q)
      BY <1>6 DEF Fails
    <2>2. run[o].try = 2 => hurt'[p]
      BY <1>2, <2>1 DEF FailHurts
    <2>3. Failed(o).at \in {"open", "unlink"} /\ (hurt'[p] \/ Working(o, p)')
      BY <1>1, <1>2, <2>1, <2>2, FailGoesOn DEF Inv, Writing
    <2>4. Failed(o).at \notin Counting /\ Failed(o).at # "verify"
      BY <2>3 DEF Counting
    <2>5. \A q \in Partitions : hurt[q] => hurt'[q]
      BY <2>1 DEF FailHurts
    <2>6. \A v \in Others(o) : On(v, p) => hurt'[p]
      BY <1>2, <1>4, <2>5
    <2> QED
      BY <1>2, <1>3, <2>1, <2>3, <2>4, <2>5, <2>6, TouchKeeps
  <1>7. ASSUME UNCHANGED hurt, Go(o, [run[o] EXCEPT !.block = @ + 1])
        PROVE  Kept'
    <2> DEFINE r == [run[o] EXCEPT !.block = @ + 1]
    <2>1. r.at = "copy" /\ r.file = run[o].file
      BY <1>1, <1>2 DEF Runs
    <2>2. r.at \in Counting /\ r.at # "verify"
      BY <2>1 DEF Counting
    <2> HIDE DEF r
    <2>3. Go(o, r)
      BY <1>7 DEF r
    <2> QED
      BY <1>5, <1>7, <2>1, <2>2, <2>3
  <1>8. ASSUME UNCHANGED hurt, Go(o, [At(o, "verify") EXCEPT !.block = 1, !.same = TRUE])
        PROVE  Kept'
    <2> DEFINE s == [At(o, "verify") EXCEPT !.block = 1]
               r == [s EXCEPT !.same = TRUE]
    <2>1. s \in Runs /\ s.at = "verify" /\ s.file = run[o].file /\ s.block = 1
      <3>1. At(o, "verify") \in Runs /\ At(o, "verify").at = "verify"
            /\ At(o, "verify").file = run[o].file
        BY SentTo DEF Inv, Typed, Places
      <3>2. 1 \in 0..Blocks
        BY BlocksAssumption
      <3> QED
        BY <3>1, <3>2, BlockType
    <2>2. Go(o, r)
      BY <1>8
    <2>3. r.at = "verify" /\ r.file = run[o].file /\ r.block = 1
      BY <2>1, SameType
    <2> HIDE DEF r
    <2> QED
      BY <1>5, <1>8, <2>2, <2>3 DEF Counting
  <1> QED
    BY <1>6, <1>7, <1>8, CopyMoves DEF ShortWrite, Inv

(* A run that leaves verify without a failure leaves a whole partition.    *)
LEMMA VerifyKeeps ==
  ASSUME Inv, NEW o \in Operators, Verify(o)
  PROVE  Kept'
  <1>1. run[o].at = "verify" /\ UNCHANGED flash
    BY DEF Verify
  <1>2. PICK p \in Partitions : /\ run[o] \in Runs /\ run[o].file \in Images
                                /\ p = Header[run[o].file]
                                /\ run[o].try \in 1..2 /\ run[o].block \in 1..Blocks
                                /\ \A q : q # p => ~Working(o, q)
    BY <1>1, WriterWorks DEF Inv, Typed, RunOK, Writing, Counting
  <1>3. CASE Fails(o)
    <2>1. Go(o, Failed(o)) /\ \A q \in Partitions : hurt'[q] = FailHurts(o, q)
      BY <1>3 DEF Fails
    <2>2. run[o].try = 2 => hurt'[p]
      BY <1>2, <2>1 DEF FailHurts
    <2>3. Failed(o).at \in {"open", "unlink"} /\ (hurt'[p] \/ Working(o, p)')
      BY <1>1, <1>2, <2>1, <2>2, FailGoesOn DEF Inv, Writing
    <2>4. Failed(o).at \notin Counting
      BY <2>3 DEF Counting
    <2>5. \A q \in Partitions : hurt[q] => hurt'[q]
      BY <2>1 DEF FailHurts
    <2>6. \A q \in Partitions : Working(o, q) => Working(o, q)' \/ hurt'[q]
      BY <1>2, <2>3
    <2> QED
      BY <1>1, <2>1, <2>4, <2>5, <2>6, CalmKeeps
  <1>4. ASSUME LastBlock(o), Same(o), Go(o, At(o, "unlink")), UNCHANGED hurt
        PROVE  Kept'
    <2>1. At(o, "unlink").at \notin Counting
      BY SentTo DEF Inv, Typed, Places, Counting
    <2>2. Whole(p) \/ hurt[p]
      <3>1. SUFFICES ASSUME ~hurt[p] PROVE \A b \in 1..Blocks : flash[p][b] = run[o].file
        BY <1>2 DEF Whole
      <3>2. \A b \in 1..Blocks : b < run[o].block => flash[p][b] = run[o].file
        BY <1>1, <1>2, <1>4, <3>1 DEF Inv, ReadBack, Same
      <3>3. flash[p][Blocks] = run[o].file
        BY <1>2, <1>4 DEF Same, LastBlock
      <3>4. \A b \in 1..Blocks : b < Blocks \/ b = Blocks
        BY BlocksAssumption
      <3> QED
        BY <1>4, <3>2, <3>3, <3>4 DEF LastBlock
    <2>3. \A q \in Partitions : Working(o, q) => hurt'[q] \/ Whole(q)
      BY <1>2, <1>4, <2>2
    <2> QED
      BY <1>1, <1>4, <2>1, <2>3, CalmKeeps
  <1>5. ASSUME ~LastBlock(o), UNCHANGED hurt,
               Go(o, [run[o] EXCEPT !.block = @ + 1, !.same = Same(o)])
        PROVE  Kept'
    <2> DEFINE r == [run[o] EXCEPT !.block = @ + 1, !.same = Same(o)]
    <2>1. /\ r.at = "verify" /\ r.file = run[o].file
          /\ r.block = run[o].block + 1 /\ r.same = Same(o)
      BY <1>1, <1>2 DEF Runs
    <2>2. Go(o, r)
      BY <1>5
    <2> HIDE DEF r
    <2>3. run'[o] = r /\ \A v \in Operators : v # o => run'[v] = run[v]
      BY <2>2, OthersStay DEF Inv, Typed
    <2>4. \A v \in Operators : run'[v].at = run[v].at /\ run'[v].file = run[v].file
      BY <1>1, <2>1, <2>3
    <2>5. Exclusive'
      BY <1>5, <2>4 DEF Inv, Exclusive
    <2>6. ReadBack'
      <3> SUFFICES ASSUME NEW v \in Operators, run'[v].at = "verify", run'[v].same,
                          ~hurt[Header[run'[v].file]],
                          NEW b \in 1..Blocks, b < run'[v].block
                   PROVE  flash[Header[run'[v].file]][b] = run'[v].file
        BY <1>1, <1>5 DEF ReadBack
      <3>1. CASE v # o
        BY <2>3, <3>1 DEF Inv, ReadBack
      <3>2. CASE v = o
        <4>1. Same(o) /\ b < run[o].block + 1 /\ ~hurt[p]
          BY <1>2, <1>5, <2>1, <2>3, <3>2
        <4>2. CASE b < run[o].block
          BY <1>1, <2>4, <3>2, <4>1, <4>2 DEF Inv, ReadBack, Same
        <4>3. CASE b = run[o].block
          BY <2>4, <3>2, <4>1, <4>3 DEF Same
        <4> QED
          BY <1>2, <4>1, <4>2, <4>3
      <3> QED
        BY <3>1, <3>2
    <2>7. WholeUnlessHurt'
      <3>1. \A v \in Operators, q \in Partitions : Working(v, q) => Working(v, q)'
        BY <1>1, <2>1, <2>3 DEF Working
      <3>2. \A q \in Partitions : Whole(q) => Whole(q)'
        BY <1>1 DEF Whole
      <3> QED
        BY <1>5, <3>1, <3>2 DEF Inv, WholeUnlessHurt
    <2> QED
      BY <2>5, <2>6, <2>7 DEF Kept
  <1> QED
    BY <1>3, <1>4, <1>5, VerifyMoves

(* Going down hurts what is being worked on.                               *)
LEMMA HaltKeeps ==
  ASSUME Inv, Halt
  PROVE  Kept'
  <1>1. \A v \in Operators : run'[v].at = "idle"
    BY DEF Halt, Idle
  <1>2. Exclusive' /\ ReadBack'
    BY <1>1 DEF Exclusive, ReadBack, Counting
  <1>3. \A p \in Partitions : Whole(p)' \/ hurt'[p]
    BY DEF Halt, Inv, WholeUnlessHurt, Whole
  <1> QED
    BY <1>2, <1>3 DEF WholeUnlessHurt, Kept

(* Every step of the specification keeps the three.                        *)
LEMMA NextKeeps ==
  ASSUME Inv, [Next]_vars
  PROVE  Kept'
  <1>1. ASSUME NEW o \in Operators, Step(o)
        PROVE  Kept'
    <2>1. CASE Reboot(o)
      BY <2>1, HaltKeeps DEF Reboot
    <2> QED
      BY <1>1, <2>1, BetweenKeeps, OpenKeeps, EraseKeeps, CopyKeeps, VerifyKeeps DEF Step
  <1>2. CASE PowerCut
    BY <1>2, HaltKeeps DEF PowerCut
  <1>3. CASE UNCHANGED vars
    BY <1>3 DEF vars, history, Inv, Kept, Exclusive, ReadBack, WholeUnlessHurt, Working, Whole
  <1> QED
    BY <1>1, <1>2, <1>3, RequestKeeps DEF Next
-----------------------------------------------------------------------------
(* Inv is inductive.                                                       *)
LEMMA Inductive == Spec => []Inv
  <1>1. Init => Inv
    BY InitKeeps
  <1>2. Inv /\ [Next]_vars => Inv'
    BY NextTyped, NextKeeps DEF Inv, Kept
  <1> QED
    BY <1>1, <1>2, PTL DEF Spec

(* Every file, block, run and counter keeps to the values meant for it:    *)
(* what a run takes from the list is an image, and the block it is at is   *)
(* one of the partition.                                                   *)
THEOREM TypeCorrect == Spec => []TypeOK
  <1>1. Inv => TypeOK
    BY DEF Inv, Typed
  <1> QED
    BY <1>1, Inductive, PTL

(* However many browsers upgrade at once, with whatever archives, failing  *)
(* calls and losses of power: a partition is broken without a run at work  *)
(* on it only where the second try failed, could not open its file or      *)
(* found it gone, two runs were at it at once, or the device went down in  *)
(* the middle.                                                             *)
THEOREM WholeUnlessHurtHolds == Spec => []WholeUnlessHurt
  <1>1. Inv => WholeUnlessHurt
    BY DEF Inv
  <1> QED
    BY <1>1, Inductive, PTL
-----------------------------------------------------------------------------
(* The update.  What it is to leave in a partition is the last acceptable   *)
(* member for it; behind a member that is replaced by a later one it does   *)
(* not matter.                                                             *)
For(i, p) == Accepted(i) /\ Header[i] = p

LastFor(c, n, p, k) ==
  /\ k \in 1 .. n /\ For(c[k], p)
  /\ \A m \in k + 1 .. n : ~For(c[m], p)

(* The first n members of c have been dealt with, as far as p goes.         *)
Installed(c, n, p) ==
  \A k \in 1 .. n :
    LastFor(c, n, p, k) =>
      hurt[p] \/ p \in missed \/ \A b \in 1..Blocks : flash[p][b] = c[k]

(* Members a run has taken from its list.                                  *)
Taken(c, r) == Len(c) - Len(r.queue)

Listed == {"next", "open", "erase", "copy", "verify", "unlink"}
Sought == {"open", "erase", "copy", "verify"}

(* The list of a run is what is left of the archive, and the members left   *)
(* are where they have been unpacked.                                      *)
ListOK(c, u, r) ==
  /\ Len(r.queue) <= Len(c)
  /\ \A k \in 1 .. Len(r.queue) : r.queue[k] = c[Taken(c, r) + k]
  /\ IF r.direct THEN r.queue = <<>> /\ (u \notin Tars \/ c = <<>>)
     ELSE u \in Tars /\ \A k \in Taken(c, r) + 1 .. Len(c) : c[k] \in files

(* The member the run is at, from the first try on ...                     *)
Trying(o) == run[o].at = "open" /\ run[o].try = 1
Changing(o) == run[o].at \in Writing \/ (run[o].at = "open" /\ run[o].try # 1)

MemberOK(c, o) ==
  LET r == run[o]
      n == Taken(c, r)
  IN /\ r.at \in Sought => Found(o) = IF n = 0 THEN None ELSE c[n]
     /\ r.at \in Sought \cup {"unlink"} /\ ~r.direct => n > 0 /\ r.file = c[n]
     /\ Changing(o) => n > 0 /\ r.file = c[n] /\ Accepted(r.file)

(* ... and what has become of it and of those before it.                    *)
EarlierOK(c, o) ==
  LET r == run[o]
      n == Taken(c, r)
  IN \A p \in Partitions :
       /\ Trying(o) => Installed(c, n - 1, p)
       /\ Changing(o) /\ p # Header[r.file] => Installed(c, n - 1, p)
       /\ r.at \in {"next", "unlink"} => Installed(c, n, p)
       /\ r.at \in {"finish", "leaving"} => Installed(c, Len(c), p)

(* The run of an operator nobody has interfered with.                      *)
Loyal(o, u) ==
  LET c == Contents[u]
      r == run[o]
  IN /\ \A v \in Operators : v # o => run[v].at = "idle"
     /\ u \in Uploads /\ image = u
     /\ r.at = "tar" => list = <<>> /\ o \in writers
     /\ r.at = "list" =>
          /\ list = IF u \in Tars THEN c ELSE <<>>
          /\ u \in Tars => \A k \in DOMAIN c : c[k] \in files
     /\ r.at \in Listed => ListOK(c, u, r)
     /\ r.at = "next" => ~r.direct
     /\ MemberOK(c, o)
     /\ EarlierOK(c, o)

(* A run starts without a list.                                            *)
StartsEmpty ==
  \A o \in Operators :
    run[o].at \in {"idle", "tar", "list"} => run[o].queue = <<>> /\ ~run[o].direct

UpdateInv ==
  /\ Inv /\ StartsEmpty
  /\ \A o \in Operators : alone[o] => Loyal(o, want[o])
-----------------------------------------------------------------------------
(* Lemmas about the members of an archive.                                  *)

(* A change of one field leaves the list of a run and its kind alone.       *)
LEMMA ListStays ==
  ASSUME NEW r \in Runs, NEW x
  PROVE  /\ [r EXCEPT !.at = x].queue = r.queue /\ [r EXCEPT !.at = x].direct = r.direct
         /\ [r EXCEPT !.try = x].queue = r.queue /\ [r EXCEPT !.try = x].direct = r.direct
         /\ [r EXCEPT !.block = x].queue = r.queue /\ [r EXCEPT !.block = x].direct = r.direct
         /\ [r EXCEPT !.same = x].queue = r.queue /\ [r EXCEPT !.same = x].direct = r.direct
         /\ [r EXCEPT !.file = x].queue = r.queue /\ [r EXCEPT !.file = x].direct = r.direct
  BY DEF Runs

(* The run a failed try leads to has the same list.                         *)
LEMMA FailedList ==
  ASSUME TypeOK, NEW o \in Operators
  PROVE  Failed(o).queue = run[o].queue /\ Failed(o).direct = run[o].direct
  <1>1. run[o] \in Runs
    BY DEF TypeOK
  <1>2. At(o, "open") \in Runs
    BY SentTo DEF Places
  <1>3. [At(o, "open") EXCEPT !.try = 2].queue = run[o].queue
        /\ [At(o, "open") EXCEPT !.try = 2].direct = run[o].direct
    BY <1>1, <1>2, ListStays DEF At
  <1>4. At(o, "unlink").queue = run[o].queue /\ At(o, "unlink").direct = run[o].direct
    BY <1>1, ListStays DEF At
  <1> QED
    BY <1>3, <1>4 DEF Failed

(* What an upload holds is a list of images, and a run has taken some of    *)
(* them.                                                                    *)
LEMMA TakenType ==
  ASSUME TypeOK, NEW u \in Uploads, NEW o \in Operators, ListOK(Contents[u], u, run[o])
  PROVE  /\ Contents[u] \in Seq(Images) /\ run[o].queue \in Seq(Images)
         /\ Len(Contents[u]) \in Nat /\ Len(run[o].queue) \in Nat
         /\ Taken(Contents[u], run[o]) \in 0 .. Len(Contents[u])
  <1>1. Contents[u] \in Seq(Images)
    BY UploadAssumption
  <1>2. run[o].queue \in Seq(Images)
    BY DEF TypeOK, Runs
  <1>3. Len(Contents[u]) \in Nat /\ Len(run[o].queue) \in Nat
    BY <1>1, <1>2, LenProperties
  <1>4. Len(run[o].queue) <= Len(Contents[u])
    BY DEF ListOK
  <1>5. Taken(Contents[u], run[o]) \in 0 .. Len(Contents[u])
    <2>1. PICK m \in Nat, q \in Nat : m = Len(Contents[u]) /\ q = Len(run[o].queue)
      BY <1>3
    <2>2. Taken(Contents[u], run[o]) = m - q /\ q <= m
      BY <1>4, <2>1 DEF Taken
    <2>3. m - q \in 0 .. m
      BY <2>2
    <2> QED
      BY <2>1, <2>2, <2>3
  <1> QED
    BY <1>1, <1>2, <1>3, <1>5

(* One member more: it is the last one for its own partition, and the       *)
(* others are where they were.                                              *)
LEMMA LastOfMore ==
  ASSUME NEW c, NEW n \in Nat, n > 0, NEW p, NEW k, LastFor(c, n, p, k)
  PROVE  /\ k = n \/ LastFor(c, n - 1, p, k)
         /\ For(c[n], p) => k = n
         /\ For(c[k], p) /\ k \in 1 .. n
  BY DEF LastFor

(* A partition the next member is not for.                                  *)
LEMMA OneMore ==
  ASSUME NEW c, NEW n \in Nat, NEW p, Installed(c, n - 1, p), n > 0 => ~For(c[n], p)
  PROVE  Installed(c, n, p)
  <1> SUFFICES ASSUME NEW k \in 1 .. n, LastFor(c, n, p, k)
               PROVE  hurt[p] \/ p \in missed \/ \A b \in 1..Blocks : flash[p][b] = c[k]
    BY DEF Installed
  <1>1. n > 0 /\ For(c[k], p) /\ k \in 1 .. n - 1 \cup {n}
    BY LastOfMore
  <1>2. k # n
    BY <1>1
  <1>3. LastFor(c, n - 1, p, k)
    BY <1>1, <1>2, LastOfMore
  <1> QED
    BY <1>1, <1>2, <1>3 DEF Installed

(* The partition the next member is for.                                    *)
LEMMA ThisOne ==
  ASSUME NEW c, NEW n \in Nat, n > 0, NEW p, For(c[n], p),
         hurt[p] \/ p \in missed \/ \A b \in 1..Blocks : flash[p][b] = c[n]
  PROVE  Installed(c, n, p)
  <1> SUFFICES ASSUME NEW k \in 1 .. n, LastFor(c, n, p, k) PROVE k = n
    BY DEF Installed
  <1> QED
    BY LastOfMore

(* What is installed in a partition stays there while it is left alone.     *)
LEMMA StaysInstalled ==
  ASSUME NEW c, NEW n, NEW p, Installed(c, n, p), flash'[p] = flash[p], hurt[p] => hurt'[p],
         p \in missed => p \in missed'
  PROVE  Installed(c, n, p)'
  BY DEF Installed, LastFor, For, Accepted
-----------------------------------------------------------------------------
(* The steps of the run nobody interferes with.                             *)

(* What the run of an operator nobody has interfered with is to keep.       *)
LEMMA LoyalMoves ==
  ASSUME TypeOK, NEW u \in Uploads, NEW o \in Operators, Loyal(o, u),
         NEW r, Go(o, r), UNCHANGED image,
         r.at \notin {"tar", "list"}, r.at = "next" => ~r.direct,
         r.at \in Listed => ListOK(Contents[u], u, run[o])',
         MemberOK(Contents[u], o)', EarlierOK(Contents[u], o)'
  PROVE  Loyal(o, u)'
  <1>1. run'[o] = r /\ \A v \in Operators : v # o => run'[v] = run[v]
    BY OthersStay
  <1>2. \A v \in Operators : v # o => run'[v].at = "idle"
    BY <1>1 DEF Loyal
  <1> QED
    BY <1>1, <1>2 DEF Loyal

(* The steps from the first look at a member to its removal.                *)
LEMMA GoesOn ==
  ASSUME Inv, NEW u \in Uploads, NEW o \in Operators, Loyal(o, u), run[o].at \in Sought,
         NEW r, Go(o, r), r.queue = run[o].queue, r.direct = run[o].direct,
         UNCHANGED <<image, files>>,
         NEW n \in Nat, n = Taken(Contents[u], run[o]),
         r.at \in Sought \cup {"unlink"}, r.at = "open" => r.try # 1,
         r.at # "unlink" =>
           /\ n > 0 /\ r.file = Contents[u][n] /\ Accepted(Contents[u][n])
           /\ \A p \in Partitions :
                p # Header[Contents[u][n]] => Installed(Contents[u], n - 1, p)',
         r.at = "unlink" => /\ ~r.direct => n > 0 /\ r.file = Contents[u][n]
                            /\ \A p \in Partitions : Installed(Contents[u], n, p)'
  PROVE  Loyal(o, u)'
  <1>1. run'[o] = r /\ \A v \in Operators : v # o => run'[v] = run[v]
    BY OthersStay DEF Inv, Typed
  <1>2. Taken(Contents[u], r) = n
    BY DEF Taken
  <1>3. ListOK(Contents[u], u, run[o])
    BY DEF Loyal, Sought, Listed
  <1>4. ListOK(Contents[u], u, run[o])'
    BY <1>1, <1>3 DEF ListOK, Taken
  <1>5. MemberOK(Contents[u], o)'
    <2>1. Found(o) = IF n = 0 THEN None ELSE Contents[u][n]
      BY DEF Loyal, MemberOK
    <2>2. ~run[o].direct => n > 0 /\ run[o].file = Contents[u][n]
      BY DEF Loyal, MemberOK
    <2>3. r.at # "unlink" => Found(o)' = Found(o)
      BY <1>1, <2>2 DEF Found
    <2>4. r.at \in Sought => Found(o)' = IF n = 0 THEN None ELSE Contents[u][n]
      BY <2>1, <2>3 DEF Sought
    <2>5. r.at \in Sought \cup {"unlink"} /\ ~r.direct => n > 0 /\ r.file = Contents[u][n]
      OBVIOUS
    <2>6. Changing(o)' => n > 0 /\ r.file = Contents[u][n] /\ Accepted(r.file)
      BY <1>1 DEF Changing, Writing
    <2> QED
      BY <1>1, <1>2, <2>4, <2>5, <2>6 DEF MemberOK, Accepted
  <1>6. EarlierOK(Contents[u], o)'
    <2> SUFFICES ASSUME NEW p \in Partitions
                 PROVE  /\ Trying(o)' => Installed(Contents[u], n - 1, p)'
                        /\ Changing(o)' /\ p # Header[r.file]
                             => Installed(Contents[u], n - 1, p)'
                        /\ r.at \in {"next", "unlink"} => Installed(Contents[u], n, p)'
                        /\ r.at \notin {"finish", "leaving"}
      BY <1>1, <1>2 DEF EarlierOK
    <2> QED
      BY <1>1 DEF Trying, Changing, Writing, Sought
  <1> QED
    BY <1>1, <1>4, <1>5, <1>6, LoyalMoves DEF Inv, Typed, Sought

(* A run that writes knows which member it is at.                           *)
LEMMA WriterIsAt ==
  ASSUME Inv, NEW u \in Uploads, NEW o \in Operators, Loyal(o, u), run[o].at \in Writing
  PROVE  \E n \in Nat :
           /\ n > 0 /\ n = Taken(Contents[u], run[o]) /\ run[o].file = Contents[u][n]
           /\ Accepted(Contents[u][n])
           /\ \A p \in Partitions :
                p # Header[Contents[u][n]] => Installed(Contents[u], n - 1, p)
  <1>1. ListOK(Contents[u], u, run[o])
    BY DEF Loyal, Writing, Listed
  <1>2. PICK n \in Nat : n = Taken(Contents[u], run[o])
    BY <1>1, TakenType DEF Inv, Typed
  <1>3. Changing(o)
    BY DEF Changing
  <1>4. n > 0 /\ run[o].file = Contents[u][n] /\ Accepted(run[o].file)
    BY <1>2, <1>3 DEF Loyal, MemberOK
  <1>5. \A p \in Partitions : p # Header[Contents[u][n]] => Installed(Contents[u], n - 1, p)
    BY <1>2, <1>3, <1>4 DEF Loyal, EarlierOK
  <1> QED
    BY <1>2, <1>4, <1>5

(* It goes on with that member and disturbs only its partition ...          *)
LEMMA WriterGoesOn ==
  ASSUME Inv, NEW u \in Uploads, NEW o \in Operators, Loyal(o, u), run[o].at \in Writing,
         NEW r, Go(o, r), r.queue = run[o].queue, r.direct = run[o].direct,
         r.file = run[o].file, UNCHANGED <<image, files>>,
         r.at \in Writing \cup {"open"}, r.at = "open" => r.try # 1,
         \A q \in Partitions : q # Header[run[o].file] =>
                                 /\ flash'[q] = flash[q] /\ (hurt[q] => hurt'[q])
                                 /\ q \in missed => q \in missed'
  PROVE  Loyal(o, u)'
  <1>1. PICK n \in Nat :
           /\ n > 0 /\ n = Taken(Contents[u], run[o]) /\ run[o].file = Contents[u][n]
           /\ Accepted(Contents[u][n])
           /\ \A p \in Partitions :
                p # Header[Contents[u][n]] => Installed(Contents[u], n - 1, p)
    BY WriterIsAt
  <1>2. \A p \in Partitions :
          p # Header[Contents[u][n]] => Installed(Contents[u], n - 1, p)'
    BY <1>1, StaysInstalled
  <1>3. run[o].at \in Sought /\ r.at \in Sought /\ r.at # "unlink"
    BY DEF Sought, Writing
  <1> QED
    BY <1>1, <1>2, <1>3, GoesOn

(* ... until it has installed it, or hurt the partition.                    *)
LEMMA WriterLeaves ==
  ASSUME Inv, NEW u \in Uploads, NEW o \in Operators, Loyal(o, u), run[o].at \in Writing,
         NEW r, Go(o, r), r.queue = run[o].queue, r.direct = run[o].direct,
         r.file = run[o].file, UNCHANGED <<image, files>>, r.at = "unlink",
         \A q \in Partitions : q # Header[run[o].file] =>
                                 /\ flash'[q] = flash[q] /\ (hurt[q] => hurt'[q])
                                 /\ q \in missed => q \in missed',
         \/ hurt'[Header[run[o].file]]
         \/ \A b \in 1..Blocks : flash'[Header[run[o].file]][b] = run[o].file
  PROVE  Loyal(o, u)'
  <1>1. PICK n \in Nat :
           /\ n > 0 /\ n = Taken(Contents[u], run[o]) /\ run[o].file = Contents[u][n]
           /\ Accepted(Contents[u][n])
           /\ \A p \in Partitions :
                p # Header[Contents[u][n]] => Installed(Contents[u], n - 1, p)
    BY WriterIsAt
  <1>2. ASSUME NEW p \in Partitions, p # Header[Contents[u][n]]
        PROVE  Installed(Contents[u], n, p)'
    <2>1. Installed(Contents[u], n, p)
      BY <1>1, <1>2, OneMore DEF For
    <2> QED
      BY <1>1, <1>2, <2>1, StaysInstalled
  <1>3. ASSUME NEW p \in Partitions, p = Header[Contents[u][n]]
        PROVE  Installed(Contents[u], n, p)'
    <2>1. For(Contents[u][n], p)
      BY <1>1, <1>3 DEF For
    <2>2. hurt'[p] \/ p \in missed' \/ \A b \in 1..Blocks : flash'[p][b] = Contents[u][n]
      BY <1>1, <1>3
    <2>3. \A k \in 1 .. n : LastFor(Contents[u], n, p, k) => k = n
      BY <1>1, <2>1, LastOfMore
    <2> QED
      BY <2>2, <2>3 DEF Installed, LastFor, For, Accepted
  <1>4. run[o].at \in Sought /\ r.at \in Sought \cup {"unlink"} /\ r.at # "open"
    BY DEF Sought, Writing
  <1>5. \A p \in Partitions : Installed(Contents[u], n, p)'
    BY <1>2, <1>3
  <1> QED
    BY <1>1, <1>4, <1>5, GoesOn

(* So does a failed try.                                                    *)
LEMMA FailLoyal ==
  ASSUME Inv, NEW u \in Uploads, NEW o \in Operators, Loyal(o, u), run[o].at \in Writing,
         Go(o, Failed(o)), UNCHANGED <<image, files>>,
         run[o].try = 2 => hurt'[Header[run[o].file]],
         \A q \in Partitions : q # Header[run[o].file] =>
                                 /\ flash'[q] = flash[q] /\ (hurt[q] => hurt'[q])
                                 /\ q \in missed => q \in missed'
  PROVE  Loyal(o, u)'
  <1>1. PICK r : r = Failed(o)
    OBVIOUS
  <1>2. Go(o, r) /\ r.queue = run[o].queue /\ r.direct = run[o].direct /\ r.file = run[o].file
    BY <1>1, FailedList, FailedType DEF Inv, Typed
  <1>3. run[o].try \in 1..2
    BY WriterWorks DEF Inv
  <1>4. CASE run[o].try = 1
    <2>1. r.at = "open" /\ r.try = 2
      BY <1>1, <1>4, FailedType DEF Inv, Typed
    <2> QED
      BY <1>2, <2>1, WriterGoesOn
  <1>5. CASE run[o].try = 2
    <2>1. r.at = "unlink"
      BY <1>1, <1>5, FailedType DEF Inv, Typed
    <2> QED
      BY <1>2, <1>5, <2>1, WriterLeaves
  <1> QED
    BY <1>3, <1>4, <1>5

(* An erase disturbs only the partition of the member.                      *)
LEMMA EraseLoyal ==
  ASSUME Inv, NEW u \in Uploads, NEW o \in Operators, Loyal(o, u), Erase(o) \/ EraseError(o)
  PROVE  Loyal(o, u)'
  <1>1. run[o].at = "erase" /\ run[o].at \in Writing /\ UNCHANGED <<image, files>>
    BY DEF Erase, EraseError, Writing, tmp
  <1>2. PICK p \in Partitions : p = Header[run[o].file] /\ run[o] \in Runs
    BY <1>1, WriterWorks DEF Inv
  <1>3. \A q \in Partitions : q # p => flash'[q] = flash[q]
    BY <1>2 DEF Erase, EraseError, Inv, Typed, TypeOK
  <1>4. \A q \in Partitions : q # p /\ hurt[q] => hurt'[q]
    BY <1>2 DEF Erase, EraseError, FailHurts, Inv, Typed, TypeOK
  <1>4a. \A q \in Partitions : q # p => (q \in missed => q \in missed')
    BY <1>2 DEF Erase, EraseError
  <1>5. CASE Erase(o)
    <2>1. PICK r : r = [At(o, "copy") EXCEPT !.block = 1]
      OBVIOUS
    <2>2. At(o, "copy") \in Runs /\ At(o, "copy").at = "copy"
          /\ At(o, "copy").file = run[o].file
      BY SentTo DEF Inv, Typed, Places
    <2>3. 1 \in 0..Blocks
      BY BlocksAssumption
    <2>4. r.at = "copy" /\ r.file = run[o].file
      BY <2>1, <2>2, <2>3, BlockType
    <2>5. At(o, "copy").queue = run[o].queue /\ At(o, "copy").direct = run[o].direct
      BY <1>2, ListStays DEF At
    <2>6. r.queue = run[o].queue /\ r.direct = run[o].direct
      BY <2>1, <2>2, <2>5, ListStays
    <2>7. Go(o, r)
      BY <1>5, <2>1 DEF Erase
    <2>8. r.at \in Writing
      BY <2>4 DEF Writing
    <2> QED
      BY <1>1, <1>2, <1>3, <1>4, <1>4a, <2>4, <2>6, <2>7, <2>8, WriterGoesOn
  <1>6. CASE EraseError(o)
    <2>1. run[o].try = 2 => hurt'[p]
      BY <1>2, <1>6 DEF EraseError, FailHurts
    <2>2. Go(o, Failed(o))
      BY <1>6 DEF EraseError
    <2> QED
      BY <1>1, <1>2, <1>3, <1>4, <1>4a, <2>1, <2>2, FailLoyal
  <1> QED
    BY <1>5, <1>6

(* So does a write,                                                         *)
LEMMA CopyLoyal ==
  ASSUME Inv, NEW u \in Uploads, NEW o \in Operators, Loyal(o, u), Copy(o) \/ ShortWrite(o)
  PROVE  Loyal(o, u)'
  <1>1. run[o].at = "copy" /\ run[o].at \in Writing /\ UNCHANGED <<image, files, missed>>
    BY DEF Copy, ShortWrite, Writing, tmp
  <1>2. PICK p \in Partitions : p = Header[run[o].file] /\ run[o] \in Runs
    BY <1>1, WriterWorks DEF Inv
  <1>3. \A q \in Partitions : q # p => flash'[q] = flash[q]
    BY <1>2 DEF Copy, ShortWrite, Burn, Inv, Typed, TypeOK
  <1>4. CASE Fails(o)
    <2>1. Go(o, Failed(o)) /\ \A q \in Partitions : hurt'[q] = FailHurts(o, q)
      BY <1>4 DEF Fails
    <2>2. run[o].try = 2 => hurt'[p]
      BY <1>2, <2>1 DEF FailHurts
    <2>3. \A q \in Partitions : hurt[q] => hurt'[q]
      BY <2>1 DEF FailHurts
    <2> QED
      BY <1>1, <1>2, <1>3, <2>1, <2>2, <2>3, FailLoyal
  <1>5. ASSUME UNCHANGED hurt, Go(o, [run[o] EXCEPT !.block = @ + 1])
        PROVE  Loyal(o, u)'
    <2>1. PICK r : r = [run[o] EXCEPT !.block = @ + 1]
      OBVIOUS
    <2>2. r.at = "copy" /\ r.file = run[o].file
      BY <1>1, <1>2, <2>1 DEF Runs
    <2>3. r.queue = run[o].queue /\ r.direct = run[o].direct
      BY <1>2, <2>1, ListStays
    <2>4. r.at \in Writing
      BY <2>2 DEF Writing
    <2>5. Go(o, r)
      BY <1>5, <2>1
    <2> QED
      BY <1>1, <1>2, <1>3, <1>5, <2>2, <2>3, <2>4, <2>5, WriterGoesOn
  <1>6. ASSUME UNCHANGED hurt, Go(o, [At(o, "verify") EXCEPT !.block = 1, !.same = TRUE])
        PROVE  Loyal(o, u)'
    <2>1. PICK s : s = [At(o, "verify") EXCEPT !.block = 1]
      OBVIOUS
    <2>2. PICK r : r = [s EXCEPT !.same = TRUE]
      OBVIOUS
    <2>3. At(o, "verify") \in Runs /\ At(o, "verify").at = "verify"
          /\ At(o, "verify").file = run[o].file
      BY SentTo DEF Inv, Typed, Places
    <2>4. 1 \in 0..Blocks
      BY BlocksAssumption
    <2>5. s \in Runs /\ s.at = "verify" /\ s.file = run[o].file
      BY <2>1, <2>3, <2>4, BlockType
    <2>6. r.at = "verify" /\ r.file = run[o].file
      BY <2>2, <2>5, SameType
    <2>7. At(o, "verify").queue = run[o].queue /\ At(o, "verify").direct = run[o].direct
      BY <1>2, ListStays DEF At
    <2>8. r.queue = run[o].queue /\ r.direct = run[o].direct
      BY <2>1, <2>2, <2>3, <2>5, <2>7, ListStays
    <2>9. r.at \in Writing
      BY <2>6 DEF Writing
    <2>10. Go(o, r)
      BY <1>6, <2>1, <2>2
    <2> QED
      BY <1>1, <1>2, <1>3, <1>6, <2>6, <2>8, <2>9, <2>10, WriterGoesOn
  <1> QED
    BY <1>4, <1>5, <1>6, CopyMoves DEF ShortWrite, Inv

(* and reading back leaves the member in every block, or fails.             *)
LEMMA VerifyLoyal ==
  ASSUME Inv, NEW u \in Uploads, NEW o \in Operators, Loyal(o, u), Verify(o)
  PROVE  Loyal(o, u)'
  <1>1. run[o].at = "verify" /\ run[o].at \in Writing /\ UNCHANGED <<image, files, flash, missed>>
    BY DEF Verify, Writing, tmp
  <1>2. PICK p \in Partitions : /\ p = Header[run[o].file] /\ run[o] \in Runs
                                /\ run[o].block \in 1..Blocks
    BY <1>1, WriterWorks DEF Inv, Typed, RunOK, Counting
  <1>3. CASE Fails(o)
    <2>1. Go(o, Failed(o)) /\ \A q \in Partitions : hurt'[q] = FailHurts(o, q)
      BY <1>3 DEF Fails
    <2>2. run[o].try = 2 => hurt'[p]
      BY <1>2, <2>1 DEF FailHurts
    <2>3. \A q \in Partitions : hurt[q] => hurt'[q]
      BY <2>1 DEF FailHurts
    <2> QED
      BY <1>1, <1>2, <2>1, <2>2, <2>3, FailLoyal
  <1>4. ASSUME LastBlock(o), Same(o), Go(o, At(o, "unlink")), UNCHANGED hurt
        PROVE  Loyal(o, u)'
    <2>1. PICK r : r = At(o, "unlink")
      OBVIOUS
    <2>2. Go(o, r) /\ r.at = "unlink" /\ r.file = run[o].file
      BY <1>4, <2>1, SentTo DEF Inv, Typed, Places
    <2>3. r.queue = run[o].queue /\ r.direct = run[o].direct
      BY <1>2, <2>1, ListStays DEF At
    <2>4. hurt[p] \/ \A b \in 1..Blocks : flash[p][b] = run[o].file
      <3>1. SUFFICES ASSUME ~hurt[p] PROVE \A b \in 1..Blocks : flash[p][b] = run[o].file
        OBVIOUS
      <3>2. \A b \in 1..Blocks : b < run[o].block => flash[p][b] = run[o].file
        BY <1>1, <1>2, <1>4, <3>1 DEF Inv, ReadBack, Same
      <3>3. flash[p][Blocks] = run[o].file
        BY <1>2, <1>4 DEF Same, LastBlock
      <3>4. \A b \in 1..Blocks : b < Blocks \/ b = Blocks
        BY BlocksAssumption
      <3> QED
        BY <1>4, <3>2, <3>3, <3>4 DEF LastBlock
    <2> QED
      BY <1>1, <1>2, <1>4, <2>2, <2>3, <2>4, WriterLeaves
  <1>5. ASSUME UNCHANGED hurt, Go(o, [run[o] EXCEPT !.block = @ + 1, !.same = Same(o)])
        PROVE  Loyal(o, u)'
    <2>1. PICK r : r = [run[o] EXCEPT !.block = @ + 1, !.same = Same(o)]
      OBVIOUS
    <2>2. /\ r.at = "verify" /\ r.file = run[o].file
          /\ r.queue = run[o].queue /\ r.direct = run[o].direct
      BY <1>1, <1>2, <2>1 DEF Runs
    <2>3. r.at \in Writing
      BY <2>2 DEF Writing
    <2>4. Go(o, r)
      BY <1>5, <2>1
    <2> QED
      BY <1>1, <1>2, <1>5, <2>2, <2>3, <2>4, WriterGoesOn
  <1> QED
    BY <1>3, <1>4, <1>5, VerifyMoves

(* The member a run has looked up is the one it is at.                      *)
LEMMA SoughtIsAt ==
  ASSUME Inv, NEW u \in Uploads, NEW o \in Operators, Loyal(o, u), run[o].at = "open"
  PROVE  \E n \in Nat :
           /\ n = Taken(Contents[u], run[o])
           /\ Found(o) = IF n = 0 THEN None ELSE Contents[u][n]
           /\ ~run[o].direct => n > 0 /\ run[o].file = Contents[u][n]
           /\ run[o].try # 1 => n > 0 /\ Accepted(Contents[u][n])
           /\ \A p \in Partitions :
                run[o].try = 1 \/ p # Header[Contents[u][n]] => Installed(Contents[u], n - 1, p)
  <1>1. ListOK(Contents[u], u, run[o])
    BY DEF Loyal, Listed
  <1>2. PICK n \in Nat : n = Taken(Contents[u], run[o])
    BY <1>1, TakenType DEF Inv, Typed
  <1>3. MemberOK(Contents[u], o) /\ EarlierOK(Contents[u], o)
    BY DEF Loyal
  <1>4. Found(o) = IF n = 0 THEN None ELSE Contents[u][n]
    BY <1>2, <1>3 DEF MemberOK, Sought
  <1>5. ~run[o].direct => n > 0 /\ run[o].file = Contents[u][n]
    BY <1>2, <1>3 DEF MemberOK, Sought
  <1>6. run[o].try # 1 => n > 0 /\ run[o].file = Contents[u][n] /\ Accepted(run[o].file)
    BY <1>2, <1>3 DEF MemberOK, Changing
  <1>7. \A p \in Partitions :
          run[o].try = 1 \/ p # Header[Contents[u][n]] => Installed(Contents[u], n - 1, p)
    BY <1>2, <1>3, <1>6 DEF EarlierOK, Trying, Changing
  <1> QED
    BY <1>2, <1>4, <1>5, <1>6, <1>7

(* A member that is accepted is opened with everything before it installed, *)
(* one that is refused changes nothing, one that cannot be opened misses    *)
(* its partition.                                                           *)
LEMMA OpenLoyal ==
  ASSUME Inv, NEW u \in Uploads, NEW o \in Operators, Loyal(o, u),
         Open(o) \/ Refuse(o) \/ OpenError(o)
  PROVE  Loyal(o, u)'
  <1>1. /\ run[o].at = "open" /\ run[o].at \in Sought /\ run[o] \in Runs
        /\ UNCHANGED <<image, files, flash>>
    BY DEF Open, Refuse, OpenError, Sought, tmp, Inv, Typed, TypeOK
  <1>2. PICK n \in Nat :
           /\ n = Taken(Contents[u], run[o])
           /\ Found(o) = IF n = 0 THEN None ELSE Contents[u][n]
           /\ ~run[o].direct => n > 0 /\ run[o].file = Contents[u][n]
           /\ run[o].try # 1 => n > 0 /\ Accepted(Contents[u][n])
           /\ \A p \in Partitions :
                run[o].try = 1 \/ p # Header[Contents[u][n]] => Installed(Contents[u], n - 1, p)
    BY <1>1, SoughtIsAt
  <1>3. \A p \in Partitions : (hurt[p] => hurt'[p]) /\ (p \in missed => p \in missed')
    BY DEF Open, Refuse, OpenError
  <1>4. CASE Open(o)
    <2>1. Accepted(Found(o)) /\ Go(o, [At(o, "erase") EXCEPT !.file = Found(o)])
      BY <1>4 DEF Open
    <2>2. n > 0 /\ Accepted(Contents[u][n]) /\ Found(o) = Contents[u][n]
      BY <1>2, <2>1 DEF Accepted
    <2>3. Found(o) \in Images
      BY <2>1, FoundType, AcceptedType DEF Inv, Typed
    <2>4. PICK r : r = [At(o, "erase") EXCEPT !.file = Found(o)]
      OBVIOUS
    <2>5. At(o, "erase") \in Runs /\ At(o, "erase").at = "erase"
      BY SentTo DEF Inv, Typed, Places
    <2>6. r.at = "erase" /\ r.file = Contents[u][n]
      BY <2>2, <2>3, <2>4, <2>5, FileType
    <2>7. At(o, "erase").queue = run[o].queue /\ At(o, "erase").direct = run[o].direct
      BY <1>1, ListStays DEF At
    <2>8. r.queue = run[o].queue /\ r.direct = run[o].direct
      BY <2>4, <2>5, <2>7, ListStays
    <2>9. \A p \in Partitions :
            p # Header[Contents[u][n]] => Installed(Contents[u], n - 1, p)'
      BY <1>1, <1>2, <1>3, StaysInstalled
    <2>10. r.at \in Sought \cup {"unlink"} /\ r.at # "open" /\ r.at # "unlink"
      BY <2>6 DEF Sought
    <2>11. Go(o, r)
      BY <2>1, <2>4
    <2> QED
      BY <1>1, <1>2, <2>2, <2>6, <2>8, <2>9, <2>10, <2>11, GoesOn
  <1>5. CASE Refuse(o)
    <2>1. ~Accepted(Found(o)) /\ Go(o, At(o, "unlink"))
      BY <1>5 DEF Refuse
    <2>2. n > 0 => ~Accepted(Contents[u][n])
      BY <1>2, <2>1
    <2>3. PICK r : r = At(o, "unlink")
      OBVIOUS
    <2>4. r.at = "unlink" /\ r.file = run[o].file
      BY <2>3, SentTo DEF Inv, Typed, Places
    <2>5. r.queue = run[o].queue /\ r.direct = run[o].direct
      BY <1>1, <2>3, ListStays DEF At
    <2>6. run[o].try = 1
      BY <1>2, <2>2
    <2>7. \A p \in Partitions : Installed(Contents[u], n, p)
      BY <1>2, <2>2, <2>6, OneMore DEF For
    <2>8. \A p \in Partitions : Installed(Contents[u], n, p)'
      BY <1>1, <1>3, <2>7, StaysInstalled
    <2>9. r.at \in Sought \cup {"unlink"} /\ r.at # "open"
      BY <2>4
    <2>10. Go(o, r) /\ (~r.direct => n > 0 /\ r.file = Contents[u][n])
      BY <1>2, <2>1, <2>3, <2>4, <2>5
    <2> QED
      BY <1>1, <1>2, <2>4, <2>5, <2>8, <2>9, <2>10, GoesOn
  <1>6. CASE OpenError(o)
    <2>1. Accepted(Found(o)) /\ Go(o, At(o, "unlink"))
      BY <1>6 DEF OpenError
    <2>2. n > 0 /\ Accepted(Contents[u][n]) /\ Found(o) = Contents[u][n]
      BY <1>2, <2>1 DEF Accepted
    <2>3. PICK r : r = At(o, "unlink")
      OBVIOUS
    <2>4. r.at = "unlink" /\ r.file = run[o].file
      BY <2>3, SentTo DEF Inv, Typed, Places
    <2>5. r.queue = run[o].queue /\ r.direct = run[o].direct
      BY <1>1, <2>3, ListStays DEF At
    <2>6. ASSUME NEW p \in Partitions
          PROVE  Installed(Contents[u], n, p)'
      <3>1. CASE p = Header[Contents[u][n]]
        <4>1. p \in missed'
          BY <1>6, <2>2, <3>1 DEF OpenError
        <4> QED
          BY <4>1 DEF Installed
      <3>2. CASE p # Header[Contents[u][n]]
        <4>1. Installed(Contents[u], n, p)
          BY <1>2, <3>2, OneMore DEF For
        <4> QED
          BY <1>1, <1>3, <4>1, StaysInstalled
      <3> QED
        BY <3>1, <3>2
    <2>7. r.at \in Sought \cup {"unlink"} /\ r.at # "open"
      BY <2>4
    <2>8. Go(o, r) /\ (~r.direct => n > 0 /\ r.file = Contents[u][n])
      BY <1>2, <2>1, <2>3, <2>4, <2>5
    <2> QED
      BY <1>1, <1>2, <2>4, <2>5, <2>6, <2>7, <2>8, GoesOn
  <1> QED
    BY <1>4, <1>5, <1>6

(* The next member is the next of the archive, and is where it has been     *)
(* unpacked; behind the last one everything has been dealt with.            *)
LEMMA NextLoyal ==
  ASSUME Inv, NEW u \in Uploads, NEW o \in Operators, Loyal(o, u), NextMember(o)
  PROVE  Loyal(o, u)'
  <1>1. /\ run[o].at = "next" /\ ~run[o].direct /\ run[o] \in Runs
        /\ UNCHANGED <<image, files, flash, hurt, missed>>
    BY DEF NextMember, Loyal, tmp, history, Inv, Typed, TypeOK
  <1>2. ListOK(Contents[u], u, run[o])
    BY <1>1 DEF Loyal, Listed
  <1>3. PICK n \in Nat : n = Taken(Contents[u], run[o])
    BY <1>2, TakenType DEF Inv, Typed
  <1>4. PICK m \in Nat, l \in Nat, q \in Seq(Images) :
          m = Len(Contents[u]) /\ q = run[o].queue /\ l = Len(q) /\ n = m - l
    BY <1>2, <1>3, TakenType DEF Inv, Typed, Taken
  <1>5. \A p \in Partitions : Installed(Contents[u], n, p)
    BY <1>1, <1>3 DEF Loyal, EarlierOK
  <1>6. \A p \in Partitions : Installed(Contents[u], n, p)'
    BY <1>1, <1>5, StaysInstalled
  <1>7. CASE q = <<>>
    <2>1. PICK r : r = At(o, "finish")
      OBVIOUS
    <2>2. Go(o, r)
      BY <1>4, <1>7, <2>1 DEF NextMember
    <2>3. r.at = "finish"
      BY <2>1, SentTo DEF Inv, Typed, Places
    <2>4. run'[o] = r
      BY <2>2, OthersStay DEF Inv, Typed
    <2>5. n = Len(Contents[u])
      BY <1>4, <1>7, EmptySeq
    <2>6. EarlierOK(Contents[u], o)'
      BY <1>6, <2>3, <2>4, <2>5 DEF EarlierOK, Trying, Changing, Writing
    <2>7. MemberOK(Contents[u], o)'
      BY <2>3, <2>4 DEF MemberOK, Sought, Changing, Writing
    <2>8. r.at \notin Listed /\ r.at \notin {"tar", "list"} /\ r.at # "next"
      BY <2>3 DEF Listed
    <2> QED
      BY <1>1, <2>2, <2>6, <2>7, <2>8, LoyalMoves DEF Inv, Typed
  <1>8. CASE q # <<>>
    <2>1. /\ Head(q) \in Images /\ Tail(q) \in Seq(Images) /\ Len(Tail(q)) = Len(q) - 1
          /\ \A i \in 1 .. Len(Tail(q)) : Tail(q)[i] = q[i + 1]
      BY <1>8, HeadTailProperties
    <2>2. l > 0 /\ Head(q) = q[1] /\ Len(Tail(q)) = l - 1
      BY <1>4, <1>8, <2>1, EmptySeq
    <2>2a. n = m - l /\ l \in 1 .. m /\ m \in Nat
      BY <1>3, <1>4, <2>2
    <2>3. PICK s : s = [At(o, "open") EXCEPT !.file = Head(q)]
      OBVIOUS
    <2>4. PICK t : t = [s EXCEPT !.queue = Tail(q)]
      OBVIOUS
    <2>5. PICK r : r = [t EXCEPT !.try = 1]
      OBVIOUS
    <2>6. /\ At(o, "open") \in Runs /\ At(o, "open").at = "open"
          /\ At(o, "open").direct = run[o].direct
      <3>1. At(o, "open") \in Runs /\ At(o, "open").at = "open"
        BY SentTo DEF Inv, Typed, Places
      <3>2. At(o, "open").direct = run[o].direct
        BY <1>1, ListStays DEF At
      <3> QED
        BY <3>1, <3>2
    <2>7. s \in Runs /\ s.at = "open" /\ s.file = Head(q) /\ s.direct = run[o].direct
      BY <2>1, <2>3, <2>6, FileType, ListStays
    <2>8. t \in Runs /\ t.at = "open" /\ t.file = Head(q) /\ t.direct = run[o].direct /\ t.queue = Tail(q)
      BY <2>1, <2>4, <2>7 DEF Runs
    <2>9. /\ r.at = "open" /\ r.file = Head(q) /\ r.try = 1
          /\ r.direct = run[o].direct /\ r.queue = Tail(q)
      BY <2>5, <2>8, TryType, ListStays
    <2>10. Go(o, r)
      BY <1>4, <1>8, <2>3, <2>4, <2>5 DEF NextMember
    <2>11. run'[o] = r
      BY <2>10, OthersStay DEF Inv, Typed
    <2>12. Taken(Contents[u], r) = n + 1
      <3>1. Taken(Contents[u], r) = m - (l - 1)
        BY <1>4, <2>2, <2>9 DEF Taken
      <3> QED
        BY <1>4, <3>1
    <2>13. /\ \A k \in 1 .. l : q[k] = Contents[u][n + k]
           /\ u \in Tars /\ \A k \in n + 1 .. m : Contents[u][k] \in files
      BY <1>1, <1>2, <1>3, <1>4 DEF ListOK
    <2>14. Head(q) = Contents[u][n + 1] /\ Head(q) \in files
      <3>1. 1 \in 1 .. l /\ n + 1 \in n + 1 .. m
        BY <2>2a
      <3> QED
        BY <2>2, <2>13, <3>1
    <2>15. ListOK(Contents[u], u, run[o])'
      <3>1. Len(Tail(q)) <= Len(Contents[u])
        BY <1>3, <1>4, <2>2
      <3>2. \A k \in 1 .. Len(Tail(q)) : Tail(q)[k] = Contents[u][(n + 1) + k]
        <4> SUFFICES ASSUME NEW k \in 1 .. l - 1
                     PROVE  Tail(q)[k] = Contents[u][(n + 1) + k]
          BY <2>2
        <4>1. k \in Int /\ k + 1 \in 1 .. l /\ n + (k + 1) = (n + 1) + k
          BY <2>2a
        <4>2. Tail(q)[k] = q[k + 1]
          BY <2>1, <2>2
        <4>3. q[k + 1] = Contents[u][n + (k + 1)]
          BY <2>13, <4>1
        <4> QED
          BY <4>1, <4>2, <4>3
      <3>3. \A k \in (n + 1) + 1 .. Len(Contents[u]) : Contents[u][k] \in files'
        <4> SUFFICES ASSUME NEW k \in (n + 1) + 1 .. m PROVE Contents[u][k] \in files'
          BY <1>4
        <4>1. k \in n + 1 .. m
          BY <1>4
        <4> QED
          BY <1>1, <2>13, <4>1
      <3> QED
        BY <1>1, <2>9, <2>11, <2>12, <2>13, <3>1, <3>2, <3>3 DEF ListOK
    <2>16. Found(o)' = Contents[u][n + 1]
      BY <1>1, <2>9, <2>11, <2>14 DEF Found
    <2>17. ~Changing(o)'
      BY <2>9, <2>11 DEF Changing, Writing
    <2>18. MemberOK(Contents[u], o)'
      BY <2>9, <2>11, <2>12, <2>14, <2>16, <2>17 DEF MemberOK
    <2>19. EarlierOK(Contents[u], o)'
      BY <1>6, <2>9, <2>11, <2>12, <2>17 DEF EarlierOK
    <2>20. r.at \notin {"tar", "list"} /\ r.at # "next"
      BY <2>9
    <2> QED
      BY <1>1, <2>10, <2>15, <2>18, <2>19, <2>20, LoyalMoves DEF Inv, Typed
  <1> QED
    BY <1>7, <1>8

(* A member that is removed is not one of those yet to come, for an archive *)
(* that names none twice.                                                   *)
LEMMA UnlinkLoyal ==
  ASSUME Inv, NEW u \in Uploads, IsInjective(Contents[u]),
         NEW o \in Operators, Loyal(o, u), Unlink(o)
  PROVE  Loyal(o, u)'
  <1>1. run[o].at = "unlink" /\ run[o] \in Runs /\ UNCHANGED <<image, flash, hurt, missed>>
    BY DEF Unlink, history, Inv, Typed, TypeOK
  <1>2. ListOK(Contents[u], u, run[o])
    BY <1>1 DEF Loyal, Listed
  <1>3. PICK n \in Nat : n = Taken(Contents[u], run[o])
    BY <1>2, TakenType DEF Inv, Typed
  <1>4. PICK m \in Nat, q \in Seq(Images) :
          m = Len(Contents[u]) /\ q = run[o].queue /\ n = m - Len(q) /\ n \in 0 .. m
    BY <1>2, <1>3, TakenType DEF Inv, Typed, Taken
  <1>5. \A p \in Partitions : Installed(Contents[u], n, p)
    BY <1>1, <1>3 DEF Loyal, EarlierOK
  <1>6. \A p \in Partitions : Installed(Contents[u], n, p)'
    BY <1>1, <1>5, StaysInstalled
  <1>7. PICK r : r = [Idle EXCEPT !.at = IF run[o].direct THEN "finish" ELSE "next",
                                  !.queue = run[o].queue]
    OBVIOUS
  <1>8. Go(o, r)
    BY <1>7 DEF Unlink
  <1>9. /\ r.at = IF run[o].direct THEN "finish" ELSE "next"
        /\ r.queue = q /\ r.direct = FALSE
    BY <1>4, <1>7 DEF Idle
  <1>10. run'[o] = r
    BY <1>8, OthersStay DEF Inv, Typed
  <1>11. MemberOK(Contents[u], o)'
    BY <1>9, <1>10 DEF MemberOK, Sought, Changing, Writing
  <1>12. r.at \notin {"tar", "list"}
    BY <1>9
  <1>13. Taken(Contents[u], r) = n
    BY <1>3, <1>4, <1>9 DEF Taken
  <1>14. CASE run[o].direct
    <2>1. q = <<>> /\ r.at = "finish"
      BY <1>2, <1>4, <1>9, <1>14 DEF ListOK
    <2>2. n = Len(Contents[u])
      BY <1>4, <2>1, EmptySeq
    <2>3. EarlierOK(Contents[u], o)'
      BY <1>6, <1>10, <2>1, <2>2 DEF EarlierOK, Trying, Changing, Writing
    <2>4. r.at \notin Listed
      BY <2>1 DEF Listed
    <2> QED
      BY <1>1, <1>8, <1>9, <1>11, <1>12, <2>1, <2>3, <2>4, LoyalMoves DEF Inv, Typed
  <1>15. CASE ~run[o].direct
    <2>1. r.at = "next"
      BY <1>9, <1>15
    <2>2. EarlierOK(Contents[u], o)'
      BY <1>6, <1>10, <1>13, <2>1 DEF EarlierOK, Trying, Changing, Writing
    <2>3. n > 0 /\ run[o].file = Contents[u][n]
      BY <1>1, <1>3, <1>15 DEF Loyal, MemberOK
    <2>4. files' = files \ {Contents[u][n]}
      BY <1>15, <2>3 DEF Unlink
    <2>5. /\ Len(q) <= Len(Contents[u]) /\ \A k \in 1 .. Len(q) : q[k] = Contents[u][n + k]
          /\ u \in Tars /\ \A k \in n + 1 .. Len(Contents[u]) : Contents[u][k] \in files
      BY <1>2, <1>3, <1>4, <1>15 DEF ListOK
    <2>6. DOMAIN Contents[u] = 1 .. m
      BY <1>4, UploadAssumption, LenProperties
    <2>7. ASSUME NEW k \in n + 1 .. Len(Contents[u])
          PROVE  Contents[u][k] \in files'
      <3>a. k \in n + 1 .. m /\ n \in 0 .. m /\ m \in Nat
        BY <1>4
      <3>1. k \in 1 .. m /\ n \in 1 .. m /\ k # n
        BY <3>a, <2>3
      <3>2. Contents[u][k] # Contents[u][n]
        BY <2>6, <3>1 DEF IsInjective
      <3> QED
        BY <2>4, <2>5, <3>2
    <2>8. ListOK(Contents[u], u, run[o])'
      BY <1>9, <1>10, <1>13, <2>5, <2>7 DEF ListOK
    <2> QED
      BY <1>1, <1>8, <1>9, <1>11, <1>12, <2>2, <2>8, LoyalMoves DEF Inv, Typed
  <1> QED
    BY <1>14, <1>15

(* Leaving changes nothing that has been installed.                         *)
LEMMA FinishLoyal ==
  ASSUME Inv, NEW u \in Uploads, NEW o \in Operators, Loyal(o, u), Finish(o)
  PROVE  Loyal(o, u)'
  <1>1. run[o].at = "finish" /\ UNCHANGED <<image, flash, hurt, missed>>
    BY DEF Finish, history
  <1>2. PICK r : r = At(o, "leaving")
    OBVIOUS
  <1>3. Go(o, r) /\ r.at = "leaving"
    BY <1>2, SentTo DEF Finish, Inv, Typed, Places
  <1>4. run'[o] = r
    BY <1>3, OthersStay DEF Inv, Typed
  <1>5. \A p \in Partitions : Installed(Contents[u], Len(Contents[u]), p)
    BY <1>1 DEF Loyal, EarlierOK
  <1>6. \A p \in Partitions : Installed(Contents[u], Len(Contents[u]), p)'
    BY <1>1, <1>5, StaysInstalled
  <1>7. EarlierOK(Contents[u], o)'
    BY <1>3, <1>4, <1>6 DEF EarlierOK, Trying, Changing, Writing
  <1>8. MemberOK(Contents[u], o)'
    BY <1>3, <1>4 DEF MemberOK, Sought, Changing, Writing
  <1>9. r.at \notin Listed /\ r.at \notin {"tar", "list"} /\ r.at # "next"
    BY <1>3 DEF Listed
  <1> QED
    BY <1>1, <1>3, <1>7, <1>8, <1>9, LoyalMoves DEF Inv, Typed

(* tar lists the members of the archive, and nothing besides: the list is   *)
(* empty when it starts.                                                    *)
LEMMA UnpackLoyal ==
  ASSUME Inv, NEW u \in Uploads, NEW o \in Operators, Loyal(o, u), Unpack(o)
  PROVE  Loyal(o, u)'
  <1> DEFINE names == IF u \in Tars THEN Contents[u] ELSE <<>>
  <1>1. run[o].at = "tar" /\ image = u /\ list = <<>> /\ o \in writers
    BY DEF Unpack, Loyal
  <1>2. names \in Seq(Images) /\ Contents[u] \in Seq(Images)
    BY UploadAssumption, EmptySeq
  <1>3. Over(names, <<>>) = names
    <2>1. Len(names) \in Nat /\ Len(<<>>) = 0
      BY <1>2, LenProperties, EmptySeq
    <2>2. Len(names) + 1 \in Int /\ 0 < Len(names) + 1
      BY <2>1
    <2>3. SubSeq(<<>>, Len(names) + 1, 0) = <<>>
      BY <2>2, SubSeqEmpty
    <2>4. names \o <<>> = names
      BY <1>2, ConcatEmptySeq
    <2> QED
      BY <2>1, <2>3, <2>4 DEF Over
  <1>4. list' = names
    BY <1>1, <1>3 DEF Unpack
  <1>5. u \in Tars => \A k \in DOMAIN Contents[u] : Contents[u][k] \in files'
    BY <1>1 DEF Unpack
  <1>6. PICK r : r = At(o, "list")
    OBVIOUS
  <1>7. Go(o, r) /\ r.at = "list"
    BY <1>6, SentTo DEF Unpack, Inv, Typed, Places
  <1>8. run'[o] = r /\ \A v \in Operators : v # o => run'[v] = run[v]
    BY <1>7, OthersStay DEF Inv, Typed
  <1>9. EarlierOK(Contents[u], o)'
    BY <1>7, <1>8 DEF EarlierOK, Trying, Changing, Writing
  <1>10. MemberOK(Contents[u], o)'
    BY <1>7, <1>8 DEF MemberOK, Sought, Changing, Writing
  <1>11. image' = u /\ \A v \in Operators : v # o => run'[v].at = "idle"
    BY <1>1, <1>8 DEF Unpack, Loyal
  <1> QED
    BY <1>4, <1>5, <1>7, <1>8, <1>9, <1>10, <1>11 DEF Loyal, Listed

(* The list is that of the archive; what is no archive is the image itself. *)
LEMMA ReadLoyal ==
  ASSUME Inv, StartsEmpty, NEW u \in Uploads, NEW o \in Operators, Loyal(o, u), ReadList(o)
  PROVE  Loyal(o, u)'
  <1>1. /\ run[o].at = "list" /\ run[o] \in Runs /\ image = u
        /\ run[o].queue = <<>> /\ run[o].direct = FALSE
        /\ UNCHANGED <<image, files, flash, hurt, missed>>
    BY DEF ReadList, tmp, history, Loyal, StartsEmpty, Inv, Typed, TypeOK
  <1>2. PICK c \in Seq(Images) : c = Contents[u] /\ (u \notin Tars => Len(c) = 1)
    BY UploadAssumption
  <1>3. /\ list = IF u \in Tars THEN c ELSE <<>>
        /\ u \in Tars => \A k \in DOMAIN c : c[k] \in files
    BY <1>1, <1>2 DEF Loyal
  <1>4. list # None
    BY <1>2, <1>3, EmptySeq, NoneIsNoImage
  <1>5. PICK m \in Nat : m = Len(c) /\ DOMAIN c = 1 .. m
    BY <1>2, LenProperties
  <1>6. CASE list = <<>>
    <2>1. PICK s : s = [At(o, "open") EXCEPT !.direct = TRUE]
      OBVIOUS
    <2>2. PICK r : r = [s EXCEPT !.try = 1]
      OBVIOUS
    <2>3. At(o, "open") \in Runs /\ At(o, "open").at = "open"
      BY SentTo DEF Inv, Typed, Places
    <2>4. At(o, "open").queue = <<>>
      BY <1>1, ListStays DEF At
    <2>5. s \in Runs /\ s.at = "open" /\ s.direct = TRUE /\ s.queue = <<>>
      BY <2>1, <2>3, <2>4 DEF Runs
    <2>6. r.at = "open" /\ r.try = 1 /\ r.direct = TRUE /\ r.queue = <<>>
      BY <2>2, <2>5, TryType, ListStays
    <2>7. Go(o, r)
      BY <1>4, <1>6, <2>1, <2>2 DEF ReadList
    <2>8. run'[o] = r
      BY <2>7, OthersStay DEF Inv, Typed
    <2>9. u \notin Tars \/ c = <<>>
      BY <1>3, <1>6
    <2>10. Taken(c, r) = m
      BY <1>5, <2>6, EmptySeq DEF Taken
    <2>11. m \in {0, 1}
      BY <1>2, <1>5, <2>9, EmptySeq
    <2>12. ListOK(c, u, run[o])'
      BY <1>5, <2>6, <2>8, <2>9, <2>11, EmptySeq DEF ListOK
    <2>13. Found(o)' = IF m = 0 THEN None ELSE c[m]
      <3>1. Found(o)' = IF u \notin Tars THEN c[1] ELSE None
        BY <1>1, <1>2, <2>6, <2>8 DEF Found
      <3>2. u \notin Tars => m = 1
        BY <1>2, <1>5
      <3>3. u \in Tars => m = 0
        BY <1>5, <2>9, EmptySeq
      <3> QED
        BY <3>1, <3>2, <3>3
    <2>14. ~Changing(o)'
      BY <2>6, <2>8 DEF Changing, Writing
    <2>15. MemberOK(c, o)'
      BY <2>6, <2>8, <2>10, <2>13, <2>14 DEF MemberOK
    <2>16. \A p : Installed(c, m - 1, p)'
      BY <2>11 DEF Installed
    <2>17. EarlierOK(c, o)'
      BY <2>6, <2>8, <2>10, <2>14, <2>16 DEF EarlierOK
    <2>18. r.at \notin {"tar", "list"} /\ r.at # "next"
      BY <2>6
    <2> QED
      BY <1>1, <1>2, <2>7, <2>12, <2>15, <2>17, <2>18, LoyalMoves DEF Inv, Typed
  <1>7. CASE list # <<>>
    <2>1. PICK r : r = [At(o, "next") EXCEPT !.queue = list]
      OBVIOUS
    <2>2. At(o, "next") \in Runs /\ At(o, "next").at = "next"
      BY SentTo DEF Inv, Typed, Places
    <2>3. At(o, "next").direct = run[o].direct
      BY <1>1, ListStays DEF At
    <2>4. r.at = "next" /\ r.direct = FALSE /\ r.queue = list
      BY <1>1, <2>1, <2>2, <2>3 DEF Runs
    <2>5. Go(o, r)
      BY <1>4, <1>7, <2>1 DEF ReadList
    <2>6. run'[o] = r
      BY <2>5, OthersStay DEF Inv, Typed
    <2>7. u \in Tars /\ list = c
      BY <1>3, <1>7
    <2>8. Taken(c, r) = 0
      BY <1>5, <2>4, <2>7 DEF Taken
    <2>9. \A k \in 1 .. m : c[0 + k] = c[k]
      OBVIOUS
    <2>10. ListOK(c, u, run[o])'
      <3>1. \A k \in 1 .. m : c[k] = c[0 + k] /\ c[k] \in files'
        BY <1>1, <1>3, <1>5, <2>7, <2>9
      <3>2. \A k \in 0 + 1 .. m : k \in 1 .. m
        OBVIOUS
      <3> QED
        BY <1>5, <2>4, <2>6, <2>7, <2>8, <3>1, <3>2 DEF ListOK
    <2>11. MemberOK(c, o)'
      BY <2>4, <2>6 DEF MemberOK, Sought, Changing, Writing
    <2>12. \A p : Installed(c, 0, p)'
      BY DEF Installed
    <2>13. EarlierOK(c, o)'
      BY <2>4, <2>6, <2>8, <2>12 DEF EarlierOK, Trying, Changing, Writing
    <2>14. r.at \notin {"tar", "list"}
      BY <2>4
    <2> QED
      BY <1>1, <1>2, <2>4, <2>5, <2>10, <2>11, <2>13, <2>14, LoyalMoves DEF Inv, Typed
  <1> QED
    BY <1>6, <1>7
-----------------------------------------------------------------------------
(* The invariant of the update.                                             *)

(* A run that has read its list does not read it again.                     *)
LEMMA ListIsRead ==
  ASSUME Typed, NEW o \in Operators, Step(o), ~Unpack(o), ~Reboot(o)
  PROVE  run'[o].at \notin {"idle", "tar", "list"}
  <1>1. run \in [Operators -> Runs] /\ run[o] \in Runs
    BY DEF Typed, TypeOK
  <1>2. \A r : Go(o, r) => run'[o] = r
    BY OthersStay DEF Typed
  <1>3. \A place \in Places : At(o, place) \in Runs /\ At(o, place).at = place
    BY SentTo DEF Typed
  <1>4. {"leaving", "open", "next", "finish", "erase", "unlink", "copy", "verify"} \subseteq Places
    BY DEF Places
  <1>5. ASSUME Go(o, Failed(o))
        PROVE  run'[o].at \notin {"idle", "tar", "list"}
    BY <1>2, <1>5, FailedType DEF Typed
  <1>6. CASE ReadList(o)
    <2>1. /\ At(o, "leaving").at = "leaving"
          /\ [At(o, "open") EXCEPT !.direct = TRUE, !.try = 1].at = "open"
          /\ [At(o, "next") EXCEPT !.queue = list].at = "next"
      BY <1>1 DEF At, Runs
    <2>2. \/ Go(o, At(o, "leaving"))
          \/ Go(o, [At(o, "open") EXCEPT !.direct = TRUE, !.try = 1])
          \/ Go(o, [At(o, "next") EXCEPT !.queue = list])
      BY <1>6 DEF ReadList
    <2> QED
      BY <1>2, <2>1, <2>2
  <1>7. CASE NextMember(o)
    <2> DEFINE r == [At(o, "open") EXCEPT !.file = Head(run[o].queue),
                                          !.queue = Tail(run[o].queue), !.try = 1]
    <2>1. At(o, "finish").at = "finish" /\ r.at = "open"
      BY <1>1 DEF At, Runs
    <2>2. Go(o, At(o, "finish")) \/ Go(o, r)
      BY <1>7 DEF NextMember
    <2> QED
      BY <1>2, <2>1, <2>2
  <1>8. CASE Open(o)
    <2>1. [At(o, "erase") EXCEPT !.file = Found(o)].at = "erase"
      BY <1>1 DEF At, Runs
    <2> QED
      BY <1>2, <1>8, <2>1 DEF Open
  <1>9. CASE Erase(o)
    <2>1. [At(o, "copy") EXCEPT !.block = 1].at = "copy"
      BY <1>1 DEF At, Runs
    <2> QED
      BY <1>2, <1>9, <2>1 DEF Erase
  <1>10. CASE Copy(o)
    <2>1. /\ [run[o] EXCEPT !.block = @ + 1].at = "copy"
          /\ [At(o, "verify") EXCEPT !.block = 1, !.same = TRUE].at = "verify"
      BY <1>1, <1>10 DEF At, Runs, Copy
    <2> QED
      BY <1>2, <1>5, <1>10, <2>1, CopyMoves DEF Fails
  <1>11. CASE Verify(o)
    <2>1. [run[o] EXCEPT !.block = @ + 1, !.same = Same(o)].at = "verify"
          /\ At(o, "unlink").at = "unlink"
      BY <1>1, <1>11 DEF At, Runs, Verify
    <2> QED
      BY <1>2, <1>5, <1>11, <2>1, VerifyMoves DEF Fails
  <1>12. CASE Unlink(o)
    <2>1. [Idle EXCEPT !.at = IF run[o].direct THEN "finish" ELSE "next",
                       !.queue = run[o].queue].at \in {"finish", "next"}
      BY DEF Idle
    <2> QED
      BY <1>2, <1>12, <2>1 DEF Unlink
  <1>13. CASE Refuse(o) \/ OpenError(o) \/ Finish(o)
    BY <1>2, <1>3, <1>4, <1>13 DEF Refuse, OpenError, Finish
  <1>14. CASE EraseError(o) \/ ShortWrite(o)
    BY <1>5, <1>14 DEF EraseError, ShortWrite, Fails
  <1> QED
    BY <1>6, <1>7, <1>8, <1>9, <1>10, <1>11, <1>12, <1>13, <1>14 DEF Step

(* A run starts without a list, whatever has been done before.              *)
LEMMA StartKeeps ==
  ASSUME Inv, StartsEmpty, [Next]_vars
  PROVE  StartsEmpty'
  <1>1. ASSUME NEW o \in Operators, Step(o), ~Reboot(o)
        PROVE  StartsEmpty'
    <2>1. \A v \in Operators : v # o => run'[v] = run[v]
      BY <1>1, OthersStay DEF Step, Inv, Typed, Unpack, ReadList, NextMember, Open, Refuse,
         OpenError, Erase, EraseError, Copy, ShortWrite, Verify, Unlink, Finish, Fails
    <2>2. CASE ~Unpack(o)
      <3>1. run'[o].at \notin {"idle", "tar", "list"}
        BY <1>1, <2>2, ListIsRead DEF Inv
      <3> QED
        BY <2>1, <3>1 DEF StartsEmpty
    <2>3. CASE Unpack(o)
      <3>1. run'[o] = At(o, "list") /\ run[o] \in Runs /\ run[o].at = "tar"
        BY <2>3, OthersStay DEF Unpack, Inv, Typed, TypeOK
      <3>2. run'[o].queue = run[o].queue /\ run'[o].direct = run[o].direct
        BY <3>1, ListStays DEF At
      <3> QED
        BY <2>1, <3>1, <3>2 DEF StartsEmpty
    <2> QED
      BY <2>2, <2>3
  <1>2. CASE Halt
    BY <1>2 DEF Halt, StartsEmpty, Idle
  <1>3. ASSUME NEW o \in Operators, SetOnlyUpdate(o)
        PROVE  StartsEmpty'
    <2>1. /\ run'[o] = At(o, "tar") /\ run[o] \in Runs /\ run[o].at = "idle"
          /\ \A v \in Operators : v # o => run'[v] = run[v]
      BY <1>3, OthersStay DEF SetOnlyUpdate, Inv, Typed, TypeOK
    <2>2. run'[o].queue = run[o].queue /\ run'[o].direct = run[o].direct
      BY <2>1, ListStays DEF At
    <2> QED
      BY <2>1, <2>2 DEF StartsEmpty
  <1>4. ASSUME UNCHANGED run
        PROVE  StartsEmpty'
    BY <1>4 DEF StartsEmpty
  <1> QED
    BY <1>1, <1>2, <1>3, <1>4 DEF Next, Reboot, PowerCut, SetUpdate, vars

(* No step of the run disturbs what it has done.                            *)
LEMMA StepLoyal ==
  ASSUME Inv, StartsEmpty, NEW u \in Uploads, IsInjective(Contents[u]),
         NEW o \in Operators, Loyal(o, u), Step(o), ~Reboot(o)
  PROVE  Loyal(o, u)'
  BY UnpackLoyal, ReadLoyal, NextLoyal, OpenLoyal, EraseLoyal, CopyLoyal, VerifyLoyal,
     UnlinkLoyal, FinishLoyal DEF Step

(* Nobody else has a run, so nobody else takes a step of one.               *)
LEMMA StepIsBusy ==
  ASSUME NEW o \in Operators, Step(o)
  PROVE  run[o].at # "idle" /\ (~Reboot(o) => UNCHANGED <<want, alone>>)
  BY DEF Step, Unpack, ReadList, NextMember, Open, Refuse, OpenError, Erase, EraseError, Copy,
     ShortWrite, Verify, Unlink, Finish, Reboot, history

(* A request of an operator who is alone starts an update or goes on with   *)
(* one; it ends that of anybody else.                                       *)
LEMMA RequestLoyal ==
  ASSUME Inv, NEW o \in Operators, NEW v \in Operators, alone'[o],
         (\E u \in Uploads : SetUpdate(v, u)) \/ SetOnlyUpdate(v),
         alone[o] => Loyal(o, want[o])
  PROVE  Loyal(o, want[o])'
  <1>1. CASE \E u \in Uploads : SetUpdate(v, u)
    <2>1. PICK u \in Uploads : SetUpdate(v, u)
      BY <1>1
    <2>2. o = v /\ \A w \in Operators : run'[w] = run[w] /\ run[w].at = "idle"
      BY <2>1 DEF SetUpdate, Quiet, Others
    <2>3. image' = u /\ want'[o] = u
      BY <2>1, <2>2 DEF SetUpdate, Inv, Typed, TypeOK
    <2>4. MemberOK(Contents[u], o)' /\ EarlierOK(Contents[u], o)'
      BY <2>2 DEF MemberOK, EarlierOK, Sought, Trying, Changing, Writing
    <2>5. Loyal(o, u)'
      BY <2>2, <2>3, <2>4 DEF Loyal, Listed
    <2> QED
      BY <2>3, <2>5
  <1>2. CASE SetOnlyUpdate(v)
    <2>1. o = v /\ alone[o] /\ \A w \in Operators : run[w].at = "idle"
      BY <1>2 DEF SetOnlyUpdate, Quiet, Others
    <2>2. PICK u \in Uploads : u = want[o] /\ Loyal(o, u)
      BY <2>1 DEF Loyal
    <2>3. run'[o] = At(o, "tar") /\ \A w \in Operators : w # o => run'[w] = run[w]
      BY <1>2, <2>1, OthersStay DEF SetOnlyUpdate, Inv, Typed
    <2>4. run'[o].at = "tar"
      BY <2>3, SentTo DEF Inv, Typed, Places
    <2>5. image' = u /\ want'[o] = u /\ list' = <<>> /\ o \in writers'
      BY <1>2, <2>1, <2>2 DEF SetOnlyUpdate, Loyal
    <2>6. MemberOK(Contents[u], o)' /\ EarlierOK(Contents[u], o)'
      BY <2>4 DEF MemberOK, EarlierOK, Sought, Trying, Changing, Writing
    <2>7. Loyal(o, u)'
      BY <2>1, <2>3, <2>4, <2>5, <2>6 DEF Loyal, Listed
    <2> QED
      BY <2>5, <2>7
  <1> QED
    BY <1>1, <1>2

(* UpdateInv is inductive.                                                  *)
LEMMA UpdateKeeps ==
  ASSUME \A u \in Uploads : IsInjective(Contents[u]), UpdateInv, [Next]_vars
  PROVE  UpdateInv'
  <1>1. Inv /\ StartsEmpty
    BY DEF UpdateInv
  <1>2. Inv' /\ StartsEmpty'
    BY <1>1, NextTyped, NextKeeps, StartKeeps DEF Inv, Kept
  <1>3. ASSUME NEW o \in Operators, alone'[o]
        PROVE  Loyal(o, want[o])'
    <2>1. alone[o] => Loyal(o, want[o])
      BY DEF UpdateInv
    <2>2. CASE Halt
      BY <1>3, <2>2 DEF Halt
    <2>3. ASSUME NEW v \in Operators, Step(v), ~Reboot(v)
          PROVE  Loyal(o, want[o])'
      <3>1. alone[o] /\ Loyal(o, want[o]) /\ want' = want
        BY <1>3, <2>1, <2>3, StepIsBusy
      <3>2. PICK u \in Uploads : u = want[o]
        BY <3>1 DEF Loyal
      <3>3. v = o
        BY <2>3, <3>1, StepIsBusy DEF Loyal
      <3>4. Loyal(o, u)'
        BY <1>1, <2>3, <3>1, <3>2, <3>3, StepLoyal
      <3> QED
        BY <3>1, <3>2, <3>4
    <2>4. ASSUME NEW v \in Operators, (\E u \in Uploads : SetUpdate(v, u)) \/ SetOnlyUpdate(v)
          PROVE  Loyal(o, want[o])'
      BY <1>1, <1>3, <2>1, <2>4, RequestLoyal
    <2>5. CASE UNCHANGED vars
      <3>1. UNCHANGED <<image, list, writers, files, flash, run, want, alone, hurt, missed>>
        BY <2>5 DEF vars, tmp, history
      <3>2. alone[o] /\ Loyal(o, want[o])
        BY <1>3, <2>1, <3>1
      <3> QED
        BY <3>1, <3>2 DEF Loyal, ListOK, MemberOK, EarlierOK, Found, Trying, Changing, Installed,
           LastFor, For, Accepted
    <2> QED
      BY <2>2, <2>3, <2>4, <2>5 DEF Next, Reboot, PowerCut
  <1> QED
    BY <1>2, <1>3 DEF UpdateInv
-----------------------------------------------------------------------------
(* When an update nobody has interfered with ends, what it has delivered is *)
(* what is installed.                                                       *)
LEMMA LeavingInstalls ==
  ASSUME UpdateInv, NEW o \in Operators, run[o].at = "leaving", alone[o],
         NEW p \in Partitions, NEW i \in Delivered(want[o], p)
  PROVE  hurt[p] \/ p \in missed \/ \A b \in 1..Blocks : flash[p][b] = i
  <1>1. Loyal(o, want[o])
    BY DEF UpdateInv
  <1>2. PICK c \in Seq(Images) : c = Contents[want[o]]
    BY <1>1, UploadAssumption DEF Loyal
  <1>3. PICK l \in Nat : l = Len(c) /\ DOMAIN c = 1 .. l
    BY LenProperties
  <1>4. Installed(c, l, p)
    BY <1>1, <1>2, <1>3 DEF Loyal, EarlierOK
  <1> DEFINE mine == {k \in 1 .. l : For(c[k], p)}
  <1>5. PICK m \in mine : i = c[m] /\ \A n \in mine : n <= m
    <2>1. {k \in DOMAIN Contents[want[o]] :
             Accepted(Contents[want[o]][k]) /\ Header[Contents[want[o]][k]] = p} = mine
      BY <1>2, <1>3 DEF For
    <2> QED
      BY <1>2, <2>1 DEF Delivered
  <1>6. LastFor(c, l, p, m)
    <2>1. \A n \in m + 1 .. l : n \in 1 .. l /\ ~(n <= m)
      BY <1>5
    <2> QED
      BY <1>5, <2>1 DEF LastFor
  <1> QED
    BY <1>4, <1>5, <1>6 DEF Installed

(* An update nobody interferes with installs what it delivers: when the     *)
(* device reboots at its end every partition the upload has an image for    *)
(* holds, block for block, the last acceptable one, unless the second try   *)
(* has failed too, or the partition or that image could not be opened (an   *)
(* open is not tried again).  This holds for archives that name no member   *)
(* twice: a member is removed when it has been dealt with, and upgrade does *)
(* not find it a second time.                                               *)
THEOREM UpdateIsInstalled ==
  ASSUME \A u \in Uploads : IsInjective(Contents[u])
  PROVE  Spec => UpdateInstalls
  <1>1. Init => UpdateInv
    <2>1. Init => Inv
      BY InitKeeps
    <2>2. Init => StartsEmpty
      BY DEF Init, StartsEmpty, Idle
    <2>3. Init => \A o \in Operators : ~alone[o]
      BY DEF Init
    <2> QED
      BY <2>1, <2>2, <2>3 DEF UpdateInv
  <1>2. UpdateInv /\ [Next]_vars => UpdateInv'
    BY UpdateKeeps
  <1>3. UpdateInv /\ [Next]_vars =>
          [\A o \in Operators :
             run[o].at = "leaving" /\ run'[o].at = "idle" /\ alone[o] =>
               \A p \in Partitions : \A i \in Delivered(want[o], p) :
                 hurt[p] \/ p \in missed \/ \A b \in 1..Blocks : flash[p][b] = i]_vars
    BY LeavingInstalls
  <1> QED
    BY <1>1, <1>2, <1>3, PTL DEF Spec, UpdateInstalls
=============================================================================
