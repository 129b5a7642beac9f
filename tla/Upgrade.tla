------------------------------- MODULE Upgrade -------------------------------
(***************************************************************************)
(* The firmware pages and upgrade.  One request of setagent.cgi moves the  *)
(* file the browser has sent to /tmp/image_file, a second one runs         *)
(*     /sbin/upgrade /tmp/image_file; sleep 3; /sbin/reboot                *)
(* whether there is such a file, and whatever upgrade returns.  upgrade    *)
(* unpacks the file with tar, reads the names tar has listed, and writes   *)
(* one member after the other to the flash partition its header names:     *)
(* erase, copy block by block, read back and compare; a member that fails  *)
(* is tried once more.  If tar lists nothing the file itself is taken for  *)
(* an image.  All runs share /tmp/image_file, /tmp/list, the unpacked      *)
(* members and the flash, and the reboot of one ends the others.           *)
(*                                                                         *)
(* A block of flash holds a block of an image, or of the image shipped, or *)
(* is erased, or holds neither ("bad").  Members of one name are the same  *)
(* image; tar unpacks and lists a file in one step; a corruption the CRC   *)
(* does not notice is not modelled, and a read that fails while a block is *)
(* compared is like a block that differs.                                  *)
(***************************************************************************)
EXTENDS Naturals, Sequences, FiniteSets

CONSTANTS
  None,        \* no file
  Operators,   \* browsers
  Partitions,  \* the flash partitions upgrade knows: bl, kr (or os), fs
  Blocks,      \* blocks of a partition, each one write of copy_flash
  Images,      \* firmware images
  Header,      \* the partition an image names, or something upgrade refuses
  Fits,        \* images within the size limit of their partition
  ZeroSum,     \* images whose CRC is 0
  Uploads,     \* files a browser may send
  Tars,        \* those that are archives
  Contents,    \* the members of an archive, or the one image a file is
  MaxRequests, \* bound: requests
  MaxFaults,   \* bound: failing calls and corrupted blocks
  MaxCuts      \* bound: losses of power

ASSUME BlocksAssumption == Blocks \in Nat \ {0}
ASSUME UploadAssumption ==
  /\ Tars \subseteq Uploads
  /\ Contents \in [Uploads -> Seq(Images)]
  /\ \A u \in Uploads \ Tars : Len(Contents[u]) = 1
ASSUME ImageAssumption ==
  /\ Fits \subseteq Images /\ ZeroSum \subseteq Images
  /\ DOMAIN Header = Images

Marks == {"shipped", "erased", "bad"}

ASSUME BoundsAssumption ==
  MaxRequests \in Nat /\ MaxFaults \in Nat /\ MaxCuts \in Nat

ASSUME NamesAssumption ==
  /\ None \notin Images \cup Uploads \cup Seq(Images)
  /\ Marks \cap Images = {}

VARIABLES
  image,    \* /tmp/image_file
  list,     \* /tmp/list: names, or None
  writers,  \* the runs whose tar writes to the file now called /tmp/list
  files,    \* members in /tmp
  flash,    \* flash[p][b]
  eon,      \* the flash is of the type erase_flash leaves to its driver
  run,      \* the request of each operator
  up,       \* the device has booted from what the flash holds
  requests, faults, cuts,  \* counters
  want,     \* history: what an operator has sent since the boot
  alone,    \* history: and nobody else has done anything since
  hurt,     \* history: why a partition may be broken (see Erase, Refuse, Halt)
  missed    \* history: partitions whose last image could not be opened

tmp == <<image, list, writers, files>>
history == <<want, alone, hurt, missed>>
vars == <<tmp, flash, eon, run, up, requests, faults, cuts, history>>

Idle == [at |-> "idle", queue |-> <<>>, file |-> None, direct |-> FALSE,
         try |-> 0, block |-> 0, same |-> TRUE]
Places == {"idle", "tar", "list", "next", "open", "erase", "copy", "verify",
           "unlink", "finish", "leaving"}
-----------------------------------------------------------------------------
Whole(p) == \E i \in Images \cup {"shipped"} : \A b \in 1..Blocks : flash[p][b] = i

Go(o, r) == run' = [run EXCEPT ![o] = r]
At(o, place) == [run[o] EXCEPT !.at = place]

(* Run o has begun to change partition p and is not through with it.       *)
Working(o, p) ==
  /\ \/ run[o].at \in {"copy", "verify"}
     \/ run[o].at \in {"open", "erase"} /\ run[o].try = 2
  /\ run[o].file \in Images /\ Header[run[o].file] = p

Others(o) == Operators \ {o}
Quiet(o) == \A v \in Others(o) : run[v].at = "idle"

(* What an archive lists is written over the head of what the file holds.  *)
Over(new, old) == new \o SubSeq(old, Len(new) + 1, Len(old))

Fault == faults < MaxFaults /\ faults' = faults + 1

(* set_update: the upload takes the place of an earlier one.               *)
SetUpdate(o, u) ==
  /\ up /\ run[o].at = "idle" /\ requests < MaxRequests
  /\ requests' = requests + 1
  /\ image' = u
  /\ want' = [want EXCEPT ![o] = u]
  /\ alone' = [v \in Operators |-> v = o /\ Quiet(o)]
  /\ UNCHANGED <<list, writers, files, flash, eon, run, up, faults, cuts, hurt, missed>>

(* set_onlyupdate: upgrade starts; the shell empties or makes the list.    *)
SetOnlyUpdate(o) ==
  /\ up /\ run[o].at = "idle" /\ requests < MaxRequests
  /\ requests' = requests + 1
  /\ list' = <<>>
  /\ writers' = IF list = None THEN {o} ELSE writers \cup {o}
  /\ Go(o, At(o, "tar"))
  /\ alone' = [v \in Operators |-> v = o /\ alone[o] /\ Quiet(o)]
  /\ UNCHANGED <<image, files, flash, eon, up, faults, cuts, want, hurt, missed>>

Unpack(o) ==
  LET names == IF image \in Tars THEN Contents[image] ELSE <<>> IN
  /\ run[o].at = "tar"
  /\ files' = files \cup {names[k] : k \in DOMAIN names}
  /\ list' = IF o \in writers THEN Over(names, list) ELSE list
  /\ Go(o, At(o, "list"))
  /\ UNCHANGED <<image, writers, flash, eon, up, requests, faults, cuts, history>>

(* The whole list is read at once; without one upgrade returns.            *)
ReadList(o) ==
  /\ run[o].at = "list"
  /\ Go(o, CASE list = None -> At(o, "leaving")
             [] list = <<>> -> [At(o, "open") EXCEPT !.direct = TRUE, !.try = 1]
             [] OTHER -> [At(o, "next") EXCEPT !.queue = list])
  /\ UNCHANGED <<tmp, flash, eon, up, requests, faults, cuts, history>>

NextMember(o) ==
  /\ run[o].at = "next"
  /\ Go(o, IF run[o].queue = <<>> THEN At(o, "finish")
           ELSE [At(o, "open") EXCEPT !.file = Head(run[o].queue),
                                      !.queue = Tail(run[o].queue), !.try = 1])
  /\ UNCHANGED <<tmp, flash, eon, up, requests, faults, cuts, history>>

(* The image a call of upgrade() finds under the name it is given.         *)
Found(o) ==
  IF ~run[o].direct THEN IF run[o].file \in files THEN run[o].file ELSE None
  ELSE IF image \in Uploads \ Tars THEN Contents[image][1] ELSE None

Accepted(i) == i # None /\ Header[i] \in Partitions /\ i \in Fits

Open(o) ==
  /\ run[o].at = "open" /\ Accepted(Found(o))
  /\ Go(o, [At(o, "erase") EXCEPT !.file = Found(o)])
  \* the other try was on an upload that has been replaced
  /\ hurt' = [p \in Partitions |->
                hurt[p] \/ (Working(o, p) /\ Header[Found(o)] # p)]
  /\ UNCHANGED <<tmp, flash, eon, up, requests, faults, cuts, want, alone, missed>>

(* Not found, no known header or too big: 0, which is no failure.          *)
Refuse(o) ==
  /\ run[o].at = "open" /\ ~Accepted(Found(o))
  /\ Go(o, At(o, "unlink"))
  /\ hurt' = [p \in Partitions |-> hurt[p] \/ Working(o, p)]
  /\ UNCHANGED <<tmp, flash, eon, up, requests, faults, cuts, want, alone, missed>>

(* The image, either time, or the flash cannot be opened: 0 as well, so    *)
(* that there is no other try, and the member is removed.                  *)
OpenError(o) ==
  /\ run[o].at = "open" /\ Accepted(Found(o)) /\ Fault
  /\ Go(o, At(o, "unlink"))
  /\ hurt' = [p \in Partitions |-> hurt[p] \/ Working(o, p)]
  /\ missed' = missed \cup {Header[Found(o)]}
  /\ UNCHANGED <<tmp, flash, eon, up, requests, cuts, want, alone>>

(* Slip: the result is not looked at.                                      *)
FailedOnce(o) == At(o, "unlink")

(* What upgrade() returning -1 leads to.                                   *)
Failed(o) ==
  IF run[o].try = 1 THEN [At(o, "open") EXCEPT !.try = 2] ELSE At(o, "unlink")

FailHurts(o, p) == hurt[p] \/ (run[o].try = 2 /\ Header[run[o].file] = p)

Fails(o) ==
  /\ Go(o, Failed(o))
  /\ hurt' = [p \in Partitions |-> FailHurts(o, p)]

(* A run that has a partition for itself starts with a clean record.       *)
Erase(o) ==
  LET p == Header[run[o].file] IN
  /\ run[o].at = "erase"
  /\ flash' = [flash EXCEPT ![p] =
                 IF eon THEN @ ELSE [b \in 1..Blocks |-> "erased"]]
  /\ Go(o, [At(o, "copy") EXCEPT !.block = 1])
  /\ hurt' = [hurt EXCEPT ![p] = \E v \in Others(o) : Working(v, p)]
  /\ missed' = missed \ {p}
  /\ UNCHANGED <<tmp, eon, up, requests, faults, cuts, want, alone>>

(* The erase ends early: the partition may be untouched, or partly erased. *)
EraseError(o) ==
  LET p == Header[run[o].file] IN
  /\ run[o].at = "erase" /\ ~eon /\ Fault
  /\ \E k \in 0..Blocks :
       flash' = [flash EXCEPT ![p] =
                   [b \in 1..Blocks |-> IF b <= k THEN "erased" ELSE @[b]]]
  /\ Go(o, Failed(o))
  /\ hurt' = [q \in Partitions |->
                FailHurts(o, q) \/ (q = p /\ \E v \in Others(o) : Working(v, p))]
  /\ UNCHANGED <<tmp, eon, up, requests, cuts, want, alone, missed>>

Burn(p, b, content) == flash' = [flash EXCEPT ![p][b] = content]

(* What writing a block of image i gives: flash is erased first.           *)
Burnt(p, b, i) == IF eon \/ flash[p][b] \in {"erased", i} THEN i ELSE "bad"

LastBlock(o) == run[o].block = Blocks

(* One write of copy_flash; the last one returns the CRC.                  *)
Copy(o) ==
  LET i == run[o].file
      p == Header[i] IN
  /\ run[o].at = "copy"
  /\ \/ Burn(p, run[o].block, Burnt(p, run[o].block, i)) /\ UNCHANGED faults
     \/ Burn(p, run[o].block, "bad") /\ Fault
  /\ IF ~LastBlock(o)
       THEN Go(o, [run[o] EXCEPT !.block = @ + 1]) /\ UNCHANGED hurt
     ELSE IF i \in ZeroSum THEN Fails(o)
     ELSE Go(o, [At(o, "verify") EXCEPT !.block = 1, !.same = TRUE]) /\ UNCHANGED hurt
  /\ UNCHANGED <<tmp, eon, up, requests, cuts, want, alone, missed>>

ShortWrite(o) ==
  /\ run[o].at = "copy" /\ Fault
  /\ Burn(Header[run[o].file], run[o].block, "bad")
  /\ Fails(o)
  /\ UNCHANGED <<tmp, eon, up, requests, cuts, want, alone, missed>>

(* Slip: the two checksums are not compared.                               *)
SameUnread(o) == TRUE

Same(o) == run[o].same /\ flash[Header[run[o].file]][run[o].block] = run[o].file

(* verify_flash, and the comparison of the checksums after the last block. *)
Verify(o) ==
  /\ run[o].at = "verify"
  /\ CASE ~LastBlock(o) ->
            Go(o, [run[o] EXCEPT !.block = @ + 1, !.same = Same(o)]) /\ UNCHANGED hurt
       [] LastBlock(o) /\ Same(o) -> Go(o, At(o, "unlink")) /\ UNCHANGED hurt
       [] OTHER -> Fails(o)
  /\ UNCHANGED <<tmp, flash, eon, up, requests, faults, cuts, want, alone, missed>>

(* A member is removed when it is done with; the upload itself is not.     *)
Unlink(o) ==
  /\ run[o].at = "unlink"
  /\ files' = IF run[o].direct THEN files ELSE files \ {run[o].file}
  /\ Go(o, [Idle EXCEPT !.at = IF run[o].direct THEN "finish" ELSE "next",
                        !.queue = run[o].queue])
  /\ UNCHANGED <<image, list, writers, flash, eon, up, requests, faults, cuts, history>>

Finish(o) ==
  /\ run[o].at = "finish"
  /\ list' = None
  /\ writers' = {}
  /\ Go(o, At(o, "leaving"))
  /\ UNCHANGED <<image, files, flash, eon, up, requests, faults, cuts, history>>

(* The device goes down: /tmp and the runs are gone.                       *)
Halt ==
  /\ image' = None /\ list' = None /\ writers' = {} /\ files' = {}
  /\ run' = [o \in Operators |-> Idle]
  /\ up' = \A p \in Partitions : Whole(p)
  /\ want' = [o \in Operators |-> None]
  /\ alone' = [o \in Operators |-> FALSE]
  /\ hurt' = [p \in Partitions |-> hurt[p] \/ \E o \in Operators : Working(o, p)]
  /\ missed' = {}
  /\ UNCHANGED <<flash, eon, requests, faults>>

Reboot(o) == run[o].at = "leaving" /\ Halt /\ UNCHANGED cuts

PowerCut == up /\ cuts < MaxCuts /\ cuts' = cuts + 1 /\ Halt
-----------------------------------------------------------------------------
Init ==
  /\ image = None /\ list = None /\ writers = {} /\ files = {}
  /\ flash = [p \in Partitions |-> [b \in 1..Blocks |-> "shipped"]]
  /\ eon \in BOOLEAN
  /\ run = [o \in Operators |-> Idle]
  /\ up = TRUE
  /\ requests = 0 /\ faults = 0 /\ cuts = 0
  /\ want = [o \in Operators |-> None]
  /\ alone = [o \in Operators |-> FALSE]
  /\ hurt = [p \in Partitions |-> FALSE]
  /\ missed = {}

Step(o) ==
  \/ Unpack(o) \/ ReadList(o) \/ NextMember(o)
  \/ Open(o) \/ Refuse(o) \/ OpenError(o) \/ Erase(o) \/ EraseError(o)
  \/ Copy(o) \/ ShortWrite(o) \/ Verify(o) \/ Unlink(o) \/ Finish(o) \/ Reboot(o)

Next ==
  \/ \E o \in Operators :
       \/ \E u \in Uploads : SetUpdate(o, u)
       \/ SetOnlyUpdate(o)
       \/ Step(o)
  \/ PowerCut

Spec == Init /\ [][Next]_vars
-----------------------------------------------------------------------------
Runs == [at : Places, queue : Seq(Images), file : Images \cup {None},
         direct : BOOLEAN, try : 0..2, block : 0..Blocks, same : BOOLEAN]

(* Every file, block, run and counter has one of the values meant for it.  *)
TypeOK ==
  /\ image \in Uploads \cup {None}
  /\ list \in Seq(Images) \cup {None}
  /\ writers \subseteq Operators /\ files \subseteq Images
  /\ flash \in [Partitions -> [1..Blocks -> Images \cup Marks]]
  /\ eon \in BOOLEAN /\ up \in BOOLEAN
  /\ run \in [Operators -> Runs]
  /\ requests \in 0..MaxRequests /\ faults \in 0..MaxFaults /\ cuts \in 0..MaxCuts
  /\ want \in [Operators -> Uploads \cup {None}]
  /\ alone \in [Operators -> BOOLEAN] /\ hurt \in [Partitions -> BOOLEAN]
  /\ missed \subseteq Partitions

(* A partition nobody is working on holds one image, the same in every     *)
(* block, unless the second try failed, could not open its file or found   *)
(* it gone, two runs were at it at once, or the device went down in the    *)
(* middle: no single failed erase, short write or corrupted block, and no  *)
(* failing open before that, leaves a broken partition behind unnoticed,   *)
(* whatever order the runs come in and whoever has replaced the upload or  *)
(* the list meanwhile.                                                     *)
WholeUnlessHurt ==
  \A p \in Partitions :
    Whole(p) \/ hurt[p] \/ \E o \in Operators : Working(o, p)

(* What an update is to leave in partition p: its last acceptable member.  *)
Delivered(u, p) ==
  LET mine == {k \in DOMAIN Contents[u] :
                 Accepted(Contents[u][k]) /\ Header[Contents[u][k]] = p}
  IN IF mine = {} THEN {}
     ELSE {Contents[u][k] : k \in {m \in mine : \A n \in mine : n <= m}}

(* When the device reboots at the end of an update nobody has interfered   *)
(* with since the file was sent, every partition the file has an image for *)
(* holds that image in every block, after one failed try as well as after  *)
(* none, behind members that were refused as well as in front of them.     *)
(* There are two exceptions: a partition whose second try has failed too,  *)
(* and one that, or whose image, could not be opened.  One failing open is *)
(* enough for that: upgrade does not try again, and the page reboots the   *)
(* device as after a success.                                              *)
UpdateInstalls ==
  [][\A o \in Operators :
       run[o].at = "leaving" /\ run'[o].at = "idle" /\ alone[o] =>
         \A p \in Partitions : \A i \in Delivered(want[o], p) :
           hurt[p] \/ p \in missed \/ \A b \in 1..Blocks : flash[p][b] = i]_vars
=============================================================================
