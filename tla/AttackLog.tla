------------------------------ MODULE AttackLog ------------------------------
(***************************************************************************)
(* The record of attacks: update_attack_info of the XDP program            *)
(* (ebpf/xdp_prog.c:212-247), run by every CPU that drops a flood datagram *)
(* (line 370), and get_attack_info of the daemon (src/attack_info.c:34-83),*)
(* run by the thread that answers GET /api/v1/attacks.                     *)
(*                                                                         *)
(* attack_info_array and attack_count are BPF arrays: their elements exist *)
(* from the start, filled with zeros, a lookup never fails, and nothing    *)
(* deletes them.  The count is a word.  A record is not: update and lookup *)
(* copy it piece by piece, and nothing keeps two copies apart.  It is cut  *)
(* in two here, and its halves are copied in any order; the head holds the *)
(* timestamp, the tail the packets.  An attack is its number in the order  *)
(* of detection; 0 is a half that was never written.                       *)
(***************************************************************************)
EXTENDS Integers, Sequences, FiniteSets

CONSTANTS
  Recorder,   \* CPUs that record attacks
  MaxAttacks, \* MAX_ATTACKS, elements of attack_info_array
  MaxDetected \* bound: attacks detected in a run

ASSUME AttackLogAssumption ==
  /\ MaxAttacks \in Nat \ {0}
  /\ MaxDetected \in Nat

Slot   == 0 .. MaxAttacks - 1
Attack == 1 .. MaxDetected
Empty  == 0
Half   == {"head", "tail"}

\* The record of attack a, and what a copy of a record may hold.
Record(a) == [h \in Half |-> a]
Blank     == Record(Empty)
Content   == [Half -> Attack \cup {Empty}]
Whole     == [Half -> Attack]

VARIABLES
  info,     \* attack_info_array
  count,    \* attack_count[0]
  recording, \* program counter and local variables of each CPU
  detected, \* number of the last attack detected
  overlaps, \* history: updates that began while another was in progress
  key,      \* get_attack_info: key, or -1 when no call is in progress
  toCopy,   \* get_attack_info: halves of the next element still to copy
  copied,   \* get_attack_info: ebpf_attack, the copy of the next element
  found,    \* get_attack_info: the attacks copied so far
  report,   \* history: what the last call returned
  longest,  \* history: length of the longest answer
  known,    \* history: attacks recorded when the call in progress began
  covered   \* history: attacks recorded when the last complete call began

writing == <<info, count, recording, detected, overlaps>>
walking == <<key, toCopy, copied, found, report, longest, known, covered>>
logVars == <<writing, walking>>

LogIdle == [at |-> "idle", slot |-> 0, attack |-> Empty, left |-> {}]

LogInit ==
  /\ info = [s \in Slot |-> Blank]
  /\ count = 0
  /\ recording = [c \in Recorder |-> LogIdle]
  /\ detected = 0
  /\ overlaps = 0
  /\ key = -1
  /\ toCopy = {}
  /\ copied = Blank
  /\ found = <<>>
  /\ report = <<>>
  /\ longest = 0
  /\ known = {}
  /\ covered = {}

-----------------------------------------------------------------------------
(* update_attack_info *)

Busy(c) == recording[c].at # "idle"

\* Mutation: a full array is recycled from its first element.
FreeSlotFirst(n) == IF n >= MaxAttacks THEN 0 ELSE n

\* The element that the next attack goes to: the last one when all are used.
FreeSlot(n) == IF n >= MaxAttacks THEN MaxAttacks - 1 ELSE n

\* CPU c detects an attack and reads the count.
Detect(c) ==
  /\ ~ Busy(c)
  /\ detected < MaxDetected
  /\ detected' = detected + 1
  /\ recording' = [recording EXCEPT
                     ![c] = [at     |-> "write",
                             slot   |-> FreeSlot(count),
                             attack |-> detected',
                             left   |-> Half]]
  /\ overlaps' = IF \E d \in Recorder : Busy(d) THEN overlaps + 1 ELSE overlaps
  /\ UNCHANGED <<info, count, walking>>

\* Copy one half of the record into the element.
Write(c, h) ==
  /\ recording[c].at = "write"
  /\ h \in recording[c].left
  /\ info' = [info EXCEPT ![recording[c].slot][h] = recording[c].attack]
  /\ recording' = [recording EXCEPT
                     ![c].left = @ \ {h},
                     ![c].at = IF recording[c].left = {h} THEN "bump"
                               ELSE "write"]
  /\ UNCHANGED <<count, detected, overlaps, walking>>

\* Mutation: the count is incremented where it is, not where it was read.
BumpInPlace(c) ==
  /\ recording[c].at = "bump"
  /\ count' = count + 1
  /\ recording' = [recording EXCEPT ![c] = LogIdle]
  /\ UNCHANGED <<info, detected, overlaps, walking>>

\* Mutation: the count is not incremented.
BumpForgotten(c) ==
  /\ recording[c].at = "bump"
  /\ count' = recording[c].slot
  /\ recording' = [recording EXCEPT ![c] = LogIdle]
  /\ UNCHANGED <<info, detected, overlaps, walking>>

\* Store the count: one more than the value read at the beginning.
Bump(c) ==
  /\ recording[c].at = "bump"
  /\ count' = recording[c].slot + 1
  /\ recording' = [recording EXCEPT ![c] = LogIdle]
  /\ UNCHANGED <<info, detected, overlaps, walking>>

-----------------------------------------------------------------------------
(* get_attack_info *)

\* Attacks whose recording is complete.
Recorded == 1 .. detected \ {recording[c].attack : c \in Recorder}

\* Mutation: the walk ends where the count says (the version of the loop that
\* the source keeps commented out, lines 85-102).
HasNextCounted(k) == k < count - 1

\* bpf_map_get_next_key of an array map: what follows k, if anything.
HasNext(k) == k < MaxAttacks - 1

\* A request begins: the walk starts from key 0, not from the first key.
Begin ==
  /\ key = -1
  /\ key' = 0
  /\ toCopy' = Half
  /\ copied' = Blank
  /\ found' = <<>>
  /\ known' = Recorded
  /\ UNCHANGED <<writing, report, longest, covered>>

\* There is no memory for the copies: the list of attacks is empty.
Refuse ==
  /\ key = -1
  /\ report' = <<>>
  /\ covered' = {}
  /\ UNCHANGED <<writing, key, toCopy, copied, found, longest, known>>

\* Copy one half of the next element.
Copy(h) ==
  /\ key # -1
  /\ HasNext(key)
  /\ h \in toCopy
  /\ copied' = [copied EXCEPT ![h] = info[key + 1][h]]
  /\ toCopy' = toCopy \ {h}
  /\ UNCHANGED <<writing, key, found, report, longest, known, covered>>

\* Mutation: the packets of a copy are not tested.
NonZeroHead(copy) == copy["head"] # Empty

\* The copy has a timestamp and packets.
NonZero(copy) == copy["head"] # Empty /\ copy["tail"] # Empty

\* Keep the copy, if the element was written, and go to the next key.
Scan ==
  /\ key # -1
  /\ HasNext(key)
  /\ toCopy = {}
  /\ key' = key + 1
  /\ toCopy' = Half
  /\ copied' = Blank
  /\ found' = IF NonZero(copied) THEN Append(found, copied) ELSE found
  /\ UNCHANGED <<writing, report, longest, known, covered>>

\* No next key: the attacks copied are returned.
Answer ==
  /\ key # -1
  /\ ~ HasNext(key)
  /\ key' = -1
  /\ toCopy' = {}
  /\ found' = <<>>
  /\ report' = found
  /\ longest' = IF Len(found) > longest THEN Len(found) ELSE longest
  /\ covered' = known
  /\ known' = {}
  /\ UNCHANGED <<writing, copied>>

Update(c) == Detect(c) \/ (\E h \in Half : Write(c, h)) \/ Bump(c)

Request == Begin \/ Refuse \/ (\E h \in Half : Copy(h)) \/ Scan \/ Answer

LogNext == (\E c \in Recorder : Update(c)) \/ Request

LogSpec == LogInit /\ [][LogNext]_logVars

-----------------------------------------------------------------------------

\* Every variable keeps its type: in particular the count and every index
\* stay within the array.
LogTypeOK ==
  /\ info \in [Slot -> Content]
  /\ count \in 0 .. MaxAttacks
  /\ recording \in [Recorder -> [at : {"idle", "write", "bump"}, slot : Slot,
                                 attack : Attack \cup {Empty},
                                 left : SUBSET Half]]
  /\ detected \in 0 .. MaxDetected
  /\ overlaps \in 0 .. detected
  /\ key \in Slot \cup {-1}
  /\ toCopy \subseteq Half
  /\ copied \in Content
  /\ found \in Seq(Whole)
  /\ report \in Seq(Whole)
  /\ longest \in Nat
  /\ known \subseteq Attack
  /\ covered \subseteq Attack

\* The used elements come first whatever the CPUs overwrite of each other: all
\* below the count, and below an element that any CPU has begun to fill, are
\* whole (lines 217-246).
NoHoles ==
  \A s \in Slot :
    s < count \/ (\E t \in Slot : s < t /\ info[t] # Blank) => info[s] \in Whole

\* A report mixes no two of its attacks and names none that was not detected,
\* although elements change under the walk and under the copy of one.  As long
\* as no two updates overlap, the only record that can be torn is the last
\* one, and that only after the array has filled up (attack_info.c:62-83).
ReportIsGenuine ==
  /\ \A i, j \in DOMAIN report : i # j =>
       \A g, h \in Half : report[i][g] # report[j][h]
  /\ \A i \in DOMAIN report, h \in Half : report[i][h] <= detected
  /\ overlaps = 0 => \A i \in DOMAIN report :
       report[i]["head"] # report[i]["tail"] =>
         i = Len(report) /\ detected > MaxAttacks

\* What has been reported stays reported: a walk that ends has found at least
\* as many attacks as any before, even when two CPUs store the count in the
\* wrong order (attack_info.c:68-71 tests the elements and not the count).
ReportNeverShrinks ==
  [][key # -1 /\ key' = -1 => Len(report') >= longest]_logVars

\* Attacks are lost to a full array and to overlapping updates only, and no
\* more than one to each update that began while another was in progress, in
\* whatever order the CPUs store the count (lines 217-246).
OnlyOverlapsLose ==
  (\A c \in Recorder : ~ Busy(c)) =>
    \A s \in Slot : s < detected - overlaps => info[s] \in Whole

(* What comments and tests say and the code does not do. *)

\* A new attack makes the list of attacks longer (test_fix6.sh:47): while the
\* array has room for all attacks and no two updates have overlapped, a walk
\* that began after attacks were recorded finds one.
NewAttackShows ==
  overlaps = 0 /\ detected < MaxAttacks => (covered # {} => report # <<>>)

\* A full array evicts its oldest entry (comments at lines 226 and 228): when
\* no two updates have overlapped, it holds the newest attacks.
EvictsOldest ==
  overlaps = 0 /\ detected > MaxAttacks /\ (\A c \in Recorder : ~ Busy(c)) =>
    {info[s]["head"] : s \in Slot} = detected - MaxAttacks + 1 .. detected

=============================================================================
