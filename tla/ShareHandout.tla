---------------------------- MODULE ShareHandout ----------------------------
(***************************************************************************)
(* The split of a container's key and the handout of its shares.           *)
(*                                                                         *)
(* Standard mode is the sharing of Shamir, two of four, over a prime       *)
(* field; strict mode splits the key into a pad, share 1, and its          *)
(* complement, shares 2 to 4.  Shares 3 and 4 are wrapped under the        *)
(* machine's master key; shares 1 and 2 wait in the panel until each is    *)
(* saved to a file of its own, in a folder other programs use too.  A save *)
(* writes a temporary file, publishes it under the chosen name and reads it*)
(* back; any step can fail and the application can end between two steps.  *)
(*                                                                         *)
(* Keys and pads have one bit, and one prime stands for the list.  The     *)
(* temporary file, whose name nobody chooses, is what it holds.  Other     *)
(* programs create and remove files of their own only.                     *)
(***************************************************************************)
EXTENDS Integers, Sequences, FiniteSets, FiniteSetsExt

CONSTANTS
  ShareNames,    \* files the operator may choose
  Prime,         \* the field of standard mode
  Ways,          \* how a file is published here: "move" (a rename or a hard
                 \* link of the temporary file), "claim" (no hard links)
  MaxSplits      \* bound: keys split

ASSUME HandoutAssumption ==
  /\ Prime \in Nat \ (0 .. 4)
  /\ Ways \subseteq {"move", "claim"}
  /\ MaxSplits \in Nat

VARIABLES
  masterKey,     \* the file of the key that wraps: "absent", "short", "whole"
  splits,        \* the keys split so far, the last one in the panel
  held,          \* the panel holds the shares of the last split
  savedAs,       \* the file of each share handed out, by split
  folder,     \* what bears each name
  save,          \* the save in progress
  foreign         \* history: the names other programs have files of

handoutVars == <<masterKey, splits, held, savedAs, folder, save, foreign>>

-----------------------------------------------------------------------------
(* Splitting and recovering.  A share is a point: its index, its value.     *)

Bits == {0, 1}
Xor(a, b) == (a + b) % 2
Indices == 1 .. 4
HandedOut == {1, 2}
Points(values, indices) == {<<i, values[i]>> : i \in indices}

(* random_polynomial and get_polynomial_points, of degree one. *)
Line(key, slope) == [i \in Indices |-> (key + slope * i) % Prime]

(* The pad to the owner, its complement to the three channels. *)
PadAndComplement(key, pad) ==
  [i \in Indices |-> IF i = 1 THEN pad ELSE Xor(key, pad)]

(* mod_inverse; nothing inverts 0, for which the code computes 0. *)
Inverted(k) ==
  IF k % Prime = 0 THEN 0
  ELSE CHOOSE j \in 0 .. Prime - 1 : (k * j) % Prime = 1

(* modular_lagrange_interpolation at 0. *)
Interpolated(points) ==
  LET Basis(p) ==
        FoldSet(LAMBDA q, acc : (acc * (0 - q[1]) * Inverted(p[1] - q[1])) % Prime,
                1, points \ {p})
  IN MapThenSumSet(LAMBDA p : p[2] * Basis(p), points) % Prime

NoKey == "refused"

(* recover_key_strict: the owner's share, and channels that agree. *)
Unpadded(points) ==
  LET owner == {p[2] : p \in {q \in points : q[1] = 1}}
      channel == {p[2] : p \in {q \in points : q[1] # 1}}
  IN IF Cardinality(owner) = 1 /\ Cardinality(channel) = 1
     THEN CHOOSE k \in Bits : \E a \in owner, b \in channel : k = Xor(a, b)
     ELSE NoKey

(* recover_key_for_mode. *)
Recovered(mode, points) ==
  IF Cardinality(points) < 2 THEN NoKey
  ELSE IF mode = "strict" THEN Unpadded(points) ELSE Interpolated(points)

-----------------------------------------------------------------------------
Absent == [kind |-> "absent"]
Foreign == [kind |-> "foreign"]
Copy(number, index, whole) ==
  [kind |-> "share", split |-> number, index |-> index, whole |-> whole]

NoName == "no file"
NotSaving == [at |-> "idle"]
Current == Cardinality(DOMAIN splits)
NotSavedYet == [i \in HandedOut |-> NoName]

HandoutInit ==
  /\ masterKey = "absent"
  /\ splits = << >>
  /\ held = FALSE
  /\ savedAs = << >>
  /\ folder = [n \in ShareNames |-> Absent]
  /\ save = NotSaving
  /\ foreign = {}

(* The first start makes the master key; a write that fails can leave a     *)
(* file too short, which is never replaced and wraps nothing.               *)
InitMasterKey(outcome) ==
  /\ masterKey = "absent"
  /\ masterKey' = outcome
  /\ UNCHANGED <<splits, held, savedAs, folder, save, foreign>>

Values(mode, key, chance) ==
  IF mode = "strict" THEN PadAndComplement(key, chance) ELSE Line(key, chance)

(* What the split tries: shares 1 and 2, and in standard mode a random pair. *)
SelfChecks(mode, key, values, pair) ==
  /\ Recovered(mode, Points(values, {1, 2})) = key
  /\ mode = "standard" => Recovered(mode, Points(values, pair)) = key

(* wrap_institutional_shares: what the envelopes of shares 3 and 4 hold. *)
WrappedShares(values) == [i \in {3, 4} |-> values[i]]

(* wrap_dek: a key file too short, or none, wraps nothing. *)
Wraps == masterKey = "whole"

(* unwrap_dek: the share an institution gets from its envelope. *)
Unwrapped(s, i) == splits[s].wrapped[i]

(* S6 and R7: split, check, wrap, and load the panel. *)
SplitForHolders(mode, key, chance, pair) ==
  LET values == Values(mode, key, chance) IN
  /\ ~held /\ save = NotSaving
  /\ Current < MaxSplits
  /\ SelfChecks(mode, key, values, pair)
  /\ Wraps
  /\ splits' = Append(splits, [mode |-> mode, key |-> key, values |-> values,
                               wrapped |-> WrappedShares(values)])
  /\ savedAs' = Append(savedAs, NotSavedYet)
  /\ held' = TRUE
  /\ UNCHANGED <<masterKey, folder, save, foreign>>

-----------------------------------------------------------------------------
(* Saving a share.  The early checks; the last word is the publishing.      *)

AllSaved == \A i \in HandedOut : savedAs[Current][i] # NoName

Choose(index, name) ==
  /\ held /\ save = NotSaving
  /\ savedAs[Current][index] = NoName
  /\ \A i \in HandedOut : savedAs[Current][i] # name
  /\ folder[name] = Absent
  /\ save' = [at |-> "chosen", index |-> index, name |-> name, whole |-> FALSE]
  /\ UNCHANGED <<masterKey, splits, held, savedAs, folder, foreign>>

Fails == save' = NotSaving

(* The write is synced, and can still be damaged: that is what the reading  *)
(* back is for.                                                             *)
WriteTemp(whole) ==
  /\ save.at = "chosen"
  /\ save' = [save EXCEPT !.at = "written", !.whole = whole]
  /\ UNCHANGED <<masterKey, splits, held, savedAs, folder, foreign>>

TempFails ==
  /\ save.at = "chosen"
  /\ Fails
  /\ UNCHANGED <<masterKey, splits, held, savedAs, folder, foreign>>

(* Mutant: a rename that replaces. *)
Replaced(name) == name \in ShareNames

Untaken(name) == folder[name] = Absent

Puts(copy) == folder' = [folder EXCEPT ![save.name] = copy]

(* The rename or the link: the name then bears the temporary file. *)
PublishTemp ==
  /\ save.at = "written"
  /\ "move" \in Ways
  /\ Untaken(save.name)
  /\ Puts(Copy(Current, save.index, save.whole))
  /\ save' = [save EXCEPT !.at = "published"]
  /\ UNCHANGED <<masterKey, splits, held, savedAs, foreign>>

(* Without hard links: the name is claimed, then written through. *)
ClaimName ==
  /\ save.at = "written"
  /\ "claim" \in Ways
  /\ Untaken(save.name)
  /\ Puts(Copy(Current, save.index, FALSE))
  /\ save' = [save EXCEPT !.at = "claimed"]
  /\ UNCHANGED <<masterKey, splits, held, savedAs, foreign>>

WriteClaimed(whole) ==
  /\ save.at = "claimed"
  /\ Puts(Copy(Current, save.index, whole))
  /\ save' = [save EXCEPT !.at = "published"]
  /\ UNCHANGED <<masterKey, splits, held, savedAs, foreign>>

(* The name is taken by now, or the system refuses. *)
PublishFails ==
  /\ save.at = "written"
  /\ Fails
  /\ UNCHANGED <<masterKey, splits, held, savedAs, folder, foreign>>

(* _remove_quietly: the system may refuse. *)
RemoveTarget == Puts(Absent) \/ UNCHANGED folder

ClaimedFails ==
  /\ save.at = "claimed"
  /\ RemoveTarget
  /\ Fails
  /\ UNCHANGED <<masterKey, splits, held, savedAs, foreign>>

ReadsBack(name) == folder[name] = Copy(Current, save.index, TRUE)

Verify ==
  /\ save.at = "published"
  /\ ReadsBack(save.name)
  /\ savedAs' = [savedAs EXCEPT ![Current][save.index] = save.name]
  /\ save' = NotSaving
  /\ UNCHANGED <<masterKey, splits, held, folder, foreign>>

(* Damaged, or not readable now. *)
VerifyFails ==
  /\ save.at = "published"
  /\ RemoveTarget
  /\ Fails
  /\ UNCHANGED <<masterKey, splits, held, savedAs, foreign>>

(* Either end drops the shares. *)
DropShares ==
  /\ held /\ save = NotSaving
  /\ held' = FALSE
  /\ UNCHANGED <<masterKey, splits, savedAs, folder, save, foreign>>

(* The wizard is completed, which takes both saves ... *)
CompleteHandout == DropShares /\ AllSaved

(* ... or left, which the operator is asked about. *)
LeavePanel == DropShares /\ ~AllSaved

EndApplication ==
  /\ held
  /\ held' = FALSE
  /\ save' = NotSaving
  /\ UNCHANGED <<masterKey, splits, savedAs, folder, foreign>>

-----------------------------------------------------------------------------
OtherCreates(name) ==
  /\ folder[name] = Absent
  /\ folder' = [folder EXCEPT ![name] = Foreign]
  /\ foreign' = foreign \union {name}
  /\ UNCHANGED <<masterKey, splits, held, savedAs, save>>

OtherRemoves(name) ==
  /\ folder[name] = Foreign
  /\ folder' = [folder EXCEPT ![name] = Absent]
  /\ foreign' = foreign \ {name}
  /\ UNCHANGED <<masterKey, splits, held, savedAs, save>>

SaveStep ==
  \/ \E i \in HandedOut, n \in ShareNames : Choose(i, n)
  \/ \E w \in BOOLEAN : WriteTemp(w) \/ WriteClaimed(w)
  \/ TempFails \/ PublishTemp \/ ClaimName \/ PublishFails \/ ClaimedFails
  \/ Verify \/ VerifyFails

HandoutNext ==
  \/ \E outcome \in {"absent", "short", "whole"} : InitMasterKey(outcome)
  \/ \E key, pad \in Bits : SplitForHolders("strict", key, pad, HandedOut)
  \/ \E key \in Bits, slope \in 0 .. Prime - 1, pair \in kSubset(2, Indices) :
       SplitForHolders("standard", key, slope, pair)
  \/ SaveStep
  \/ CompleteHandout \/ LeavePanel \/ EndApplication
  \/ \E n \in ShareNames : OtherCreates(n) \/ OtherRemoves(n)

HandoutSpec == HandoutInit /\ [][HandoutNext]_handoutVars

-----------------------------------------------------------------------------
(* Properties. *)

Copies ==
  {Copy(s, i, w) : s \in 1 .. MaxSplits, i \in HandedOut, w \in BOOLEAN}

(* The panel, the files of the folder and the save in progress. *)
HandoutTypeOK ==
  /\ masterKey \in {"absent", "short", "whole"}
  /\ held \in BOOLEAN /\ (held => Current > 0)
  /\ DOMAIN savedAs = DOMAIN splits
  /\ \A s \in DOMAIN savedAs :
       savedAs[s] \in [HandedOut -> ShareNames \union {NoName}]
  /\ \A n \in ShareNames : folder[n] \in Copies \union {Absent, Foreign}
  /\ save.at # "idle" => held /\ save.name \in ShareNames
  /\ foreign \subseteq ShareNames

WholeCopies == {c \in Copies : c.whole}

(* The point a holder has: read from the file of a share handed out,        *)
(* unwrapped from the envelope of an institution's.                         *)
PointOf(s, i) ==
  IF i \in {3, 4} THEN {<<i, Unwrapped(s, i)>>}
  ELSE {<<c.index, splits[c.split].values[c.index]>> :
          c \in {folder[savedAs[s][i]]} \intersect WholeCopies}

Suffices(mode, indices) ==
  /\ Cardinality(indices) >= 2
  /\ mode = "strict" => 1 \in indices

(* Once both shares of a split are saved, the key, which nothing holds any  *)
(* more when the panel is cleared, is recovered from what lies in the two   *)
(* files and in the two envelopes, by every set of holders that suffices    *)
(* and, in strict mode, by no other; whatever failed in between, whatever   *)
(* other programs put into the folder, and however often the             *)
(* application ended (write_share_file, wrap_institutional_shares,          *)
(* recover_key_for_mode).                                                   *)
HandedOutSharesOpen ==
  \A s \in DOMAIN splits :
    (\A i \in HandedOut : savedAs[s][i] # NoName) =>
      \A indices \in SUBSET Indices :
        LET found == Recovered(splits[s].mode,
                               UNION {PointOf(s, i) : i \in indices})
        IN IF Suffices(splits[s].mode, indices)
           THEN found = splits[s].key ELSE found = NoKey

(* No save replaces or removes a file of another program: "published        *)
(* under the chosen name without ever replacing an existing file"           *)
(* (desktop/share_file.py).                                                 *)
OthersKeepTheirFiles == \A n \in foreign : folder[n] = Foreign

(* What the arithmetic of standard mode owes the protocol: two or more      *)
(* points of a line give back its key.                                      *)
LinesAreRecovered ==
  \A key \in Bits, slope \in 0 .. Prime - 1, indices \in SUBSET Indices :
    Cardinality(indices) >= 2 => Interpolated(Points(Line(key, slope), indices)) = key

SharesAreSavedApart == HandedOutSharesOpen /\ OthersKeepTheirFiles

=============================================================================
