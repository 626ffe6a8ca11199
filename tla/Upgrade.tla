--------------------------------- MODULE Upgrade ---------------------------------
(***************************************************************************)
(* vpsagent upgrade (run_upgrade in vpsagent/src/main.rs): the latest      *)
(* release is compared, downloaded, checked and unpacked, and takes the    *)
(* place of the running binary in three renames, with the old one aside    *)
(* as exe.bak.  Any call may fail, and the process may be killed between   *)
(* two of them.                                                            *)
(*                                                                         *)
(* A file is the version it holds, NoBinary, or Bad for what is not what   *)
(* was released.  A version is the sequence of its numbers.                *)
(***************************************************************************)
EXTENDS Naturals, Sequences

CONSTANTS
  Versions,     \* the versions a release may have
  Built,        \* the version that is installed at first
  MaxUpgrades,  \* bound: upgrades begun
  MaxMishaps,   \* bound: kills, and renames that cannot be undone
  NoBinary, Bad

ASSUME VersionsAssumption == Versions \subseteq Seq(Nat) /\ Built \in Versions
ASSUME FilesAssumption == NoBinary # Bad /\ {NoBinary, Bad} \cap Versions = {}

VARIABLES
  exe, exeNew, exeBak,  \* the binary and the files next to it
  extracted,            \* the file unpacked into the temporary directory
  stage,                \* where the command stands
  offer,                \* the release, with what is known of its checksum
  upgrades,             \* upgrades begun
  mishaps               \* kills, and renames that were not undone

files == <<exe, exeNew, exeBak>>
counts == <<upgrades, mishaps>>
upgradeVars == <<files, extracted, stage, offer, counts>>

NoOffer == [version |-> Built, force |-> FALSE, checked |-> FALSE]

UpgradeInit ==
  /\ exe = Built /\ exeNew = NoBinary /\ exeBak = NoBinary
  /\ extracted = NoBinary
  /\ stage = "off"
  /\ offer = NoOffer
  /\ upgrades = 0
  /\ mishaps = 0

\* version_is_newer: number by number, a missing one counts as 0.
Part(v, i) == IF i \in DOMAIN v THEN v[i] ELSE 0

VersionIsNewer(latest, current) ==
  \E i \in DOMAIN latest \cup DOMAIN current :
    /\ Part(latest, i) > Part(current, i)
    /\ \A j \in 1 .. i - 1 : Part(latest, j) = Part(current, j)

\* The command ends; the temporary directory is removed, or left and not used
\* again (its name has the process id).
End ==
  /\ stage' = "off"
  /\ offer' = NoOffer
  /\ extracted' = NoBinary

\* The release, which may be offered at any version; without --force only a newer
\* one is taken.  The version of the running program is compiled into it.
Compare(version, force) ==
  /\ stage = "off" /\ upgrades < MaxUpgrades /\ exe \in Versions
  /\ upgrades' = upgrades + 1
  /\ force \/ VersionIsNewer(version, exe)
  /\ stage' = "found"
  /\ offer' = [version |-> version, force |-> force, checked |-> FALSE]
  /\ UNCHANGED <<files, extracted, mishaps>>

\* The download, the comparison with the checksum if the release has one that
\* can be read, and tar; what does not match ends the command.
Fetch ==
  /\ stage = "found"
  /\ \E got \in {offer.version, Bad}, checked \in BOOLEAN :
       /\ checked => got # Bad
       /\ stage' = "fetched"
       /\ extracted' = got
       /\ offer' = [offer EXCEPT !.checked = checked]
  /\ UNCHANGED <<files, counts>>

\* The backup of an earlier upgrade goes.
Clean ==
  /\ stage = "fetched"
  /\ exeBak' = NoBinary
  /\ stage' = "cleaned"
  /\ UNCHANGED <<exe, exeNew, extracted, offer, counts>>

\* extracted -> exe.new
Prepare ==
  /\ stage = "cleaned"
  /\ exeNew' = extracted
  /\ extracted' = NoBinary
  /\ stage' = "prepared"
  /\ UNCHANGED <<exe, exeBak, offer, counts>>

\* exe removed, as if the new one could not fail to take its place.
FreeRemoving ==
  /\ stage = "prepared"
  /\ exe' = NoBinary
  /\ stage' = "freed"
  /\ UNCHANGED <<exeNew, exeBak, extracted, offer, counts>>

\* exe -> exe.bak
Free ==
  /\ stage = "prepared"
  /\ exe' = NoBinary
  /\ exeBak' = exe
  /\ stage' = "freed"
  /\ UNCHANGED <<exeNew, extracted, offer, counts>>

\* exe.new -> exe
Place ==
  /\ stage = "freed"
  /\ exe' = exeNew
  /\ exeNew' = NoBinary
  /\ stage' = "placed"
  /\ UNCHANGED <<exeBak, extracted, offer, counts>>

\* The rights are set (or not), and the backup and the directory removed.
Settle ==
  /\ stage = "placed"
  /\ exeBak' \in {exeBak, NoBinary}
  /\ End
  /\ UNCHANGED <<exe, exeNew, counts>>

\* A call fails: the renames that were made are undone.
Fail ==
  /\ stage \in {"found", "fetched", "cleaned", "prepared", "freed"}
  /\ exeNew' = IF stage = "prepared" THEN NoBinary ELSE exeNew
  /\ exe' = IF stage = "freed" THEN exeBak ELSE exe
  /\ exeBak' = IF stage = "freed" THEN NoBinary ELSE exeBak
  /\ End
  /\ UNCHANGED counts

\* The process is killed, or a failure cannot be undone, which nobody is told;
\* the files stay as they are.
Mishap ==
  /\ stage # "off" /\ mishaps < MaxMishaps
  /\ mishaps' = mishaps + 1
  /\ End
  /\ UNCHANGED <<files, upgrades>>

UpgradeStep == Fetch \/ Clean \/ Prepare \/ Free \/ Place \/ Settle \/ Fail

-------------------------------------------------------------------------------
(* Properties. *)

\* A released binary is the program or lies next to it, unless something else was
\* installed for want of a checksum ("освобождаем имя; старый inode живёт").
BinaryRemains == exe = Bad \/ \E f \in {exe, exeNew, exeBak} : f \in Versions

\* An upgrade that ends, well or not, leaves a program under its name, unless it was
\* killed or not undone ("Откат: возвращаем старый бинарь на место").
NameIsTaken == (stage = "off" /\ mishaps = 0) => exe # NoBinary

\* What was compared with a checksum is what was released ("проверить SHA256").
CheckedIsWhole == (offer.checked /\ stage \in {"prepared", "freed"}) => exeNew # Bad

\* run_upgrade: at every moment, through kills and failures, there is a program to run
\* or to put back, and it is one that was released.
ProgramRemains == BinaryRemains /\ NameIsTaken /\ CheckedIsWhole
==================================================================================
