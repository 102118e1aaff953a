--------------------------- MODULE CredentialFiles ---------------------------
(***************************************************************************)
(* The reader of mounted client credentials (adapters/credentialfile).     *)
(* Before a code exchange or a refresh it opens the file of the client     *)
(* identifier and that of the secret, reads both, and looks at both paths  *)
(* again; an authorization only needs the identifier.  Meanwhile the       *)
(* provider of the files publishes new generations: complete pairs, in one *)
(* step, through files that were not there before.  A file may be missing, *)
(* closed to the broker, or hold what the reader refuses.                  *)
(***************************************************************************)
EXTENDS Naturals, FiniteSets

VARIABLES
  generation, \* the generation both paths lead to
  defects,    \* what is wrong with the file of the current generation behind a path
  reading,    \* the acquisition in progress
  descriptors \* the files it holds open

fileVars == <<generation, defects, reading, descriptors>>

Paths == {"id", "secret"}
\* found by opening it, by inspecting the open file, and by reading it
OpenDefects == {"not_found", "permission_denied"}
TargetDefects == {"not_regular", "too_large"}
ValueDefects == {"empty", "read_failed"}
Defects == OpenDefects \cup TargetDefects \cup ValueDefects
Sound == [p \in Paths |-> ""]

\* The generation each path was opened in and what was wrong with that file; what is returned.
Acquisition == [pc : {"idle", "open", "read", "stat", "done"}, pair : BOOLEAN, next : Paths,
                opened : [Paths -> Nat], flaw : [Paths -> Defects \cup {""}],
                error : Defects \cup {"", "generation_changed"}, since : Nat]
NotReading == [pc |-> "idle", pair |-> FALSE, next |-> "id", opened |-> [p \in Paths |-> 0], flaw |-> Sound,
               error |-> "", since |-> 0]

\* Every way out closes what is open; with an error neither value is returned.
Return(error) ==
  /\ reading' = [reading EXCEPT !.pc = "done", !.error = error]
  /\ descriptors' = {}

ReadClientID ==
  /\ reading.pc \in {"idle", "done"}
  /\ reading' = [NotReading EXCEPT !.pc = "open", !.since = generation]
  /\ UNCHANGED <<generation, defects, descriptors>>
ReadPair ==
  /\ reading.pc \in {"idle", "done"}
  /\ reading' = [NotReading EXCEPT !.pc = "open", !.pair = TRUE, !.since = generation]
  /\ UNCHANGED <<generation, defects, descriptors>>

\* Both files are open before either is read.
AfterOpen(p) == IF reading.pair /\ p = "id" THEN "open" ELSE "read"
openCredential ==
  LET p == reading.next
  IN  /\ reading.pc = "open"
      /\ IF defects[p] \in OpenDefects \cup TargetDefects THEN Return(defects[p])
         ELSE /\ reading' = [reading EXCEPT !.opened[p] = generation, !.flaw[p] = defects[p],
                               !.pc = AfterOpen(p), !.next = IF AfterOpen(p) = "open" THEN "secret" ELSE "id"]
              /\ descriptors' = descriptors \cup {p}
      /\ UNCHANGED <<generation, defects>>

\* Both values, or the identifier alone, whose target is not looked at again.
readValue ==
  LET p == reading.next
  IN  /\ reading.pc = "read"
      /\ IF reading.flaw[p] # "" THEN Return(reading.flaw[p])
         ELSE IF ~reading.pair THEN Return("")
         ELSE /\ reading' = [reading EXCEPT !.pc = IF p = "id" THEN "read" ELSE "stat",
                                            !.next = IF p = "id" THEN "secret" ELSE "id"]
              /\ UNCHANGED descriptors
      /\ UNCHANGED <<generation, defects>>

\* Mutant: only the path of the secret is compared with the open file.
SameFile_Secret(p) == p = "id" \/ reading.opened[p] = generation
SameFile(p) == reading.opened[p] = generation

\* What is wrong with a path after both reads.
Restat(p) ==
  IF defects[p] \in OpenDefects THEN defects[p] ELSE IF SameFile(p) THEN "" ELSE "generation_changed"

\* The paths are looked at one after the other; a missing one is reported before a changed one.
finishPair ==
  LET found == Restat(reading.next)
  IN  /\ reading.pc = "stat"
      /\ IF reading.next = "id" /\ found \notin OpenDefects
         THEN reading' = [reading EXCEPT !.next = "secret", !.error = found] /\ UNCHANGED descriptors
         ELSE Return(IF found = "" THEN reading.error ELSE found)
      /\ UNCHANGED <<generation, defects>>

FileStep == openCredential \/ readValue \/ finishPair

(* A complete new pair behind both paths, sound or with one bad file.      *)
Publication(last) ==
  /\ generation < last
  /\ generation' = generation + 1
  /\ \E p \in Paths, d \in Defects \cup {""} : defects' = [Sound EXCEPT ![p] = d]
  /\ UNCHANGED <<reading, descriptors>>
\* A published file becomes unreachable.
FileLost ==
  /\ defects = Sound
  /\ \E p \in Paths, d \in OpenDefects : defects' = [defects EXCEPT ![p] = d]
  /\ UNCHANGED <<generation, reading, descriptors>>

FileInit ==
  /\ generation = 1 /\ reading = NotReading /\ descriptors = {}
  /\ \E p \in Paths, d \in Defects \cup {""} : defects = [Sound EXCEPT ![p] = d]
FileNext(last) == ReadClientID \/ ReadPair \/ FileStep \/ Publication(last) \/ FileLost
FileSpec(last) == FileInit /\ [][FileNext(last)]_fileVars

(* ------------------------------ properties ----------------------------- *)

Acquired == reading.pc = "done" /\ reading.error = ""

(* An acquisition has its shape; it holds files open only while it runs,   *)
(* whichever way it ends.                                                  *)
FileTypeInvariant ==
  /\ generation \in Nat /\ defects \in [Paths -> Defects \cup {""}]
  /\ reading \in Acquisition /\ descriptors \subseteq Paths
  /\ reading.pc \in {"idle", "done"} => descriptors = {}

(* An exchange or a refresh authenticates with an identifier and a secret  *)
(* of one generation, which was published at some moment of the            *)
(* acquisition, wherever in ReadPair publications fall.                    *)
PairIsOfOneGeneration ==
  Acquired /\ reading.pair =>
    /\ reading.opened["id"] = reading.opened["secret"]
    /\ reading.opened["id"] \in reading.since..generation

(* ReadPair reports a change of generation only when there was one while   *)
(* it ran: rotation is the only reason to give up on a sound pair.         *)
ChangeIsReal ==
  reading.pc = "done" /\ reading.error = "generation_changed" => generation > reading.since

=============================================================================
