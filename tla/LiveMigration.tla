---------------------------- MODULE LiveMigration ----------------------------
(***************************************************************************)
(* server/migrate-live.js: the import of one Live slot and one of its      *)
(* restream destinations, run and run again by an operator while the API   *)
(* serves.  A run reads Live and its own migration_map, creates what is    *)
(* missing and records it, one statement or transaction at a time; it may  *)
(* be interrupted anywhere, and the next run starts from the tables.       *)
(***************************************************************************)
EXTENDS StreamApi

CONSTANTS Imported,         \* the slot that is imported
          MaxCopies,        \* bound: destinations the runs ever create
          MaxInterruptions  \* bound: runs that do not reach their end

ASSUME MigrationAssumption ==
  Imported \in Slot /\ MaxCopies \in Nat /\ MaxInterruptions \in Nat

VARIABLES live,        \* what Live's database says
          slotMap,     \* the migration_map row of the slot
          destMap,     \* the destination its migration_map row names
          copies,      \* the destinations created for it that exist
          made,        \* how many were created
          run,         \* where a run is
          interruptions

migration == <<live, slotMap, destMap, copies, made, run, interruptions>>

Copy == 1..MaxCopies
NoCopy == 0

\* subject, banned  of the slot's user;  bound  the destination is the slot's own, or
\* the user has no other slot.  A URL that breaks the rules changes what is created.
Live == [subject : BOOLEAN, banned : BOOLEAN, bound : BOOLEAN]
Status == {"none", "held", "excluded", "imported"}
Steps == {"off", "slot", "finding", "creating", "recording", "destination", "copying", "copied"}

\* slot: the status the entry has in this run.  target: its definition.
Run == [step : Steps, slot : Status, target : Stream \cup {NoStream}]
NoRun == [step |-> "off", slot |-> "none", target |-> NoStream]

MigrationTypeOK ==
  /\ live \in Live
  /\ slotMap \in [status : Status, target : Stream \cup {NoStream}]
  /\ destMap \in Copy \cup {NoCopy}
  /\ copies \subseteq Copy /\ made \in 0..MaxCopies
  /\ run \in Run
  /\ interruptions \in 0..MaxInterruptions

MigrationInit ==
  /\ live \in Live
  /\ slotMap = [status |-> "none", target |-> NoStream]
  /\ destMap = NoCopy
  /\ copies = {} /\ made = 0 /\ run = NoRun /\ interruptions = 0

Runs(step) == run.step = step
Elsewhere == UNCHANGED <<key, session, now, request, publish>>

StartRun ==
  /\ Runs("off") /\ Asks
  /\ run' = [NoRun EXCEPT !.step = "slot"]
  /\ UNCHANGED <<definition, live, slotMap, destMap, copies, made, interruptions>> /\ Elsewhere

\* The slot was imported before, is held or excluded, or is imported now.
Slot1 ==
  /\ Runs("slot")
  /\ IF slotMap.status = "imported"
     THEN /\ run' = [step |-> "destination", slot |-> "imported", target |-> slotMap.target]
          /\ UNCHANGED slotMap
     ELSE IF live.subject /\ ~live.banned
     THEN run' = [run EXCEPT !.step = "finding"] /\ UNCHANGED slotMap
     ELSE LET status == IF live.subject THEN "excluded" ELSE "held" IN
          /\ slotMap' = [status |-> status, target |-> NoStream]
          /\ run' = [step |-> "destination", slot |-> status, target |-> NoStream]
  /\ UNCHANGED <<definition, asked, live, destMap, copies, made, interruptions>> /\ Elsewhere

\* findByRef: a definition that is not archived, if there is one.
Find ==
  /\ Runs("finding")
  /\ IF holders(Imported) = {} THEN run' = [run EXCEPT !.step = "creating"]
     ELSE \E s \in holders(Imported) :
            /\ (\E t \in holders(Imported) : ~Archived(t)) => ~Archived(s)
            /\ run' = [run EXCEPT !.step = "recording", !.target = s]
  /\ UNCHANGED <<definition, asked, live, slotMap, destMap, copies, made, interruptions>> /\ Elsewhere

\* create: a slot that was taken since ends the run (409).
Create ==
  /\ Runs("creating")
  /\ IF refTaken(Imported, NoStream)
     THEN run' = NoRun /\ UNCHANGED <<definition, key>>
     ELSE \E s \in Stream : /\ create(s, TRUE, {Imported})
                            /\ run' = [run EXCEPT !.step = "recording", !.target = s]
  /\ UNCHANGED <<session, now, request, publish, asked, live, slotMap, destMap, copies, made,
                 interruptions>>

Record ==
  /\ Runs("recording")
  /\ slotMap' = [status |-> "imported", target |-> run.target]
  /\ run' = [run EXCEPT !.step = "destination", !.slot = "imported"]
  /\ UNCHANGED <<definition, asked, live, destMap, copies, made, interruptions>> /\ Elsewhere

\* Mutant of Destination: whether its row exists is not looked up in the map.
DestinationAnew ==
  /\ Runs("destination")
  /\ run' = IF run.slot = "imported" THEN [run EXCEPT !.step = "copying"] ELSE NoRun
  /\ UNCHANGED <<definition, asked, live, slotMap, destMap, copies, made, interruptions>> /\ Elsewhere

\* The destination: it exists, is held, or is created now.
Destination ==
  /\ Runs("destination")
  /\ IF destMap \in copies THEN run' = NoRun /\ UNCHANGED destMap
     ELSE IF live.bound /\ run.slot = "imported"
     THEN run' = [run EXCEPT !.step = "copying"] /\ UNCHANGED destMap
     ELSE run' = NoRun /\ destMap' = NoCopy
  /\ UNCHANGED <<definition, asked, live, slotMap, copies, made, interruptions>> /\ Elsewhere

\* A destination d of the definition s; an archived one takes none.  The limit on
\* destinations per stream is left out.
createDestination(s, d) == ~Archived(s) /\ copies' = copies \cup {d}

\* A refusal ends the run.
CopyDestination ==
  /\ Runs("copying")
  /\ \/ Archived(run.target) /\ run' = NoRun /\ UNCHANGED <<copies, made>>
     \/ /\ made < MaxCopies /\ made' = made + 1
        /\ createDestination(run.target, made + 1)
        /\ run' = [run EXCEPT !.step = "copied"]
  /\ UNCHANGED <<definition, asked, live, slotMap, destMap, interruptions>> /\ Elsewhere

RecordCopy ==
  /\ Runs("copied")
  /\ destMap' = made
  /\ run' = NoRun
  /\ UNCHANGED <<definition, asked, live, slotMap, copies, made, interruptions>> /\ Elsewhere

Interrupt ==
  /\ ~Runs("off")
  /\ interruptions < MaxInterruptions /\ interruptions' = interruptions + 1
  /\ run' = NoRun
  /\ UNCHANGED <<definition, asked, live, slotMap, destMap, copies, made>> /\ Elsewhere

\* The user signs in to Live, which records the subject; the owner deletes the destination here.
SignIn ==
  /\ ~live.subject
  /\ live' = [live EXCEPT !.subject = TRUE]
  /\ UNCHANGED <<definition, asked, slotMap, destMap, copies, made, run, interruptions>> /\ Elsewhere

DeleteCopy ==
  /\ copies # {} /\ Asks
  /\ \E d \in copies : copies' = copies \ {d}
  /\ UNCHANGED <<definition, live, slotMap, destMap, made, run, interruptions>> /\ Elsewhere

Migrate ==
  \/ StartRun \/ Slot1 \/ Find \/ Create \/ Record
  \/ Destination \/ CopyDestination \/ RecordCopy
  \/ Interrupt \/ SignIn \/ DeleteCopy

=============================================================================
