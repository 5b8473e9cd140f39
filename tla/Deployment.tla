----------------------------- MODULE Deployment -----------------------------
(***************************************************************************)
(* src/deploy/deploy-pet-ring.sh: versions are pushed to origin, and runs  *)
(* of the script, which may overlap or be killed at any line, bring them   *)
(* into the container, whose process is the one of Migration.              *)
(*                                                                         *)
(* A version is the number of a commit, an image the version it was built  *)
(* from, 0 an image that does not exist.  Commands the script runs are     *)
(* external: any of them may fail, a rollback's and an undoing one too,    *)
(* and what set -e, an if or || true makes of that is what is modelled.  A *)
(* command that fails has done nothing, but for docker compose up.  origin *)
(* only moves forward.                                                     *)
(***************************************************************************)
EXTENDS Migration

CONSTANTS
  Scripts,        \* bound: runs of the script at a time
  LastVersion,    \* bound: versions ever pushed
  FirstPresent    \* the first version with the present server

ASSUME DeploymentAssumption ==
  /\ LastVersion \in Nat \ {0}
  /\ FirstPresent \in 1..LastVersion

VARIABLES
  origin,     \* origin/main
  head,       \* the checked-out version
  image,      \* pet-ring:local
  rollback,   \* pet-ring:rollback
  container,  \* the image the container was created from
  lock,       \* the scripts that hold the lock file
  line,       \* per script, where it is
  old, new,   \* per script, OLD_REVISION and new_revision
  served,     \* history: the images that have served
  lost        \* history: what the runs since the last success may have failed
              \* to put back

checkout == <<origin, head>>
docker   == <<image, rollback, container>>
script   == <<lock, line, old, new>>
vars == <<process, database, player, checkout, docker, script, served, lost>>

None   == 0
Images == 0..LastVersion

VersionOf(img) == IF img < FirstPresent THEN "earlier" ELSE "present"

Lines == {"start", "fetch", "tag", "merge", "config", "build", "up", "health",
          "rollback", "find", "restore", "reup", "succeeded"}

Parts == {"code", "image", "container"}

-----------------------------------------------------------------------------
(* The script.                                                             *)

Goto(s, next) == line' = [line EXCEPT ![s] = next]

\* The script ends, and its variables and its lock with it.
Exit(s, result) ==
  /\ Goto(s, result)
  /\ lock' = lock \ {s}
  /\ old' = [old EXCEPT ![s] = None]
  /\ new' = [new EXCEPT ![s] = None]

Proceed(s, next) == Goto(s, next) /\ UNCHANGED <<lock, old, new>>

outside == <<process, database, player, served>>

\* Slip: the lock is taken even if another run has it.
MayLockAlways == TRUE

\* flock -n
MayLock == lock = {}

\* main, up to the revision to come back to: the checkout is never dirty.
Begin(s) ==
  /\ line[s] \in {"start", "succeeded"}
  /\ MayLock
  /\ lock' = lock \cup {s}
  /\ old' = [old EXCEPT ![s] = head]
  /\ Goto(s, "fetch")
  /\ UNCHANGED <<outside, checkout, docker, new, lost>>

Fetch(s) ==
  /\ line[s] = "fetch"
  /\ \/ /\ new' = [new EXCEPT ![s] = origin]
        /\ Goto(s, "tag")
        /\ UNCHANGED <<lock, old>>
     \/ Exit(s, "start")
  /\ UNCHANGED <<outside, checkout, docker, lost>>

\* The tag is only set if docker image inspect finds the image, and an inspect
\* that fails is an image that is not there.
Tag(s) ==
  /\ line[s] = "tag"
  /\ \/ /\ image # None
        /\ rollback' = image
        /\ Proceed(s, "merge")
        /\ UNCHANGED lost
     \/ /\ lost' = IF image = None THEN lost ELSE lost \cup {"image"}
        /\ Proceed(s, "merge")
        /\ UNCHANGED rollback
     \/ Exit(s, "start") /\ UNCHANGED <<rollback, lost>>
  /\ UNCHANGED <<outside, checkout, image, container>>

Merge(s) ==
  /\ line[s] = "merge"
  /\ \/ head' = new[s] /\ Proceed(s, "config")
     \/ UNCHANGED head /\ Exit(s, "start")
  /\ UNCHANGED <<outside, origin, docker, lost>>

\* git reset --hard, done or not.
ResetCode(s) ==
  \/ head' = old[s] /\ UNCHANGED lost
  \/ UNCHANGED head /\ lost' = lost \cup {"code"}

\* Slip: the code stays at the version that failed.
GiveUpOnly(s) ==
  /\ UNCHANGED <<head, lost>>
  /\ Exit(s, "start")

\* The reset, and fail; or set -e ends the run where the reset fails.
GiveUp(s) ==
  /\ ResetCode(s)
  /\ Exit(s, "start")

Config(s) ==
  /\ line[s] = "config"
  /\ \/ Proceed(s, "build") /\ UNCHANGED <<head, lost>>
     \/ GiveUp(s)
  /\ UNCHANGED <<outside, origin, docker>>

\* Slip: the image to go back to is tagged once the new one is built.
BuildThenTag(s) ==
  /\ line[s] = "build"
  /\ \/ image' = head /\ rollback' = head /\ Proceed(s, "up") /\ UNCHANGED <<head, lost>>
     \/ UNCHANGED <<image, rollback>> /\ GiveUp(s)
  /\ UNCHANGED <<outside, origin, container>>

Build(s) ==
  /\ line[s] = "build"
  /\ \/ image' = head /\ Proceed(s, "up") /\ UNCHANGED <<head, lost>>
     \/ UNCHANGED image /\ GiveUp(s)
  /\ UNCHANGED <<outside, origin, rollback, container>>

\* docker compose up --force-recreate: the old process ends, and the new
\* container's begins.  It may fail before the old container is removed, after
\* that, or with a new one that does not start.
Recreate ==
  /\ container' = image
  /\ phase' = "table" /\ version' = VersionOf(image)

RecreateFails ==
  \/ UNCHANGED <<container, process>>
  \/ container' \in {None, image} /\ phase' = "down" /\ UNCHANGED version

Up(s) ==
  /\ line[s] = "up"
  /\ \/ Recreate /\ Proceed(s, "health")
     \/ RecreateFails /\ Proceed(s, "rollback")
  /\ UNCHANGED <<database, player, checkout, image, rollback, served, lost>>

\* Twenty attempts may be too few for a server that would get there.
Health(s) ==
  /\ line[s] = "health"
  /\ \/ phase = "serving" /\ Exit(s, "succeeded") /\ lost' = {}
     \/ Proceed(s, "rollback") /\ UNCHANGED lost
  /\ UNCHANGED <<outside, checkout, docker>>

\* rollback runs under || true: no failure in it ends it early.
RollbackCode(s) ==
  /\ line[s] = "rollback"
  /\ ResetCode(s)
  /\ Proceed(s, "find")
  /\ UNCHANGED <<outside, origin, docker>>

\* Again an inspect that fails is an image that is not there: the rollback is
\* over, and the container stays as it is.
FindImage(s) ==
  /\ line[s] = "find"
  /\ \/ rollback # None /\ Proceed(s, "restore") /\ UNCHANGED lost
     \/ Exit(s, "start") /\ lost' = lost \cup {"image"}
  /\ UNCHANGED <<outside, checkout, docker>>

RestoreImage(s) ==
  /\ line[s] = "restore"
  /\ \/ image' = rollback /\ UNCHANGED lost
     \/ UNCHANGED image /\ lost' = lost \cup {"image"}
  /\ Proceed(s, "reup")
  /\ UNCHANGED <<outside, checkout, rollback, container>>

\* Its health check decides nothing any more: fail follows either way.
UpAgain(s) ==
  /\ line[s] = "reup"
  /\ \/ Recreate /\ UNCHANGED lost
     \/ RecreateFails /\ lost' = lost \cup {"container"}
  /\ Exit(s, "start")
  /\ UNCHANGED <<database, player, checkout, image, rollback, served>>

\* What a run may have changed and not put back at a line of it.
Changed(at) ==
  CASE at \in {"fetch", "tag", "merge"} -> {}
    [] at \in {"config", "build"}       -> {"code"}
    [] OTHER                            -> Parts

\* The connection drops, the job is cancelled, the host goes down.
Killed(s) ==
  /\ s \in lock
  /\ Exit(s, "start")
  /\ lost' = lost \cup Changed(line[s])
  /\ UNCHANGED <<outside, checkout, docker>>

Script(s) ==
  \/ Begin(s) \/ Fetch(s) \/ Tag(s) \/ Merge(s) \/ Config(s) \/ Build(s)
  \/ Up(s) \/ Health(s)
  \/ RollbackCode(s) \/ FindImage(s) \/ RestoreImage(s) \/ UpAgain(s)
  \/ Killed(s)

-----------------------------------------------------------------------------
(* The rest of the world.                                                  *)

Push ==
  /\ origin < LastVersion
  /\ origin' = origin + 1
  /\ UNCHANGED <<outside, head, docker, script, lost>>

others == <<checkout, docker, script, lost>>

\* restart: unless-stopped
Restart ==
  /\ container # None
  /\ Launch(VersionOf(container))
  /\ UNCHANGED <<others, served>>

\* The steps of the server; that of a broken version never takes the last.
Process ==
  /\ Start \/ Crash
  /\ served' = IF phase' = "serving" THEN served \cup {container} ELSE served
  /\ UNCHANGED others

Players == Player /\ UNCHANGED <<others, served>>

Init ==
  /\ MigrationInit
  /\ origin = 1 /\ head = 1
  /\ image = None /\ rollback = None /\ container = None
  /\ lock = {} /\ line = [s \in Scripts |-> "start"]
  /\ old = [s \in Scripts |-> None] /\ new = [s \in Scripts |-> None]
  /\ served = {} /\ lost = {}

Next ==
  \/ \E s \in Scripts : Script(s)
  \/ Push
  \/ Restart
  \/ Process
  \/ Players

Spec == Init /\ [][Next]_vars

-----------------------------------------------------------------------------
(* Safety.                                                                 *)

TypeOK ==
  /\ MigrationTypeOK
  /\ origin \in 1..LastVersion /\ head \in 1..LastVersion
  /\ image \in Images /\ rollback \in Images /\ container \in Images
  /\ lock \subseteq Scripts
  /\ line \in [Scripts -> Lines]
  /\ old \in [Scripts -> Images] /\ new \in [Scripts -> Images]
  /\ served \subseteq 1..LastVersion
  /\ lost \subseteq Parts

\* A run reports success only when the version it fetched is checked out,
\* built, and in the container that answered (deploy-pet-ring.sh:70-109),
\* however many runs are started.
SuccessMeansDeployed ==
  [][\A s \in Scripts :
       line'[s] = "succeeded" /\ line[s] # "succeeded" =>
         /\ phase = "serving"
         /\ head = new[s] /\ image = new[s] /\ container = new[s]]_vars

\* Between runs the checkout is the revision of the image, and the container
\* is of the image: what a run changed before a command of it failed, it puts
\* back (deploy-pet-ring.sh:46-54, 80-107).  That is true of the runs since the
\* last success, whose success makes up for anything before it, and each half
\* only as long as no command that keeps or puts back its own parts failed and
\* no run was killed that had changed them.  A rollback without an image to go
\* back to, as in a first deployment that fails, counts as the image not put
\* back.
IdleConsistent ==
  lock = {} =>
    /\ lost \cap {"code", "image"} = {} /\ image # None => head = image
    /\ lost \cap {"image", "container"} = {} => container = image

\* The image a rollback brings back has served (deploy-pet-ring.sh:6, 80-82,
\* 48-53), as long as every run since the last success had, found and put back
\* an image where it needed one, and none was killed that had built another.
\* Otherwise the image to go back to may be one that never served, and no run
\* need be killed for that: what a first deployment leaves that failed its
\* health check is tagged by the next run.
RollbackImageServed ==
  "image" \notin lost => \A s \in Scripts : line[s] = "restore" => rollback \in served
=============================================================================
