-------------------------- MODULE CheckpointTransfer --------------------------
(***************************************************************************)
(* Copying a checkpoint series to independent storage                      *)
(* (scripts/external_validation_checkpoint_transfer.py).  A signed bundle  *)
(* holds the whole series as it was; installing it publishes the files the *)
(* destination lacks, one generation after the other, by hard links that   *)
(* fail when the number is taken.  Bundles of different ages, and of       *)
(* branches when the source was put back, are installed beside each other, *)
(* and an installation may be killed.                                      *)
(*                                                                         *)
(* A checkpoint names its predecessor by its hash, so that it stands for   *)
(* the chain up to it: it is written as that sequence of marks.            *)
(***************************************************************************)
EXTENDS Naturals, Sequences, FiniteSets, SequencesExt

CONSTANTS
    Installers,         \* install-transfer commands
    Marks,              \* what tells checkpoints of one generation apart
    MaxGenerations      \* bound: length of the series

ASSUME TransferAssumption == MaxGenerations \in Nat

VARIABLES
    replica,        \* the destination's files, by number
    debris,         \* a temporary file lies in the destination for good
    install,        \* what each command is doing
    reported        \* the series reported as installed

transferVars == <<replica, debris, install, reported>>

NoInstall == [at |-> "idle"]

TransferInit ==
    /\ replica = <<>> /\ debris = FALSE
    /\ install = [i \in Installers |-> NoInstall] /\ reported = {}

\* Every series that may have been signed: the source grows, and after it
\* was put back it may grow another way.
Bundles == UNION {[1..n -> Marks] : n \in 1..MaxGenerations}

Upto(chain, n) == SubSeq(chain, 1, n)

\* Numbers without a gap, each file naming the one before it.
IsOneChain(files) ==
    /\ DOMAIN files = 1..Cardinality(DOMAIN files)
    /\ \A n \in DOMAIN files :
          /\ Len(files[n]) = n
          /\ n > 1 => files[n - 1] = Front(files[n])

SeriesPasses ==
    /\ ~debris
    /\ \A i \in Installers : install[i].at \notin {"temporary", "linked"}
    /\ IsOneChain(replica)

Holds(chain, n) == \A g \in 1..n : g \in DOMAIN replica /\ replica[g] = Upto(chain, g)

\* Older bundles and branches are refused.
BeginInstall(i, chain) ==
    /\ install[i] = NoInstall
    /\ SeriesPasses
    /\ LET installed == Cardinality(DOMAIN replica)
       IN /\ installed <= Len(chain)
          /\ Holds(chain, installed)
          /\ install' = [install EXCEPT ![i] =
                            [at |-> "installing", chain |-> chain, next |-> installed + 1]]
    /\ UNCHANGED <<replica, debris, reported>>

NextGeneration(i) == install' = [install EXCEPT ![i].at = "installing", ![i].next = @ + 1]
Fails(i) == install' = [install EXCEPT ![i] = NoInstall]

\* A file that is there has to be the same; otherwise a temporary one is
\* written beside it.
LookAtDestination(i) ==
    /\ install[i].at = "installing" /\ install[i].next <= Len(install[i].chain)
    /\ LET g == install[i].next
       IN IF g \in DOMAIN replica
          THEN IF replica[g] = Upto(install[i].chain, g) THEN NextGeneration(i) ELSE Fails(i)
          ELSE install' = [install EXCEPT ![i].at = "temporary"]
    /\ UNCHANGED <<replica, debris, reported>>

\* Mutant: a number that is taken is taken for the same file.
LinkGeneration_M(i) ==
    /\ install[i].at = "temporary"
    /\ LET g == install[i].next
       IN replica' = IF g \in DOMAIN replica THEN replica
                     ELSE [n \in DOMAIN replica \cup {g} |->
                              IF n = g THEN Upto(install[i].chain, g) ELSE replica[n]]
    /\ install' = [install EXCEPT ![i].at = "linked"]
    /\ UNCHANGED <<debris, reported>>

\* The link finds the number taken when another installation was faster.
LinkGeneration(i) ==
    /\ install[i].at = "temporary"
    /\ LET g == install[i].next
           file == Upto(install[i].chain, g)
       IN IF g \in DOMAIN replica
          THEN /\ UNCHANGED replica
               /\ IF replica[g] = file THEN install' = [install EXCEPT ![i].at = "linked"]
                                       ELSE Fails(i)
          ELSE /\ replica' = [n \in DOMAIN replica \cup {g} |-> IF n = g THEN file ELSE replica[n]]
               /\ install' = [install EXCEPT ![i].at = "linked"]
    /\ UNCHANGED <<debris, reported>>

DropTemporary(i) ==
    /\ install[i].at = "linked" /\ NextGeneration(i)
    /\ UNCHANGED <<replica, debris, reported>>

\* The destination has to verify and to contain the whole bundle.
EndInstall(i) ==
    /\ install[i].at = "installing" /\ install[i].next > Len(install[i].chain)
    /\ reported' = IF SeriesPasses /\ Holds(install[i].chain, Len(install[i].chain))
                   THEN reported \cup {install[i].chain} ELSE reported
    /\ Fails(i)
    /\ UNCHANGED <<replica, debris>>

KillInstall(i) ==
    /\ install[i] # NoInstall
    /\ debris' = (debris \/ install[i].at \in {"temporary", "linked"})
    /\ Fails(i)
    /\ UNCHANGED <<replica, reported>>

RemoveDebris ==
    /\ debris /\ debris' = FALSE
    /\ UNCHANGED <<replica, install, reported>>

TransferNext ==
    \/ \E i \in Installers :
          \/ \E chain \in Bundles : BeginInstall(i, chain)
          \/ LookAtDestination(i) \/ LinkGeneration(i) \/ DropTemporary(i)
          \/ EndInstall(i) \/ KillInstall(i)
    \/ RemoveDebris

TransferSpec == TransferInit /\ [][TransferNext]_transferVars

-----------------------------------------------------------------------------
\* However installations of older, newer and branching bundles interleave,
\* and wherever they are killed, the destination holds one chain, and every
\* series that was reported as installed is still its beginning.
ReplicaIsOneChain ==
    /\ IsOneChain(replica)
    /\ \A chain \in reported : Holds(chain, Len(chain))
=============================================================================
