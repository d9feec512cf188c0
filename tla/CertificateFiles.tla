-------------------------- MODULE CertificateFiles --------------------------
(***************************************************************************)
(* The certificate directory and the two programs that write it: the       *)
(* server, which bootstraps it when it starts (backend/internal/ca/        *)
(* bootstrap.go), and certgen (backend/cmd/certgen/main.go), which may     *)
(* also delete it first and copies the CA to the Android project.  Nothing *)
(* locks the directory, and either may be killed between any two steps.    *)
(*                                                                         *)
(* A process is a slot of Servers or Certgens.  Its program counter:       *)
(*   remove  check  write     delete, look, generate and write             *)
(*   copy                     certgen only: ca.crt to debug_ca.crt         *)
(* and the server's own steps, which are those of ServerProcess.  One      *)
(* bootstrap makes one generation of four files, numbered.                 *)
(***************************************************************************)
EXTENDS Naturals, Sequences, GoMap

CONSTANTS
    Servers, Certgens,  \* processes of each program
    MaxGenerations,     \* bound on bootstraps
    Empty               \* content of a file truncated and not yet written

ASSUME FilesAssumption ==
    /\ MaxGenerations \in Nat /\ Servers \cap Certgens = {}
    /\ Nil # Empty /\ {Nil, Empty} \cap Nat = {}

VARIABLES
    files,        \* the generation each file is of, Empty, or Nil: no file
    debugCA,      \* the same of the Android project's copy of the CA
    generations,  \* bootstraps so far
    pc,           \* where each process is, "idle" when there is none
    at,           \* how far it is in a loop of writes or removals
    gen,          \* the generation it has minted, or what it has read to copy
    finished,     \* history: the generations certgen has made and reported
    overlapped    \* history: a process has changed a file under another's nose

filesVars == <<files, debugCA, generations, pc, at, gen, finished, overlapped>>

Processes == Servers \cup Certgens
Generation == 1..MaxGenerations
Content == Generation \cup {Empty, Nil}

RemoveOrder == <<"ca.crt", "ca.key", "server.crt", "server.key">>
WriteOrder == <<"ca.key", "ca.crt", "server.key", "server.crt">>
Files == {"ca.crt", "ca.key", "server.crt", "server.key"}

FilesTypeOK ==
    /\ files \in [Files -> Content]
    /\ debugCA \in Content
    /\ generations \in 0..MaxGenerations
    /\ DOMAIN pc = Processes
    /\ at \in [Processes -> 0..7]
    /\ gen \in [Processes -> Generation \cup {Empty, Nil}]
    /\ \A p \in Processes : pc[p] = "write" => gen[p] \in Generation
    /\ finished \subseteq Generation
    /\ overlapped \in BOOLEAN

FilesInit ==
    /\ files = [f \in Files |-> Nil]
    /\ debugCA = Nil
    /\ generations = 0
    /\ pc = [p \in Processes |-> "idle"]
    /\ at = [p \in Processes |-> 0]
    /\ gen = [p \in Processes |-> Nil]
    /\ finished = {}
    /\ overlapped = FALSE

Existing == {f \in Files : files[f] # Nil}

-----------------------------------------------------------------------------

Goto(p, step, n, g) ==
    /\ pc' = [pc EXCEPT ![p] = step]
    /\ at' = [at EXCEPT ![p] = n]
    /\ gen' = [gen EXCEPT ![p] = g]

Exit(p) == Goto(p, "idle", 0, Nil)

\* While one of the others is writing, loading or copying, p changes a file.
Overlap(p) ==
    overlapped' = (overlapped \/ \E q \in Processes \ {p} :
                                    pc[q] \in {"write", "load", "copy"})

SetFile(p, f, content) == files' = [files EXCEPT ![f] = content] /\ Overlap(p)

\* ensureCertificates, the server's first act.
StartServer(p) ==
    /\ pc[p] = "idle" /\ p \in Servers
    /\ Goto(p, "check", 0, Nil)
    /\ UNCHANGED <<files, debugCA, generations, finished, overlapped>>

\* certgen leaves an existing set alone, partial ones too, but with -force.
StartCertgen(p) ==
    /\ pc[p] = "idle" /\ p \in Certgens
    /\ Goto(p, IF Existing = {} THEN "check" ELSE "remove", 0, Nil)
    /\ UNCHANGED <<files, debugCA, generations, finished, overlapped>>

Remove(p) ==
    /\ pc[p] = "remove"
    /\ SetFile(p, RemoveOrder[at[p] + 1], Nil)
    /\ IF at[p] = 3 THEN Goto(p, "check", 0, Nil) ELSE Goto(p, "remove", at[p] + 1, Nil)
    /\ UNCHANGED <<debugCA, generations, finished>>

\* A new CA, for the files from the n-th write on.
GenerateCA(p, n) ==
    /\ generations < MaxGenerations
    /\ generations' = generations + 1
    /\ Goto(p, "write", n, generations')

\* What comes after a bootstrap that has succeeded.
AfterBootstrap(p) ==
    Goto(p, IF p \in Servers THEN "load" ELSE "copy", 0, Nil)

CheckKeysOnly(p) ==  \* mutant: certificates alone are no obstacle
    /\ pc[p] = "check"
    /\ \/ Existing = Files /\ AfterBootstrap(p) /\ UNCHANGED generations
       \/ Existing \cap {"ca.key", "server.key"} = {} /\ GenerateCA(p, 0)
    /\ UNCHANGED <<files, debugCA, finished, overlapped>>

CheckRefills(p) ==  \* mutant: keeps a CA that is there, makes a server pair
    /\ pc[p] = "check"
    /\ \/ Existing = Files /\ AfterBootstrap(p) /\ UNCHANGED generations
       \/ /\ Existing # Files
          /\ GenerateCA(p, IF {"ca.crt", "ca.key"} \subseteq Existing THEN 4 ELSE 0)
    /\ UNCHANGED <<files, debugCA, finished, overlapped>>

\* BootstrapCertificates, up to its first write: a complete set is kept
\* whatever is in it, a partial one refused.
Check(p) ==
    /\ pc[p] = "check"
    /\ \/ Existing = Files /\ AfterBootstrap(p) /\ UNCHANGED generations
       \/ Existing \notin {{}, Files} /\ Exit(p) /\ UNCHANGED generations
       \/ Existing = {} /\ GenerateCA(p, 0)
    /\ UNCHANGED <<files, debugCA, finished, overlapped>>

\* os.WriteFile, four times: create or truncate, then write.
Write(p) ==
    /\ pc[p] = "write"
    /\ SetFile(p, WriteOrder[at[p] \div 2 + 1],
               IF at[p] % 2 = 0 THEN Empty ELSE gen[p])
    /\ IF at[p] = 7
       THEN AfterBootstrap(p)
       ELSE Goto(p, "write", at[p] + 1, gen[p])
    /\ UNCHANGED <<debugCA, generations, finished>>

CopyOnce(p) ==  \* mutant: a copy that is there already is kept
    /\ pc[p] = "copy"
    /\ Exit(p)
    /\ debugCA' = IF debugCA = Nil THEN files["ca.crt"] ELSE debugCA
    /\ finished' = finished \cup ({files["ca.crt"]} \cap Generation)
    /\ UNCHANGED <<files, generations, overlapped>>

\* copyAndroidCA, when the target directory exists: read ca.crt, truncate the
\* copy, write it.  Whatever was read is copied, an empty file, too.
Copy(p) ==
    /\ pc[p] = "copy"
    /\ \/ /\ at[p] = 0
          /\ IF files["ca.crt"] # Nil
             THEN Goto(p, "copy", 1, files["ca.crt"])
             ELSE Exit(p)
          /\ UNCHANGED <<debugCA, finished>>
       \/ /\ at[p] = 1
          /\ debugCA' = Empty
          /\ Goto(p, "copy", 2, gen[p])
          /\ UNCHANGED finished
       \/ /\ at[p] = 2
          /\ debugCA' = gen[p]
          /\ finished' = finished \cup ({gen[p]} \cap Generation)
          /\ Exit(p)
    /\ UNCHANGED <<files, generations, overlapped>>

BootstrapStep(p) ==
    \/ StartServer(p)
    \/ StartCertgen(p)
    \/ Remove(p)
    \/ Check(p)
    \/ Write(p)
    \/ Copy(p)

\* "Delete the stale files explicitly to regenerate", between two runs.
OperatorDeletes(f) ==
    /\ files[f] # Nil
    /\ \A p \in Processes : pc[p] = "idle"
    /\ files' = [files EXCEPT ![f] = Nil]
    /\ UNCHANGED <<debugCA, generations, pc, at, gen, finished, overlapped>>
=============================================================================
