---------------------------------- MODULE Pal ----------------------------------
(***************************************************************************)
(* commit, commit_readonly, decommit and zero of pal_linux and pal_apple,  *)
(* with what they inherit of pal_posix: one block of memory, one thread,   *)
(* one step per system call.  Any of them may fail, and leaves the block   *)
(* as it was then (for reserve_aligned see Range); memory that has been    *)
(* advised away loses its contents at any time.                            *)
(***************************************************************************)
EXTENDS Integers

Systems == {"linux", "apple"}

Errnos == {"0", "EAGAIN", "EINVAL", "ENOMEM"}

VARIABLES
  system,   \* which of them has been compiled
  prot,     \* of the pages
  content,  \* "zero" or "data"
  reusable, \* whether the kernel may take the contents
  errno,
  pc, op,   \* where the thread is, and in which call
  kept,     \* the errno of the caller, which keep_errno stores
  zeroed,   \* history: the last call was to leave zeros, not written since
  failed    \* history: the steps of the last call whose system call failed

vars == <<system, prot, content, reusable, errno, pc, op, kept, zeroed, failed>>

Init == /\ system \in Systems
        /\ prot = "none" /\ content = "zero" /\ reusable = FALSE
        /\ errno \in Errnos /\ kept = errno
        /\ pc = "idle" /\ op = "none" /\ zeroed = FALSE /\ failed = {}

(* The order of the system calls in each function. *)
First ==
  [commit |-> "protect",
   commit_zero |-> IF system = "apple" THEN "map" ELSE "protect",
   commit_readonly |-> "protect",
   decommit |-> "advise",
   zero |-> IF system = "linux" THEN "clear" ELSE "zero",
   zero_large |-> IF system = "linux" THEN "dont_need" ELSE "zero",
   zero_part |-> "clear"]

AfterProtect ==
  CASE op \in {"commit", "commit_zero"} /\ system = "apple" -> "advise"
    [] op = "commit_zero" /\ system = "linux" -> "zero"
    [] OTHER -> "return"

(* Mutation: pal_apple::commit forgets that zeros are asked for when it    *)
(* cannot map them.                                                        *)
AfterAdvise_plain == IF op = "decommit" THEN "protect" ELSE "return"

AfterAdvise ==
  CASE op = "decommit" -> "protect" [] op = "commit_zero" -> "zero" [] OTHER -> "return"

Keeps == \/ system = "linux" /\ op = "decommit"
         \/ system = "apple" /\ op \in {"commit", "commit_zero"}

(* A call begins.  Who zeroes memory by a call of its own can access it.   *)
Call(o) ==
  /\ pc = "idle"
  /\ o \in {"zero", "zero_large", "zero_part"} => prot = "write"
  /\ pc' = First[o] /\ op' = o
  /\ kept' = errno /\ zeroed' = FALSE /\ failed' = {}
  /\ UNCHANGED <<system, prot, content, reusable, errno>>

GoOn(next) == pc' = next /\ UNCHANGED <<system, op, zeroed, kept, failed>>

(* The system call fails, and the code goes on. *)
Fails(next) ==
  /\ pc' = next /\ failed' = failed \cup {pc}
  /\ UNCHANGED <<system, prot, content, reusable, op, zeroed, kept>>

(* mmap with MAP_FIXED: new pages, or none.  In commit of pal_apple ...    *)
Map == /\ pc = "map"
       /\ \/ /\ prot' = "write" /\ content' = "zero" /\ reusable' = FALSE
             /\ GoOn("return") /\ UNCHANGED errno
          \/ errno' = "ENOMEM" /\ Fails("protect")

(* ... and in pal_posix::zero, which has its own keep_errno, and clears    *)
(* the memory itself if it has to.                                         *)
Zero == /\ pc = "zero"
        /\ \/ /\ prot' = "write" /\ content' = "zero" /\ reusable' = FALSE
              /\ GoOn("return") /\ UNCHANGED errno
           \/ Fails("clear") /\ UNCHANGED errno

(* bzero of memory that cannot be accessed ends the program.               *)
Faulted == pc = "clear" /\ prot # "write"

(* bzero *)
Clear == /\ pc = "clear" /\ ~Faulted
         /\ content' = "zero" /\ reusable' = FALSE
         /\ GoOn("return")
         /\ UNCHANGED <<prot, errno>>

(* mprotect, whose result nobody looks at. *)
Protect ==
  /\ pc = "protect"
  /\ \/ /\ prot' = CASE op = "decommit" -> "none"
                      [] op = "commit_readonly" -> "read"
                      [] OTHER -> "write"
        /\ GoOn(AfterProtect)
        /\ UNCHANGED <<content, reusable, errno>>
     \/ errno' = "ENOMEM" /\ Fails(AfterProtect)

(* madvise succeeds ... *)
Advised == /\ reusable' = (op = "decommit")
           /\ GoOn(AfterAdvise)
           /\ UNCHANGED <<prot, content, errno>>

(* Mutation: errno is tested, not the result. *)
AdviseEnds_errno == /\ errno # "EAGAIN"
                    /\ Advised \/ (errno' = "EINVAL" /\ Fails(AfterAdvise))

(* ... or fails for good ... *)
AdviseEnds == Advised \/ (errno' = "EINVAL" /\ Fails(AfterAdvise))

Advise == pc = "advise" /\ AdviseEnds

(* ... or is to be called again: pal_apple does, pal_linux goes on.        *)
AdviseAgain ==
  /\ pc = "advise"
  /\ errno' = "EAGAIN"
  /\ Fails(IF system = "apple" THEN "advise" ELSE AfterAdvise)

(* MADV_DONTNEED in pal_linux::zero, for more than 16 pages: its result is *)
(* not looked at either, and where it fails the contents stay.             *)
DontNeed == /\ pc = "dont_need"
            /\ \/ /\ content' = "zero" /\ reusable' = FALSE
                  /\ GoOn("return")
                  /\ UNCHANGED <<prot, errno>>
               \/ errno' = "EINVAL" /\ Fails("return")

(* The call returns, and ~keep_errno restores errno. *)
Return == /\ pc = "return" /\ pc' = "idle"
          /\ errno' = (IF Keeps THEN kept ELSE errno)
          /\ zeroed' = (op \in {"commit_zero", "zero", "zero_large", "zero_part"})
          /\ UNCHANGED <<system, prot, content, reusable, op, kept, failed>>

(* The caller writes to the memory, or sets errno. *)
Use == /\ pc = "idle"
       /\ \/ /\ prot = "write"
             /\ content' = "data" /\ reusable' = FALSE /\ zeroed' = FALSE
             /\ UNCHANGED errno
          \/ errno' \in Errnos /\ UNCHANGED <<content, reusable, zeroed>>
       /\ op' = "none" /\ kept' = errno'
       /\ UNCHANGED <<system, prot, pc, failed>>

(* The kernel takes what it may. *)
Discard == /\ reusable /\ content' = "zero"
           /\ UNCHANGED <<system, prot, reusable, errno, pc, op, kept, zeroed, failed>>

(* A program that has ended takes no more steps.                           *)
Terminating == Faulted /\ UNCHANGED vars

Step == Map \/ Zero \/ Clear \/ Protect \/ Advise \/ DontNeed \/ Return

Next == \/ \E o \in DOMAIN First : Call(o)
        \/ Step \/ AdviseAgain
        \/ Use \/ Discard \/ Terminating

Spec == Init /\ [][Next]_vars

(* A thread in a call keeps running, and madvise does not say EAGAIN for   *)
(* ever.                                                                   *)
FairSpec == Spec /\ WF_vars(Step)

-----------------------------------------------------------------------------
(* commit<YesZero> and zero leave zeros one can write to, by whichever way *)
(* is left when system calls fail, and whatever was there before: no call  *)
(* of them returns otherwise, but for the zero of pal_linux when its       *)
(* MADV_DONTNEED fails.                                                    *)
ZerosAreZero == zeroed => prot = "write" /\ (content = "zero" \/ "dont_need" \in failed)

(* commit of pal_apple and decommit of pal_linux, which have a keep_errno, *)
(* never change the errno of their caller; the other calls, decommit of    *)
(* pal_apple among them, only after an mprotect or madvise of theirs has   *)
(* failed, not when the mmap of pal_posix::zero has.                       *)
ErrnoKept == pc = "idle" /\ errno # kept => ~Keeps /\ failed \ {"zero"} # {}

(* The ways in which commit<YesZero> makes memory writable. *)
Ways == {"protect", "zero"} \cup (IF system = "apple" THEN {"map"} ELSE {})

(* Memory that cannot be accessed is cleared by commit<YesZero> only, and  *)
(* only when every way to make it accessible has failed.                   *)
FaultsAtLast == Faulted => op = "commit_zero" /\ Ways \subseteq failed

(* Every call returns, also if madvise fails for good or errno was EAGAIN  *)
(* before, unless it faults.                                               *)
CallsReturn == pc # "idle" ~> pc = "idle" \/ Faulted
=============================================================================
