--------------------------- MODULE VTuneAnnotation ---------------------------
(***************************************************************************)
(* The runtime that a binary annotated for VTune calls                     *)
(* (LLVMAnalysis/PIMProfAnnotation.cpp): it passes frames on to VTune, but *)
(* not a call that repeats the one before.  Its state is three globals and *)
(* a map, shared by all threads without a lock; a call is one step here,   *)
(* which is faithful to a program of one thread.                           *)
(***************************************************************************)
EXTENDS Integers

CONSTANTS
  Uuids,         \* the pairs (uuid_hi, uuid_lo)
  MaxOpenFrames  \* bound: how far begins and ends of a domain may get apart

VARIABLES
  prev,          \* PIMProf_prev_mode and PIMProf_prev_uuid_hi/lo
  domains,       \* PIMProfDomain: the flags of each domain
  openFrames     \* VTune: begins less ends it has been told of, for each domain

runtimeVars == <<prev, domains, openFrames>>

NoCall == <<"none", -1>>

RuntimeInit ==
  /\ prev = NoCall
  /\ domains = << >>
  /\ openFrames = [k \in Uuids |-> 0]

MutIsRepeatOfUuid(mode, uuid) == prev[2] = uuid
MutIsRepeatOfMode(mode, uuid) == prev[1] = mode
IsRepeat(mode, uuid) == prev = <<mode, uuid>>

\* A domain gets its flags when it is created at a begin; created at an end it
\* has none, and VTune records no frame of it.
DomainsWith(uuid, flags) ==
  [k \in (DOMAIN domains) \cup {uuid} |-> IF k \in DOMAIN domains THEN domains[k] ELSE flags]

Frame(uuid, flags, change) ==
  /\ openFrames[uuid] + change \in -MaxOpenFrames .. MaxOpenFrames
  /\ domains' = DomainsWith(uuid, flags)
  /\ openFrames' = [openFrames EXCEPT ![uuid] = @ + change]

PIMProfVTuneAnnotation(mode, uuid) ==
  \/ IsRepeat(mode, uuid) /\ UNCHANGED runtimeVars
  \/ /\ ~IsRepeat(mode, uuid)
     /\ prev' = <<mode, uuid>>
     /\ \/ mode = "FRAME_BEGIN" /\ Frame(uuid, 1, 1)
        \/ mode = "FRAME_END" /\ Frame(uuid, 0, -1)
        \/ mode \in {"RESUME", "DETACH"} /\ UNCHANGED <<domains, openFrames>>

\* An end never creates a domain, so no frame of the program is lost for want of
\* flags (PIMProfAnnotation.cpp:29), whatever calls are dropped as repeats.
DomainsAreEnabled == \A k \in DOMAIN domains : domains[k] = 1
=============================================================================
