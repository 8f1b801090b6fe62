----------------------------- MODULE XdpFilter -----------------------------
(***************************************************************************)
(* core/nic_xdp.c: xdp_deepfake_filter() on every CPU that receives        *)
(* frames.  The CPUs share block_map, the number of low-variance packets   *)
(* per source.  A run of the filter looks its source up, reads the count   *)
(* through the pointer it got and, for a low-variance packet, writes the   *)
(* count plus one: three steps that interleave with the other CPUs' and    *)
(* that no lock holds together.                                            *)
(*                                                                         *)
(* block_map is the kernel's preallocated hash: an update never writes in  *)
(* place.  It fills the CPU's spare element, links that instead of the old *)
(* one and keeps the old one as its next spare, while another CPU may      *)
(* still hold a pointer to it.  A new key takes a free element, if any.    *)
(* The per-CPU packet counters are written and never read by the filter;   *)
(* they are left out.                                                      *)
(***************************************************************************)
EXTENDS Integers, FiniteSets

CONSTANTS CPU,
          Source,       \* source addresses
          Steer,        \* the CPUs the NIC delivers each source's frames to
          Threshold,    \* DEEPFAKE_BLOCK_THRESHOLD
          MaxEntries    \* max_entries of block_map

ASSUME FilterAssumption ==
  /\ IsFiniteSet(CPU)
  /\ Steer \in [Source -> SUBSET CPU]
  /\ Threshold \in 1 .. 254
  /\ MaxEntries \in Nat \ {0}

NULL == 0
Element == 1 .. MaxEntries + Cardinality(CPU)

(* What a frame is to the filter: no UDP over IPv4; a datagram whose first *)
(* bytes of payload, eight at most, are all equal or fewer than two; any   *)
(* other, also one cut off in its header.                                  *)
Frame == {"other", "flat", "voice"}

VARIABLES
  entry,        \* block_map: the element of each source, NULL if it has none
  value,        \* the __u8 in each element
  spare,        \* the element each CPU's next replacement takes
  pc,           \* where each CPU's run of the filter stands
  frame,        \* the frame it works on
  src_ip,       \* and that frame's source
  block_count,  \* the pointer lookup returned
  seen,         \* *block_count when it was compared
  verdict,      \* how each CPU's last run ended
  analysed      \* ghost: flat packets counted per source, saturating

mapVars == <<entry, value, spare>>
runVars == <<pc, frame, src_ip, block_count, seen, verdict>>
vars == <<mapVars, runVars, analysed>>

Free == Element \ ({entry[s] : s \in Source} \cup {spare[c] : c \in CPU})

Init ==
  /\ entry = [s \in Source |-> NULL]
  /\ value = [e \in Element |-> 0]
  /\ spare \in [CPU -> Element]
  /\ \A c, d \in CPU : spare[c] = spare[d] => c = d
  /\ pc = [c \in CPU |-> "idle"]
  /\ frame = [c \in CPU |-> "other"]
  /\ src_ip \in [CPU -> Source]
  /\ block_count = [c \in CPU |-> NULL]
  /\ seen = [c \in CPU |-> 0]
  /\ verdict = [c \in CPU |-> "PASS"]
  /\ analysed = [s \in Source |-> 0]

-----------------------------------------------------------------------------
Return(c, v) ==
  /\ pc' = [pc EXCEPT ![c] = "idle"]
  /\ verdict' = [verdict EXCEPT ![c] = v]

Forget(c) ==   \* the run's locals are gone
  /\ frame' = [frame EXCEPT ![c] = "other"]
  /\ block_count' = [block_count EXCEPT ![c] = NULL]
  /\ seen' = [seen EXCEPT ![c] = 0]

(* A frame that is no UDP passes unseen; otherwise its source is looked up.*)
Lookup_PreviousSource(c) ==
  /\ pc[c] = "idle"
  /\ \E s \in Source, f \in Frame \ {"other"} :
       /\ c \in Steer[s]
       /\ frame' = [frame EXCEPT ![c] = f]
       /\ src_ip' = [src_ip EXCEPT ![c] = s]
       /\ block_count' = [block_count EXCEPT ![c] = entry[src_ip[c]]]
  /\ pc' = [pc EXCEPT ![c] = "check"]
  /\ UNCHANGED <<mapVars, seen, verdict, analysed>>
Lookup(c) ==
  /\ pc[c] = "idle"
  /\ \E s \in Source, f \in Frame \ {"other"} :
       /\ c \in Steer[s]
       /\ frame' = [frame EXCEPT ![c] = f]
       /\ src_ip' = [src_ip EXCEPT ![c] = s]
       /\ block_count' = [block_count EXCEPT ![c] = entry[s]]
  /\ pc' = [pc EXCEPT ![c] = "check"]
  /\ UNCHANGED <<mapVars, seen, verdict, analysed>>

NotUdp(c) ==
  /\ pc[c] = "idle"
  /\ \E s \in Source : c \in Steer[s] /\ src_ip' = [src_ip EXCEPT ![c] = s]
  /\ Return(c, "PASS")
  /\ UNCHANGED <<mapVars, frame, block_count, seen, analysed>>

Count(c) == IF block_count[c] = NULL THEN 0 ELSE value[block_count[c]]

Blacklisted(c) ==
  /\ pc[c] = "check"
  /\ Count(c) >= Threshold
  /\ Return(c, "DROP") /\ Forget(c)
  /\ UNCHANGED <<mapVars, src_ip, analysed>>

Pass(c) ==
  /\ pc[c] = "check"
  /\ Count(c) < Threshold
  /\ frame[c] = "voice"
  /\ Return(c, "PASS") /\ Forget(c)
  /\ UNCHANGED <<mapVars, src_ip, analysed>>

LowVariance(c) ==
  /\ pc[c] = "check"
  /\ Count(c) < Threshold
  /\ frame[c] = "flat"
  /\ seen' = [seen EXCEPT ![c] = Count(c)]
  /\ analysed' = [analysed EXCEPT ![src_ip[c]] = IF @ <= Threshold THEN @ + 1 ELSE @]
  /\ pc' = [pc EXCEPT ![c] = "update"]
  /\ UNCHANGED <<mapVars, frame, src_ip, block_count, verdict>>

(* *block_count + 1: the compiler may keep the value it compared or read   *)
(* the element again.                                                      *)
new_count_Unread(c) == {1}
new_count(c) == {(v + 1) % 256 : v \in {seen[c], Count(c)}}

(* bpf_map_update_elem(BPF_ANY) by CPU c. *)
Replace(c, s, n) ==
  /\ entry[s] # NULL
  /\ value' = [value EXCEPT ![spare[c]] = n]
  /\ entry' = [entry EXCEPT ![s] = spare[c]]
  /\ spare' = [spare EXCEPT ![c] = entry[s]]
Insert(s, n) ==
  /\ entry[s] = NULL
  /\ \E e \in Free : /\ value' = [value EXCEPT ![e] = n]
                     /\ entry' = [entry EXCEPT ![s] = e]
  /\ spare' = spare
MapFull(s) ==
  /\ entry[s] = NULL
  /\ Free = {}
  /\ UNCHANGED mapVars

Update(c) ==
  /\ pc[c] = "update"
  /\ \E n \in new_count(c) :
       Replace(c, src_ip[c], n) \/ Insert(src_ip[c], n) \/ MapFull(src_ip[c])
  /\ Return(c, "DROP") /\ Forget(c)
  /\ UNCHANGED <<src_ip, analysed>>

xdp_deepfake_filter(c) ==
  Lookup(c) \/ NotUdp(c) \/ Blacklisted(c) \/ Pass(c) \/ LowVariance(c) \/ Update(c)

Next == \E c \in CPU : xdp_deepfake_filter(c)

Spec == Init /\ [][Next]_vars

-----------------------------------------------------------------------------
TypeOK ==
  /\ entry \in [Source -> Element \cup {NULL}]
  /\ value \in [Element -> 0 .. 255]
  /\ spare \in [CPU -> Element]
  /\ pc \in [CPU -> {"idle", "check", "update"}]
  /\ frame \in [CPU -> Frame]
  /\ src_ip \in [CPU -> Source]
  /\ block_count \in [CPU -> Element \cup {NULL}]
  /\ seen \in [CPU -> 0 .. 255]
  /\ verdict \in [CPU -> {"PASS", "DROP"}]
  /\ analysed \in [Source -> 0 .. Threshold + 1]

(* A source that has sent no flat packet is not in the map and loses no    *)
(* packet, whatever the other CPUs do to the elements it does not own.     *)
InnocentPasses ==
  /\ \A s \in Source : analysed[s] = 0 => entry[s] = NULL
  /\ \A c \in CPU : /\ pc[c] # "idle" /\ block_count[c] # NULL => analysed[src_ip[c]] > 0
                    /\ verdict[c] = "DROP" /\ pc[c] = "idle" => analysed[src_ip[c]] > 0

(* When the NIC steers all frames of a source to one CPU, its count is     *)
(* exact, up to a full map: it is blacklisted by its Threshold-th flat     *)
(* packet, not earlier, and for ever, however the other CPUs' sources are  *)
(* counted wrong and whatever elements they recycle.                       *)
Pending(c, s) == IF pc[c] = "update" /\ src_ip[c] = s THEN 1 ELSE 0
PinnedExact ==
  \A s \in Source, c \in CPU : Steer[s] = {c} =>
    IF entry[s] # NULL THEN value[entry[s]] = analysed[s] - Pending(c, s)
    ELSE analysed[s] - Pending(c, s) = 0 \/ Free = {}

(* The strengthening that makes both inductive: no element is in two       *)
(* places, and a run that owns its source holds a pointer and a count that *)
(* are still the current ones.                                             *)
ElementsDistinct ==
  /\ \A s, t \in Source : entry[s] = entry[t] /\ entry[s] # NULL => s = t
  /\ \A c, d \in CPU : spare[c] = spare[d] => c = d
  /\ \A s \in Source, c \in CPU : entry[s] # spare[c]

Steered(c) ==
  /\ c \in Steer[src_ip[c]]
  /\ pc[c] = "update" => analysed[src_ip[c]] > 0
  /\ Steer[src_ip[c]] = {c} => block_count[c] = entry[src_ip[c]]
  /\ Steer[src_ip[c]] = {c} /\ pc[c] = "update" =>
       seen[c] = Count(c) /\ seen[c] < Threshold
RunsSteered == \A c \in CPU : pc[c] # "idle" => Steered(c)

FilterInv == TypeOK /\ ElementsDistinct /\ RunsSteered /\ InnocentPasses /\ PinnedExact

(* A source that has an entry and whose frames all arrive on one CPU is    *)
(* judged by its exact count: from its Threshold-th flat packet on, no run *)
(* of the filter passes it or counts another.                              *)
Pinned(s, c) == Steer[s] = {c} /\ entry[s] # NULL
VerdictsExact ==
  [][\A c \in CPU : Pinned(src_ip[c], c) =>
       /\ Blacklisted(c) => analysed[src_ip[c]] >= Threshold
       /\ Pass(c) \/ LowVariance(c) => analysed[src_ip[c]] < Threshold]_vars

(* And once it is blacklisted, it stays so.  (Sources that several CPUs    *)
(* serve are counted by lost updates: their blacklisting may be undone.)   *)
Banned(s) == entry[s] # NULL /\ value[entry[s]] >= Threshold
BansStay ==
  [][\A s \in Source, c \in CPU : Steer[s] = {c} /\ Banned(s) => Banned(s)']_vars
=============================================================================
