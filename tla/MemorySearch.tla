---------------------------- MODULE MemorySearch ----------------------------
(* How the scanner looks for an address: the chunked search of the writable memory of the
   game (ro-tools-linux/proc_memory.rs) and what becomes of the candidates in the HP, level,
   map and name searches (tools/autopot/scanner.rs). MemoryScanner says when these run. The
   address space, a chunk and a word are small; memory does not change during one search. *)
EXTENDS Integers, Sequences, FiniteSets, FiniteSetsExt

CONSTANTS
    AddressSpace,   \* u32::MAX + 1
    ChunkSize,      \* SCAN_CHUNK_SIZE
    WordSize,       \* bytes of a u32
    MaxCandidates,  \* MAX_SCAN_CANDIDATES
    Mappings,       \* what /proc/<pid>/maps may say: sequences of writable ranges
    Needles,        \* the strings searched for
    Slots,          \* bound: candidate addresses of a hunt are 0 .. Slots - 1
    AnchorWindow,   \* LEVEL_ANCHOR_WINDOW
    PackedSpan,     \* PACKED_SPAN
    LayoutSpan,     \* the status buffer is this far behind the HP
    AnchorSets,     \* addresses already known: name, HP, level
    MaxRefines      \* bound: refinements of a hunt

(* Pages are aligned; the kernel lists the ranges of a process by address and without overlap.
   An empty needle is refused before the search. *)
SearchBounds ==
    /\ WordSize \in Nat \ {0} /\ ChunkSize \in Nat \ {0} /\ ChunkSize % WordSize = 0
    /\ {AddressSpace, MaxCandidates, Slots, AnchorWindow, PackedSpan, LayoutSpan, MaxRefines} \subseteq Nat
    /\ \A maps \in Mappings :
          /\ maps \in Seq(Nat \X Nat)
          /\ \A k \in DOMAIN maps : maps[k][1] % WordSize = 0 /\ maps[k][1] < maps[k][2]
          /\ \A k \in DOMAIN maps : \A j \in 1 .. k - 1 : maps[j][2] <= maps[k][1]
    /\ Needles \subseteq Seq({0, 1}) \ {<<>>}
    /\ AnchorSets \subseteq SUBSET (0 .. Slots - 1)
ASSUME SearchAssumption == SearchBounds

VARIABLES
    memory,     \* the bytes of the game
    search,     \* a search of the memory in progress
    hunt        \* candidates of a hunt, from its first search to its answer

searchVars == <<memory, search, hunt>>
NotFound == -1
NoSearch == [at |-> "none"]
NoHunt == [at |-> "none"]

SearchInit == memory = [a \in 0 .. AddressSpace - 1 |-> 0] /\ search = NoSearch /\ hunt = NoHunt

(* ----------------------------- one search ------------------------------- *)

(* Ranges are clipped to 32 bits; what starts beyond is left out: the last ones. *)
parse_writable_regions(maps) ==
    LET clipped == [k \in DOMAIN maps |-> <<maps[k][1], Min({maps[k][2], AddressSpace})>>]
        kept == CHOOSE n \in 0 .. Len(maps) :
                   \A k \in DOMAIN maps : clipped[k][1] < clipped[k][2] <=> k <= n
    IN  [k \in 1 .. kept |-> clipped[k]]
Bytes(from, count) == [k \in 1 .. count |-> memory[from + k - 1]]
Matches(bytes, offset, needle) ==
    offset + Len(needle) <= Len(bytes) /\ SubSeq(bytes, offset + 1, offset + Len(needle)) = needle
find_all_subslices(bytes, needle) == {offset \in 0 .. Len(bytes) : Matches(bytes, offset, needle)}
scan_aligned_chunk(start, bytes, needle) ==
    {start + offset : offset \in {o \in find_all_subslices(bytes, needle) : (start + o) % WordSize = 0}}
(* Mutant: one byte too few is kept. *)
KeptTailShort(bytes, needle) ==
    LET keep == Min({Len(needle) - 2, Len(bytes)}) IN SubSeq(bytes, Len(bytes) - keep + 1, Len(bytes))
(* the end of what was read, where a match of the next chunk may begin *)
KeptTail(bytes, needle) ==
    LET keep == Min({Len(needle) - 1, Len(bytes)}) IN SubSeq(bytes, Len(bytes) - keep + 1, Len(bytes))

(* scan_writable_u32 and find_all_writable_bytes *)
SearchBegins ==
    /\ search = NoSearch /\ hunt = NoHunt /\ UNCHANGED hunt
    /\ memory' \in [0 .. AddressSpace - 1 -> 0 .. 1]
    /\ \E maps \in Mappings, needle \in Needles, kind \in {"word", "bytes"} :
          LET regions == parse_writable_regions(maps)
          IN  /\ kind = "word" => Len(needle) = WordSize
              /\ search' = IF regions = <<>> THEN [at |-> "refused"]
                           ELSE [at |-> "reading", kind |-> kind, needle |-> needle, regions |-> regions,
                                 address |-> regions[1][1], overlap |-> <<>>, found |-> {}, read |-> {},
                                 seams |-> {}, short |-> FALSE, all |-> regions]
(* read_bytes_at through process_vm_readv or /proc/<pid>/mem: an error, or up to all of it *)
ReadOutcomes(requested) == {NotFound} \union 0 .. requested
FoundIn(s, bytes) ==
    IF s.kind = "word" THEN scan_aligned_chunk(s.address, bytes, s.needle)
    ELSE {s.address - Len(s.overlap) + offset : offset \in find_all_subslices(s.overlap \o bytes, s.needle)}
(* a read that counts: a word needs all its bytes *)
Useful(n, kind) == n >= IF kind = "word" THEN WordSize ELSE 1
Requested(s) == Min({Head(s.regions)[2] - s.address, ChunkSize})
(* The address moves on by what was asked for, whatever was read. Words are aligned, as the
   chunks are, and need no overlap. *)
AfterChunk(s, n) ==
    LET requested == Requested(s)
        last == s.address + requested = Head(s.regions)[2]
        rest == IF last THEN Tail(s.regions) ELSE s.regions
        bytes == IF Useful(n, s.kind) THEN Bytes(s.address, n) ELSE <<>>
        found == s.found \union FoundIn(s, bytes)
        goesOn == s.kind = "bytes" /\ bytes # <<>> /\ ~last
    IN  IF Cardinality(found) > MaxCandidates THEN [at |-> "refused"]
        ELSE [s EXCEPT !.regions = rest, !.found = found,
                !.address = IF last /\ rest # <<>> THEN Head(rest)[1] ELSE @ + requested,
                !.overlap = IF goesOn THEN KeptTail(@ \o bytes, s.needle) ELSE <<>>,
                !.read = @ \union (s.address .. s.address + Len(bytes) - 1),
                !.seams = IF s.short /\ bytes # <<>> THEN @ \union {s.address} ELSE @,
                !.short = goesOn /\ n < requested]
SearchChunk ==
    /\ search.at = "reading" /\ search.regions # <<>> /\ UNCHANGED <<memory, hunt>>
    /\ \E n \in ReadOutcomes(Requested(search)) : search' = AfterChunk(search, n)
(* nothing could be read: an error; otherwise the sorted addresses *)
SearchEnds ==
    /\ search.at = "reading" /\ search.regions = <<>> /\ UNCHANGED <<memory, hunt>>
    /\ search' = IF search.read = {} THEN [at |-> "refused"] ELSE [search EXCEPT !.at = "found"]

(* ------------------------------ candidates ------------------------------ *)

Addresses == 0 .. Slots - 1
abs_diff(a, b) == IF a < b THEN b - a ELSE a - b
Near(a, anchors) == \E x \in anchors : abs_diff(a, x) <= AnchorWindow
prefer_nearby_candidates(candidates, anchors) ==
    LET nearby == {a \in candidates : Near(a, anchors)} IN IF nearby = {} THEN candidates ELSE nearby
Isolated(a, candidates) ==
    Cardinality({b \in candidates \ {a} : abs_diff(a, b) <= PackedSpan}) < 2
drop_packed_clusters(candidates) ==
    LET isolated == {a \in candidates : Isolated(a, candidates)}
    IN  IF Cardinality(candidates) < 3 \/ isolated = {} THEN candidates ELSE isolated
narrow_scan_candidates(candidates, anchors) ==
    drop_packed_clusters(prefer_nearby_candidates(candidates, anchors))
Distance(a, anchors) == IF anchors = {} THEN AddressSpace + Slots ELSE Min({abs_diff(a, x) : x \in anchors})
(* min_by_key over sorted candidates: of equals the first *)
Nearest(candidates, anchors) ==
    CHOOSE a \in candidates : \A b \in candidates \ {a} :
        \/ Distance(a, anchors) < Distance(b, anchors)
        \/ Distance(a, anchors) = Distance(b, anchors) /\ a < b
pick_nearest(candidates, anchors) ==
    CASE Cardinality(candidates) = 1 -> CHOOSE a \in candidates : TRUE
      [] Cardinality(candidates) > 1 /\ anchors # {} -> Nearest(candidates, anchors)
      [] OTHER -> NotFound
pick_character_name(candidates, anchors) ==
    LET narrowed == prefer_nearby_candidates(candidates, anchors)
        nearest == pick_nearest(narrowed, anchors)
    IN  IF nearest = NotFound /\ narrowed # {} THEN Min(narrowed) ELSE nearest
(* a label that ends in .rsw first, then the nearest *)
resolve_map_after_compare(changed, rsw, anchors) ==
    CASE changed = {} -> NotFound
      [] changed # {} /\ changed \intersect rsw # {} -> Nearest(changed \intersect rsw, anchors)
      [] OTHER -> Nearest(changed, anchors)
(* the block of HP, maximum and SP looks right, and the status buffer is inside the space *)
detect_layout(candidates, laidOut) == {a \in candidates \intersect laidOut : a + LayoutSpan < Slots}

(* The user gives the value the game shows; `held` are the addresses that hold it now. No
   candidate: an error. *)
Begins(kind, held, anchors, candidates) ==
    /\ hunt = NoHunt /\ search = NoSearch /\ UNCHANGED <<memory, search>>
    /\ hunt' = IF held = {} THEN [at |-> "over"]
               ELSE [at |-> "ready", kind |-> kind, candidates |-> candidates, anchors |-> anchors,
                     first |-> held, ever |-> held, answer |-> NotFound, refined |-> 0]
begin(held) == Begins("Hp", held, {}, held)
begin_level(held, anchors) == Begins("Level", held, anchors, narrow_scan_candidates(held, anchors))
begin_map(held, anchors) == Begins("Map", held, anchors, narrow_scan_candidates(held, anchors))
(* one search, one answer *)
find_name(held, anchors) ==
    /\ hunt = NoHunt /\ search = NoSearch /\ Cardinality(anchors) < 2 /\ UNCHANGED <<memory, search>>
    /\ hunt' = IF held = {} THEN [at |-> "over"]
               ELSE [at |-> "answered", kind |-> "Name", candidates |-> held, anchors |-> anchors,
                     first |-> held, ever |-> held, answer |-> pick_character_name(held, anchors), refined |-> 0]
(* No candidate left: Idle again. An answer: reported. Otherwise the candidates wait. *)
Refines(kind, fitting, candidates, answer) ==
    /\ hunt.at = "ready" /\ hunt.kind = kind /\ hunt.refined < MaxRefines
    /\ UNCHANGED <<memory, search>>
    /\ hunt' = IF candidates = {} THEN [at |-> "over"]
               ELSE [hunt EXCEPT !.ever = @ \intersect fitting, !.refined = @ + 1,
                                 !.candidates = candidates, !.answer = answer,
                                 !.at = IF answer # NotFound THEN "answered" ELSE "ready"]
refine(held, laidOut) ==
    LET layouts == detect_layout(hunt.candidates \intersect held, laidOut)
    IN  Refines("Hp", {a \in laidOut : a < Slots - LayoutSpan}, layouts,
                IF Cardinality(layouts) = 1 THEN Min(layouts) ELSE NotFound)
(* detect_level_address reads the address again: it may have changed *)
refine_level(held, again) ==
    LET candidates == hunt.candidates \intersect held
        chosen == pick_nearest(candidates, hunt.anchors)
    IN  Refines("Level", held, candidates, IF chosen \in again THEN chosen ELSE NotFound)
refine_map(held, rsw) ==
    LET changed == hunt.candidates \intersect held
    IN  Refines("Map", held, changed, resolve_map_after_compare(changed, rsw, hunt.anchors))

SearchNext ==
    \/ SearchBegins \/ SearchChunk \/ SearchEnds
    \/ \E held \in SUBSET Addresses :
         \/ begin(held)
         \/ \E anchors \in AnchorSets : begin_level(held, anchors) \/ begin_map(held, anchors)
                                        \/ find_name(held, anchors)
         \/ /\ hunt.at = "ready"
            /\ \E some \in SUBSET held :
                 refine(held, some) \/ refine_level(held, some) \/ refine_map(held, some)

(* ------------------------------ properties ------------------------------ *)

(* where the needle is, in one region, in bytes that were read *)
Occurrences ==
    {a \in 0 .. AddressSpace - Len(search.needle) :
        /\ \E k \in DOMAIN search.all : search.all[k][1] <= a /\ a + Len(search.needle) <= search.all[k][2]
        /\ Bytes(a, Len(search.needle)) = search.needle
        /\ a .. a + Len(search.needle) - 1 \subseteq search.read
        /\ search.kind = "word" => a % WordSize = 0}
(* A search finds every occurrence in what it could read, across the borders of its chunks
   too (proc_memory.rs:311), and only these; what it adds when a chunk was read short
   spans the border after it. *)
SearchIsExact ==
    search.at = "found" =>
        /\ Occurrences \subseteq search.found
        /\ \A a \in search.found \ Occurrences :
               \E seam \in search.seams : a < seam /\ seam < a + Len(search.needle)
        /\ Cardinality(search.found) <= MaxCandidates
(* An answer held every value the user gave (scanner.rs:188, 409, 591). The HP block answered is
   the only one that fits. An isolated level next to a known address is not narrowed away, and no
   address farther from the known ones than it is answered in its place. *)
AnswersAreSound ==
    hunt.at \in {"ready", "answered"} =>
        /\ hunt.candidates # {} /\ hunt.candidates \subseteq hunt.ever
        /\ hunt.answer # NotFound => hunt.answer \in hunt.candidates
        /\ (hunt.kind = "Hp" /\ hunt.answer # NotFound) => hunt.ever = {hunt.answer}
        /\ hunt.kind = "Level" =>
               \A truth \in hunt.ever :
                   (Near(truth, hunt.anchors) /\ Isolated(truth, hunt.first)) =>
                       /\ truth \in hunt.candidates
                       /\ hunt.answer # NotFound =>
                             Distance(hunt.answer, hunt.anchors) <= Distance(truth, hunt.anchors)
SearchIsSound == SearchIsExact /\ AnswersAreSound
=============================================================================
