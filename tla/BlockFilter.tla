---------------------------- MODULE BlockFilter ----------------------------
(***************************************************************************)
(* The streaming block filter of clean_conf_file                           *)
(* (src/scripts/synology_prune_orphans.py): one pass over the lines of a   *)
(* config file that keeps every block whose header/body does not name an   *)
(* identifier to remove and drops the others wholesale.                    *)
(*                                                                         *)
(* A line is abstracted to what the loop tells apart: whether, stripped,   *)
(* it starts with "[<block_prefix>" (Headers), whether as a header it      *)
(* contains an identifier to remove (HeaderHits: only the "LUN_" prefix    *)
(* checks headers), and whether as a body line its first "key=value" split *)
(* gives key == id_key and a value in the removal list (BodyHits).  Output *)
(* lines are recorded by their position in the input, so "kept verbatim,   *)
(* in order" is equality of index sequences.                               *)
(***************************************************************************)
EXTENDS Naturals, Sequences, SequencesExt, FiniteSets

CONSTANTS
    Lines,        \* the line values a config file is made of
    Headers,      \* lines that start a block: stripped.startswith("[" + prefix)
    HeaderHits,   \* headers that contain an identifier to remove
    BodyHits,     \* non-header lines "id_key=<identifier to remove>"
    MaxLen,       \* bound on the number of lines of a file
    Strip,        \* Strip[l]: the line l.strip() (indentation, "\r" gone)
    None          \* clean_conf_file's `return None`

ASSUME /\ Headers \subseteq Lines
       /\ HeaderHits \subseteq Headers
       /\ BodyHits \subseteq Lines \ Headers
       /\ MaxLen \in Nat
       /\ Strip \in [Lines -> Lines]

VARIABLES
    lines,          \* content.splitlines(keepends=True)
    i,              \* position of the for-loop in lines
    current_block,  \* positions of the lines of the block being read
    remove_block,   \* the block being read is to be removed
    new_lines,      \* positions of the lines written out so far
    removed_count,
    done,           \* the loop and the final flush are over
    result          \* the return value, once done

vars == <<lines, i, current_block, remove_block, new_lines, removed_count,
          done, result>>

Positions == 1..MaxLen

TypeOK ==
    /\ lines \in SeqOf(Lines, MaxLen)
    /\ i \in 1..(MaxLen + 1)
    /\ current_block \in SeqOf(Positions, MaxLen)
    /\ remove_block \in BOOLEAN
    /\ new_lines \in SeqOf(Positions, MaxLen)
    /\ removed_count \in 0..MaxLen
    /\ done \in BOOLEAN
    /\ result \in SeqOf(Positions, MaxLen) \cup {None}

-----------------------------------------------------------------------------
(* The loop's handling of the block it has just finished ("Process previous *)
(* block" and "Flush last" are the same code).                              *)

CloseBlock ==
    IF current_block # << >>
    THEN /\ new_lines' = IF remove_block THEN new_lines
                         ELSE new_lines \o current_block
         /\ removed_count' = IF remove_block THEN removed_count + 1
                             ELSE removed_count
    ELSE UNCHANGED <<new_lines, removed_count>>

Init ==
    /\ lines \in SeqOf(Lines, MaxLen)
    /\ i = 1
    /\ current_block = << >>
    /\ remove_block = FALSE
    /\ new_lines = << >>
    /\ removed_count = 0
    /\ done = FALSE
    /\ result = None

\* (mutant: current_block is not reset at a header)
ScanHeader_NoReset ==
    /\ i <= Len(lines)
    /\ lines[i] \in Headers
    /\ CloseBlock
    /\ current_block' = Append(current_block, i)
    /\ remove_block' = (lines[i] \in HeaderHits)
    /\ i' = i + 1
    /\ UNCHANGED <<lines, done, result>>

\* A header line closes the previous block and opens a new one, which the
\* header alone may already mark for removal (LUN_ prefix only).
ScanHeader ==
    /\ i <= Len(lines)
    /\ lines[i] \in Headers
    /\ CloseBlock
    /\ current_block' = <<i>>
    /\ remove_block' = (lines[i] \in HeaderHits)
    /\ i' = i + 1
    /\ UNCHANGED <<lines, done, result>>

\* Any other line joins the current block (the preamble before the first
\* header is a block of its own) and may mark it for removal.
ScanBody ==
    /\ i <= Len(lines)
    /\ lines[i] \notin Headers
    /\ current_block' = Append(current_block, i)
    /\ remove_block' = (remove_block \/ lines[i] \in BodyHits)
    /\ i' = i + 1
    /\ UNCHANGED <<lines, new_lines, removed_count, done, result>>

\* (mutant: the last block is never flushed)
FlushLast_NoFlush ==
    /\ i = Len(lines) + 1
    /\ ~done
    /\ done' = TRUE
    /\ result' = IF removed_count > 0 THEN new_lines ELSE None
    /\ UNCHANGED <<lines, i, current_block, remove_block, new_lines, removed_count>>

\* End of input: flush the last block, then return new_lines or None.
FlushLast ==
    /\ i = Len(lines) + 1
    /\ ~done
    /\ CloseBlock
    /\ done' = TRUE
    /\ result' = IF removed_count' > 0 THEN new_lines' ELSE None
    /\ UNCHANGED <<lines, i, current_block, remove_block>>

Next == ScanHeader \/ ScanBody \/ FlushLast

Spec == Init /\ [][Next]_vars

-----------------------------------------------------------------------------
(* Reference definition: the file as a sequence of blocks.                  *)

\* The block a line belongs to: its nearest header at or before it, 0 for
\* the preamble.
BlockStart(j) ==
    LET hs == {h \in 1..j : lines[h] \in Headers}
    IN IF hs = {} THEN 0 ELSE Max(hs)

BlockStarts == {BlockStart(j) : j \in 1..Len(lines)}

\* A block goes if its header names a removed identifier or one of its other
\* lines does.
Doomed(s) ==
    \/ s > 0 /\ lines[s] \in HeaderHits
    \/ \E j \in 1..Len(lines) : BlockStart(j) = s /\ j # s /\ lines[j] \in BodyHits

ExpectedLines ==
    SelectSeq([j \in 1..Len(lines) |-> j], LAMBDA j : ~Doomed(BlockStart(j)))

ExpectedRemoved == Cardinality({s \in BlockStarts : Doomed(s)})

(* Block-wise filtering: when clean_conf_file returns, it has kept exactly  *)
(* the lines of the blocks that name no identifier to remove, verbatim and  *)
(* in order, counted the dropped blocks, and returned None exactly when     *)
(* nothing was dropped (so an empty removal list round-trips the file).     *)
FilterIsBlockwise ==
    done =>
        /\ new_lines = ExpectedLines
        /\ removed_count = ExpectedRemoved
        /\ result = IF ExpectedRemoved > 0 THEN ExpectedLines ELSE None
-----------------------------------------------------------------------------
(* The parse and rebuild of synology_prune_zombies.py over the same lines.  *)
(* parse_target_conf strips each line, starts a block at each "[iSCSI_T"   *)
(* header (Headers) and appends every later line to it, skipping the lines *)
(* before the first header; main() drops the blocks whose iqn is a         *)
(* zombie's and writes the _lines of the others, each followed by "\n".    *)
(* A BodyHits line plays the zombie's "iqn=" line (other body lines are    *)
(* not iqn lines, so the last iqn of a block is a zombie's exactly when it *)
(* has such a line); headers decide nothing here.  A block is the sequence *)
(* of its stripped lines.                                                  *)

\* (mutant: the block being read at the end of the input is not appended)
RECURSIVE ParseFrom_NoFlush(_, _, _, _)
ParseFrom_NoFlush(ls, j, current_target, targets) ==
    IF j > Len(ls) THEN targets
    ELSE IF Strip[ls[j]] \in Headers
         THEN ParseFrom_NoFlush(ls, j + 1, <<Strip[ls[j]]>>,
                  IF current_target # << >> THEN Append(targets, current_target)
                  ELSE targets)
         ELSE IF current_target # << >>
              THEN ParseFrom_NoFlush(ls, j + 1,
                                     Append(current_target, Strip[ls[j]]), targets)
              ELSE ParseFrom_NoFlush(ls, j + 1, current_target, targets)

\* The loop of parse_target_conf from line j on, with the block being read
\* and the blocks appended so far; a line before any header is skipped.
RECURSIVE ParseFrom(_, _, _, _)
ParseFrom(ls, j, current_target, targets) ==
    IF j > Len(ls)
    THEN IF current_target # << >> THEN Append(targets, current_target)
         ELSE targets
    ELSE IF Strip[ls[j]] \in Headers
         THEN ParseFrom(ls, j + 1, <<Strip[ls[j]]>>,
                  IF current_target # << >> THEN Append(targets, current_target)
                  ELSE targets)
         ELSE IF current_target # << >>
              THEN ParseFrom(ls, j + 1, Append(current_target, Strip[ls[j]]),
                             targets)
              ELSE ParseFrom(ls, j + 1, current_target, targets)

parse_target_conf(ls) == ParseFrom(ls, 1, << >>, << >>)

\* Step 4's test on t.get("iqn"), and step 6's reconstruction from the
\* _lines of targets_to_keep, in order.
IsZombieBlock(blk) == \E k \in 1..Len(blk) : blk[k] \in BodyHits

RebuiltTargetConf(ls) ==
    FlattenSeq(SelectSeq(parse_target_conf(ls),
                         LAMBDA blk : ~IsZombieBlock(blk)))

\* The reference, line by line: a line is written back when it belongs to a
\* block (not the preamble) that has no zombie iqn line, and it is written
\* back stripped.
ZombieDoomed(s) ==
    \E j \in 1..Len(lines) : BlockStart(j) = s /\ j # s /\ lines[j] \in BodyHits

KeptTargetLines ==
    SelectSeq([j \in 1..Len(lines) |-> j],
              LAMBDA j : BlockStart(j) > 0 /\ ~ZombieDoomed(BlockStart(j)))

ExpectedKeptTargets ==
    [k \in 1..Len(KeptTargetLines) |-> Strip[lines[KeptTargetLines[k]]]]

(* Block-wise rebuild: the target file synology_prune_zombies.py writes    *)
(* back is exactly the lines of the blocks without a zombie iqn, in order, *)
(* the last block (appended only after parse_target_conf's loop) included, *)
(* each line stripped; lines before the first header are dropped.  So the  *)
(* rewrite is byte-exact only for a file without preamble, indentation or  *)
(* "\r" line ends.                                                          *)
RebuildIsBlockwise == RebuiltTargetConf(lines) = ExpectedKeptTargets
=============================================================================
