-------------------------------- MODULE Node --------------------------------
(***************************************************************************)
(* The inside of a page: Node, LeafNode and BranchNode.  Slots grow from   *)
(* the front of the page, records from its end; a deleted record leaves a  *)
(* hole until Compactify moves the others together.  A record longer than  *)
(* MaxInlineRecordSize goes to overflow pages, and the page keeps their    *)
(* number.  BTree uses a node as a sequence of keys and data with so much  *)
(* room; this module shows that the page behaves like that.                *)
(*                                                                         *)
(* The page is counted without its header, in units of space.  A record is *)
(* a tag and the sizes of key and value; its n-th unit is <<tag, n>>.      *)
(* Slots are numbered from 1 and kept apart from the rest of the page:     *)
(* SpaceIsExact says that the two never meet.                              *)
(*                                                                         *)
(* An assertion of the code that fails ends the program.  One can fail: in *)
(* Update, DeleteRecord leaves an overflow record in its slot, so the page *)
(* it refers to is never freed and Compactify counts it although space_used*)
(* does not.  `lost' has the pages of the records overwritten like that.   *)
(***************************************************************************)
EXTENDS Integers, SequencesExt

CONSTANTS
    Tags,               \* what records contain
    Sizes,              \* the sizes of records, key and value together
    Children,           \* pages a branch refers to
    NoChild,            \* the left_child of a leaf's slot (value_size is there)
    PageSize,           \* space of the page
    SlotSize,           \* sizeof(Slot)
    PgidSize,           \* sizeof(OverflowRecord)
    MaxPages            \* bound on overflow records at a time

MaxInlineRecordSize == (PageSize - 2 * SlotSize) \div 2

ASSUME ConstantsAssumption ==
    /\ Sizes \subseteq Nat
    /\ NoChild \notin Children
    /\ {PageSize, SlotSize, PgidSize} \subseteq Nat \ {0}
    /\ (PageSize - 2 * SlotSize) % 2 = 0
    /\ PgidSize <= MaxInlineRecordSize
    /\ MaxPages \in Nat

VARIABLES
    type,        \* header.type: "leaf" or "branch"
    node,        \* the page: slots, tail_child, data_offset, space_used, mem
    overflow,    \* the overflow records in allocated pages, by page number
    aborted,     \* an assertion has failed
    records,     \* auxiliary: the records the node should have
    children,    \* auxiliary: the children a branch should have
    lost         \* auxiliary: the pages of overflow records Update has overwritten

vars == <<type, node, overflow, aborted, records, children, lost>>

Size(r) == r.key_size + r.value_size

\* A leaf's records have a key of at most one unit, a branch's only a key.
RecordsOf(t) ==
    {[tag |-> g, key_size |-> IF t = "leaf" /\ s > 1 THEN 1 ELSE s,
                 value_size |-> IF t = "leaf" /\ s > 1 THEN s - 1 ELSE 0] :
        g \in Tags, s \in Sizes}

-----------------------------------------------------------------------------
(* Space.                                                                   *)

IsInline(size)      == size <= MaxInlineRecordSize
StoredSize(size)    == IF IsInline(size) THEN size ELSE PgidSize
SlotRecordSize(slot) == IF slot.is_overflow THEN PgidSize ELSE Size(slot)

SlotSpace(n) == Len(n.slots) * SlotSize
FreeSpace(n) == n.data_offset - SlotSpace(n)
FreeSpaceAfterCompaction(n) == PageSize - SlotSpace(n) - n.space_used

\* Where CopyRecordRange puts the records: that of slot i begins at ends[i] and
\* ends before ends[i - 1].
PackedOffsets(n) ==
    LET ends[i \in 0 .. Len(n.slots)] ==
            IF i = 0 THEN PageSize ELSE ends[i - 1] - SlotRecordSize(n.slots[i])
    IN  ends

\* Mutant of MovedSlots: the slots keep their offsets.
MovedSlotsKeepOffsets(slots, ends) == slots

MovedSlots(slots, ends) ==
    [i \in DOMAIN slots |-> [slots[i] EXCEPT !.record_offset = ends[i]]]

\* Node::Compactify, with CopyRecordRange into the temporary page and back.
Compactify(n) ==
    LET ends   == PackedOffsets(n)
        offset == ends[Len(n.slots)]
    IN  [n EXCEPT
           !.data_offset = offset,
           !.slots = MovedSlots(@, ends),
           !.mem = [c \in DOMAIN @ |->
              IF c < offset THEN @[c]
              ELSE LET i == CHOOSE i \in DOMAIN n.slots : ends[i] <= c /\ c < ends[i - 1]
                   IN  @[n.slots[i].record_offset + (c - ends[i])]]]

\* Node::RequestSpaceFor: does a record fit, and the page after that.
SpaceNeeded(size, slot_needed) == StoredSize(size) + IF slot_needed THEN SlotSize ELSE 0

HasSpace(n, size, slot_needed) ==
    \/ SpaceNeeded(size, slot_needed) <= FreeSpace(n)
    \/ SpaceNeeded(size, slot_needed) <= FreeSpaceAfterCompaction(n)

\* Mutant of SpaceFor: the page is not compacted.
SpaceForWithoutCompaction(n, size, slot_needed) == n

SpaceFor(n, size, slot_needed) ==
    IF SpaceNeeded(size, slot_needed) <= FreeSpace(n) THEN n ELSE Compactify(n)

\* The assertions of RequestSpaceFor, if it gets there: space_used, which is
\* unsigned, within the page in FreeSpaceAfterCompaction, and the sum of the
\* records in Compactify.
AssertionsHold(n, size, slot_needed) ==
    SpaceNeeded(size, slot_needed) > FreeSpace(n) =>
        /\ n.space_used >= 0 /\ FreeSpaceAfterCompaction(n) >= 0
        /\ SpaceNeeded(size, slot_needed) <= FreeSpaceAfterCompaction(n) =>
              PackedOffsets(n)[Len(n.slots)] = PageSize - n.space_used

-----------------------------------------------------------------------------
(* Records.                                                                 *)

NewPage == CHOOSE p \in 1 .. MaxPages + 1 :
              p \notin DOMAIN overflow /\ \A q \in 1 .. (p - 1) : q \in DOMAIN overflow

\* Node::StoreRecord into slot i; an overflow record goes to NewPage.
StoreRecord(n, i, r) ==
    LET offset == n.data_offset - StoredSize(Size(r))
    IN  [n EXCEPT
           !.data_offset = offset,
           !.space_used = @ + StoredSize(Size(r)),
           !.slots[i] = [@ EXCEPT !.record_offset = offset,
                                  !.is_overflow = ~IsInline(Size(r)),
                                  !.key_size = r.key_size, !.value_size = r.value_size],
           !.mem = [c \in DOMAIN @ |->
              IF c < offset \/ c >= n.data_offset THEN @[c]
              ELSE IF IsInline(Size(r)) THEN <<r.tag, c - offset>> ELSE <<NewPage, c - offset>>]]

StoreOverflow(ov, r) ==
    IF IsInline(Size(r)) THEN ov
    ELSE [p \in DOMAIN ov \cup {NewPage} |-> IF p = NewPage THEN r ELSE ov[p]]

\* The overflow page number that slot i holds.
PgidAt(n, i) == n.mem[n.slots[i].record_offset][1]
OverflowPages(n, i) == IF n.slots[i].is_overflow THEN {PgidAt(n, i)} ELSE {}

\* Mutant of FreeOverflow: the pages stay in use.
FreeOverflowNever(n, ov, i) == ov

\* Pager::Free of the record of slot i, in Delete.
FreeOverflow(n, ov, i) ==
    [p \in DOMAIN ov \ OverflowPages(n, i) |-> ov[p]]

\* Node::DeleteRecord: the slot stays, without a record.
DeleteRecord(n, i) ==
    [n EXCEPT !.space_used = @ - SlotRecordSize(n.slots[i]),
              !.slots[i] = IF @.is_overflow THEN @
                           ELSE [@ EXCEPT !.key_size = 0, !.value_size = 0]]

\* Node::RestoreRecord, after a DeleteRecord of slot i.
RestoreRecord(n, i, saved_slot) ==
    [n EXCEPT !.space_used = @ + SlotRecordSize(saved_slot),
              !.slots[i] = IF saved_slot.is_overflow THEN @
                           ELSE [@ EXCEPT !.key_size = saved_slot.key_size,
                                          !.value_size = saved_slot.value_size]]

-----------------------------------------------------------------------------
(* Slots.                                                                   *)

NewSlot(c) == [record_offset |-> 0, is_overflow |-> FALSE, key_size |-> 0, value_size |-> 0,
               left_child |-> c]

\* The slots of LeafNode::Insert, BranchNode::Insert.  On the right side the
\* new slot takes over the child of the slot that was here, or the tail child.
InsertSlot(n, i, c, right) ==
    IF ~right THEN [n EXCEPT !.slots = InsertAt(@, i, NewSlot(c))]
    ELSE IF i = Len(n.slots) + 1
    THEN [n EXCEPT !.slots = Append(@, NewSlot(n.tail_child)), !.tail_child = c]
    ELSE [n EXCEPT !.slots = InsertAt([@ EXCEPT ![i].left_child = c], i,
                                      NewSlot(n.slots[i].left_child))]

\* Mutant of DeleteSlot: the right child stays and the left one goes.
DeleteSlotOnLeft(n, i, right) == [n EXCEPT !.slots = RemoveAt(@, i)]

\* The slots of LeafNode::Delete, BranchNode::Delete.  With the right child
\* gone, the slot behind, or the tail, takes over the left one.
DeleteSlot(n, i, right) ==
    IF ~right THEN [n EXCEPT !.slots = RemoveAt(@, i)]
    ELSE IF i < Len(n.slots)
    THEN [n EXCEPT !.slots = RemoveAt([@ EXCEPT ![i + 1].left_child = n.slots[i].left_child], i)]
    ELSE [n EXCEPT !.slots = Front(@), !.tail_child = Last(n.slots).left_child]

\* BranchNode::SetLeftChild; SetRightChild of a slot is that of the next one.
SetLeftChild(n, i, c) ==
    IF i > Len(n.slots) THEN [n EXCEPT !.tail_child = c]
                        ELSE [n EXCEPT !.slots[i].left_child = c]

-----------------------------------------------------------------------------
(* Operations.                                                              *)

\* LeafNode::Build, BranchNode::Build
Init ==
    /\ type \in {"leaf", "branch"}
    /\ \E c \in IF type = "leaf" THEN {NoChild} ELSE Children :
          /\ node = [slots |-> << >>, tail_child |-> c, data_offset |-> PageSize,
                     space_used |-> 0, mem |-> [u \in 0 .. (PageSize - 1) |-> <<>>]]
          /\ children = <<c>>
    /\ overflow = << >>
    /\ records = << >>
    /\ aborted = FALSE
    /\ lost = {}

\* LeafNode::Insert, BranchNode::Insert before slot i, if there is room.
Insert(i, r, c, right) ==
    /\ i <= Len(node.slots) + 1
    /\ AssertionsHold(node, Size(r), TRUE)
    /\ HasSpace(node, Size(r), TRUE)
    /\ LET n == SpaceFor(node, Size(r), TRUE)
       IN  node' = StoreRecord(InsertSlot(n, i, c, right), i, r)
    /\ overflow' = StoreOverflow(overflow, r)
    /\ records' = InsertAt(records, i, r)
    /\ children' = IF type = "leaf" THEN children
                   ELSE InsertAt(children, IF right THEN i + 1 ELSE i, c)
    /\ UNCHANGED <<type, aborted, lost>>

\* LeafNode::Delete, BranchNode::Delete, Pop
Delete(i, right) ==
    /\ i <= Len(node.slots)
    /\ node' = DeleteSlot([node EXCEPT !.space_used = @ - SlotRecordSize(node.slots[i])], i, right)
    /\ overflow' = FreeOverflow(node, overflow, i)
    /\ records' = RemoveAt(records, i)
    /\ children' = IF type = "leaf" THEN children
                   ELSE RemoveAt(children, IF right THEN i + 1 ELSE i)
    /\ UNCHANGED <<type, aborted, lost>>

\* LeafNode::Update, BranchNode::Update of slot i.  A branch takes the key's
\* size off once more; it is 0 by then, unless the record was an overflow record.
Update(i, r) ==
    /\ i <= Len(node.slots)
    /\ LET deleted == DeleteRecord(node, i)
           n       == SpaceFor(deleted, Size(r), FALSE)
           again   == IF type = "branch" THEN n.slots[i].key_size ELSE 0
       IN  /\ AssertionsHold(deleted, Size(r), FALSE)
           /\ HasSpace(deleted, Size(r), FALSE)
           /\ node' = StoreRecord([n EXCEPT !.space_used = @ - again], i, r)
    /\ overflow' = StoreOverflow(overflow, r)
    /\ records' = [records EXCEPT ![i] = r]
    /\ lost' = lost \cup OverflowPages(node, i)
    /\ UNCHANGED <<type, aborted, children>>

\* Update without room for the record: the old one is restored.
UpdateFails(i, r) ==
    /\ i <= Len(node.slots)
    /\ LET deleted == DeleteRecord(node, i)
       IN  /\ AssertionsHold(deleted, Size(r), FALSE)
           /\ ~HasSpace(deleted, Size(r), FALSE)
           /\ node' = RestoreRecord(deleted, i, node.slots[i])
    /\ UNCHANGED <<type, overflow, aborted, records, children, lost>>

\* An assertion fails in Insert ...
InsertAborts(r) ==
    /\ ~AssertionsHold(node, Size(r), TRUE)
    /\ aborted' = TRUE
    /\ UNCHANGED <<type, node, overflow, records, children, lost>>

\* ... or in Update of slot i.
UpdateAborts(i, r) ==
    /\ i <= Len(node.slots)
    /\ ~AssertionsHold(DeleteRecord(node, i), Size(r), FALSE)
    /\ aborted' = TRUE
    /\ lost' = lost \cup OverflowPages(node, i)
    /\ UNCHANGED <<type, node, overflow, records, children>>

\* SetLeftChild, SetRightChild, SetTailChild, and the child of BranchNode::Update
SetChild(i, c) ==
    /\ type = "branch"
    /\ node' = SetLeftChild(node, i, c)
    /\ children' = [children EXCEPT ![i] = c]
    /\ UNCHANGED <<type, overflow, aborted, records, lost>>

RoomForPages(r) == IsInline(Size(r)) \/ NewPage <= MaxPages

Next ==
    ~aborted /\ \E i \in 1 .. Len(node.slots) + 1 :
        \/ \E r \in RecordsOf(type) :
              \/ /\ RoomForPages(r)
                 /\ \/ \E c \in IF type = "leaf" THEN {NoChild} ELSE Children,
                          right \in IF type = "leaf" THEN {FALSE} ELSE BOOLEAN :
                             Insert(i, r, c, right)
                    \/ Update(i, r)
              \/ UpdateFails(i, r)
              \/ InsertAborts(r)
              \/ UpdateAborts(i, r)
        \/ \E right \in IF type = "leaf" THEN {FALSE} ELSE BOOLEAN : Delete(i, right)
        \/ \E c \in Children : SetChild(i, c)

Spec == Init /\ [][Next]_vars

-----------------------------------------------------------------------------
(* Properties.                                                              *)

Cells(n, i) == n.slots[i].record_offset ..
                  (n.slots[i].record_offset + SlotRecordSize(n.slots[i]) - 1)

\* What GetKey and GetValue read for slot i.
RecordAt(i) ==
    LET slot == node.slots[i]
    IN  IF slot.is_overflow THEN overflow[PgidAt(node, i)]
        ELSE [tag |-> IF Size(slot) = 0 THEN records[i].tag ELSE node.mem[slot.record_offset][1],
              key_size |-> slot.key_size, value_size |-> slot.value_size]

\* Every slot leads to its whole record, unit by unit, whatever was inserted,
\* overwritten, deleted and moved by Compactify before; so GetKey and GetValue
\* return what was stored last, inline or in overflow pages.
RecordsIntact ==
    /\ Len(node.slots) = Len(records)
    /\ \A i \in DOMAIN records :
          /\ node.slots[i].is_overflow => PgidAt(node, i) \in DOMAIN overflow
          /\ RecordAt(i) = records[i]
          /\ \A c \in Cells(node, i) :
                node.mem[c] = <<node.mem[node.slots[i].record_offset][1],
                                c - node.slots[i].record_offset>>

\* The space of the records that are there.
UsedSpace ==
    LET used[i \in 0 .. Len(records)] ==
            IF i = 0 THEN 0 ELSE used[i - 1] + StoredSize(Size(records[i]))
    IN  used[Len(records)]

\* The counters tell the truth: no record lies below data_offset or across
\* another, and the records never reach the slots, whatever Insert and Update
\* are called with.  As long as no overflow record has been overwritten, no
\* assertion fails and space_used is the space of the live records, so that
\* Insert and Update fail only if the record does not fit into the page at all
\* (what BTree assumes of Fits); in a leaf space_used is exact even after that.
SpaceIsExact ==
    /\ lost = {} => ~aborted
    /\ lost = {} \/ type = "leaf" => node.space_used = UsedSpace
    /\ SlotSpace(node) <= node.data_offset
    /\ \A i \in DOMAIN node.slots :
          /\ Cells(node, i) \subseteq node.data_offset .. (PageSize - 1)
          /\ \A j \in DOMAIN node.slots : i # j => Cells(node, i) \cap Cells(node, j) = {}

\* The allocated overflow records are those the slots refer to, each once, and
\* those that Update has overwritten: it frees none, and nothing else loses one.
\* A page that is lost is not used again (unless the program ended in Update).
OverflowAccountedFor ==
    LET in_slots == {i \in DOMAIN node.slots : node.slots[i].is_overflow}
        referred == {PgidAt(node, i) : i \in in_slots}
    IN  /\ DOMAIN overflow = referred \cup lost
        /\ ~aborted => referred \cap lost = {}
        /\ \A i, j \in in_slots : PgidAt(node, i) = PgidAt(node, j) => i = j

\* The left_child fields and tail_child are the children in their order, after
\* insertions and deletions on either side of a key.
ChildrenInOrder ==
    [i \in 1 .. Len(node.slots) + 1 |->
        IF i <= Len(node.slots) THEN node.slots[i].left_child ELSE node.tail_child]
    = IF type = "branch" THEN children ELSE [i \in 1 .. Len(node.slots) + 1 |-> NoChild]
=============================================================================
