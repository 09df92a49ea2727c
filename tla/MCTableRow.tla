----------------------------- MODULE MCTableRow -----------------------------
(* Instances of TableRow for TLC. *)
EXTENDS TableRow

CONSTANTS Index, Data, Extra, Status,  \* columns a table can have
          Present,       \* BOUND: the columns of this one
          v1, v2,
          MaxBindings,   \* BOUND: bindings in one request
          DataValues,    \* BOUND: what a data column is set to
          Commands       \* BOUND: what a row's status is set to

TableColumns == SelectSeq(<<Index, Data, Extra, Status>>, LAMBDA c : c \in Present)
Defaults == [c \in Present |-> NoValue]

Bindings ==
    [name : Rows \X {Data}, val : DataValues]
    \cup [name : Rows \X (Present \cap {Extra}), val : {v1}]
    \cup [name : Rows \X {Status}, val : Commands]

AnyRequest == UNION {[1 .. n -> Bindings] : n \in 1 .. MaxBindings}
=============================================================================
