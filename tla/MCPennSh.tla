------------------------------ MODULE MCPennSh ------------------------------
EXTENDS PennSh

\* All lines of at most five characters.
Characters == {"a", " ", "|", "&", "<", ">"}
MCLines == UNION {[1 .. n -> Characters] : n \in 0 .. 5}
=============================================================================
