----------------------------- MODULE MC_Memory -----------------------------
EXTENDS Memory
\* A program of two segments; the second ends at a page table boundary.
MCImages == {{UMem, UMem + Tab - 1}}
\* Below the heap's beginning; one page of heap.
MCEnds == {UMem + 1, UMem + Tab + 1}
\* As far down as it goes; a page less; two more.
MCIncrs == {-(NPages \div 2), -1, 2}
=============================================================================
