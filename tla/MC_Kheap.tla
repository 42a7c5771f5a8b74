------------------------------ MODULE MC_Kheap ------------------------------
EXTENDS Kheap
\* Small blocks, a page table (a page on a page boundary), and more than the
\* heap can ever hold.
MCRequests == {<<1, 1>>, <<2, 1>>, <<Page, Page>>, <<Limit, 1>>}
=============================================================================
