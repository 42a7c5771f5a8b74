------------------------------ MODULE Strings ------------------------------
(***************************************************************************)
(* The string functions, kernel/lib/string.c and rlibc/string, which are   *)
(* the same code twice but for strchr: each as its loops compute it, over  *)
(* a memory of bytes, next to what the C standard says it is.  A loop is a *)
(* recursive function of the place it has come to or of its turns.         *)
(***************************************************************************)
EXTENDS Integers, Sequences, FiniteSetsExt

CONSTANTS
  StrSize,    \* bytes of memory; the last one stays 0
  StrChars,   \* characters, positive numbers
  Delims      \* the sets of delimiters strtok is called with

ASSUME StrAssumption ==
  /\ StrSize \in Nat \ {0} /\ StrChars \subseteq Nat \ {0}
  /\ \A D \in Delims : D # {} /\ D \subseteq StrChars

VARIABLES
  strMem,     \* the memory
  strText,    \* the memory before the first call of strtok
  strDelims,  \* the delimiters of these calls
  strLast,    \* strtok's static pointer, -1 for NULL
  strFound,   \* the tokens it returned: <<first, last>> byte of each
  strPhase    \* "new", "running", "ended": strtok returned NULL

strVars == <<strMem, strText, strDelims, strLast, strFound, strPhase>>

Null == -1
Place == 0 .. StrSize - 1

StrInit ==
  /\ strMem \in {m \in [Place -> StrChars \cup {0}] : m[StrSize - 1] = 0}
  /\ strText = strMem /\ strDelims \in Delims
  /\ strLast = Null /\ strFound = <<>> /\ strPhase = "new"

----------------------------------------------------------------------------
(* Looking *)

strlen(m, p) ==
  LET len[k \in Place] == IF m[k] = 0 THEN 0 ELSE 1 + len[k + 1] IN len[p]

(* With k bytes to go. *)
memchr(m, p, v, n) ==
  LET at[k \in 0 .. n] == IF k = 0 THEN Null
                          ELSE IF m[p + n - k] = v THEN p + n - k ELSE at[k - 1]
  IN at[n]

(* rlibc's strchr finds the terminator, the kernel's does not. *)
strchr(m, p, v) ==
  LET at[k \in Place] == IF m[k] = v THEN k ELSE IF m[k] = 0 THEN Null ELSE at[k + 1]
  IN at[p]

kernel_strchr(m, p, v) == IF v = 0 THEN Null ELSE strchr(m, p, v)

strrchr(m, p, v) ==
  LET back[end \in p - 1 .. p + strlen(m, p)] ==
        IF end < p THEN Null ELSE IF m[end] = v THEN end ELSE back[end - 1]
  IN back[p + strlen(m, p)]

strpbrk(m, p, q) ==
  LET at[k \in Place] == IF m[k] = 0 THEN Null
                         ELSE IF kernel_strchr(m, q, m[k]) # Null THEN k ELSE at[k + 1]
  IN at[p]

strcspn(m, p, q) ==
  IF strpbrk(m, p, q) = Null THEN strlen(m, p) ELSE strpbrk(m, p, q) - p

(* strspn counts every character of the accepted ones, not a prefix, and   *)
(* twice what is twice in q.                                               *)
strspn(m, p, q) ==
  LET count[k \in Place] ==
        IF m[k] = 0 THEN 0
        ELSE Cardinality({j \in q .. q + strlen(m, q) - 1 : m[j] = m[k]}) + count[k + 1]
  IN count[p]

\* Mutant: the last character of the sought string is not compared.
Mismatch_Short(m, p, q, n) ==
  CHOOSE k \in 1 .. n : /\ \A j \in 1 .. k - 1 : j = n - 1 \/ m[p + j] = m[q + j]
                        /\ k = n \/ (k < n - 1 /\ m[p + k] # m[q + k])

(* Where the inner loop of strstr leaves: n + 1 if the string ends with the *)
(* match, which strstr then takes for none.                                *)
Mismatch(m, p, q, n) ==
  CHOOSE k \in 1 .. n + 1 : /\ \A j \in 1 .. k - 1 : m[p + j] = m[q + j]
                            /\ k = n + 1 \/ m[p + k] # m[q + k]

strstr(m, p, q) ==
  LET at[k \in Place] ==
        LET r == strchr(m, k, m[q])
        IN IF m[k] = 0 \/ r = Null THEN Null
           ELSE IF Mismatch(m, r, q, strlen(m, q)) = strlen(m, q) THEN r
           ELSE at[r + 1]
  IN at[p]

----------------------------------------------------------------------------
(* Comparing *)

Sign(a, b) == IF a < b THEN -1 ELSE IF a > b THEN 1 ELSE 0

(* With k bytes to go. *)
memcmp(m, p, q, n) ==
  LET cmp[k \in 0 .. n] ==
        LET a == m[p + n - k]
            b == m[q + n - k]
        IN IF k = 0 THEN 0 ELSE IF a # b THEN Sign(a, b) ELSE cmp[k - 1]
  IN cmp[n]

(* The shorter string is the smaller one. *)
strcmp(m, p, q) ==
  IF strlen(m, p) # strlen(m, q) THEN strlen(m, p) - strlen(m, q)
  ELSE memcmp(m, p, q, strlen(m, p))

strncmp(m, p, q, n) ==
  LET cmp[k \in 0 .. n] ==
        LET a == p + n - k
            b == q + n - k
        IN IF k = 0 THEN 0
           ELSE IF strlen(m, a) < k /\ strlen(m, a) < strlen(m, b) THEN -1
           ELSE IF strlen(m, b) < k /\ strlen(m, b) < strlen(m, a) THEN 1
           ELSE IF m[a] # m[b] THEN Sign(m[a], m[b])
           ELSE IF m[a] = 0 THEN 0 ELSE cmp[k - 1]
  IN cmp[n]

----------------------------------------------------------------------------
(* Copying: the memory afterwards *)

memset(m, p, v, n) ==
  LET set[k \in 0 .. n] == IF k = 0 THEN m ELSE [set[k - 1] EXCEPT ![p + n - k] = v]
  IN set[n]

(* The memory after each of n turns of the loop of memcpy, and of strncpy. *)
Copied(m, d, s, n) ==
  LET cpy[k \in 0 .. n] ==
        IF k = 0 THEN m ELSE [cpy[k - 1] EXCEPT ![d + k - 1] = cpy[k - 1][s + k - 1]]
  IN cpy

memcpy(m, d, s, n) == Copied(m, d, s, n)[n]

\* Mutant: always from the front.
memmove_Forward(m, d, s, n) == memcpy(m, d, s, n)

(* Backwards, the loop ends before the first byte. *)
memmove(m, d, s, n) ==
  LET back[k \in 0 .. n - 1] ==
        IF k = 0 THEN m ELSE [back[k - 1] EXCEPT ![d + n - k] = back[k - 1][s + n - k]]
  IN IF n = 0 \/ s > d THEN memcpy(m, d, s, n) ELSE back[n - 1]

strcpy(m, d, s) == memcpy(m, d, s, strlen(m, s) + 1)

(* Without a terminator; the first byte is copied whatever it is. *)
strncpy(m, d, s, n) ==
  LET cpy == Copied(m, d, s, n)
      stops == {k \in 1 .. n : k = n \/ cpy[k][s + k] = 0}
  IN IF n = 0 THEN m ELSE cpy[Min(stops)]

(* The terminator is assigned to the pointer, not to where it points. *)
strncat(m, d, s, n) ==
  memcpy(m, d + strlen(m, d), s, Min({strlen(m, s), n}))
strcat(m, d, s) == memcpy(m, d + strlen(m, d), s, strlen(m, s))

----------------------------------------------------------------------------
(* strtok *)

IsDelim(c) == c \in strDelims

\* Mutant: a delimiter at the front of the rest is not skipped.
TokenStart_Here(p) == p

(* Past the delimiters in front. *)
TokenStart(p) == Min({k \in p .. StrSize - 1 : ~IsDelim(strMem[k])})
TokenEnd(p) == Min({k \in p .. StrSize - 1 : strMem[k] = 0 \/ IsDelim(strMem[k])})

strtok(from) ==
  LET start == TokenStart(from)
      end == TokenEnd(start)
  IN \/ /\ strMem[start] = 0 /\ strLast' = Null /\ strPhase' = "ended"
        /\ UNCHANGED <<strMem, strFound>>
     \/ /\ strMem[start] # 0
        /\ strMem' = [strMem EXCEPT ![end] = 0]
        /\ strLast' = IF strMem[end] = 0 THEN end ELSE end + 1
        /\ strFound' = Append(strFound, <<start, end - 1>>)
        /\ strPhase' = "running"

StrNext ==
  /\ \/ strPhase = "new" /\ strtok(0)
     \/ strPhase = "running" /\ strtok(strLast)
  /\ UNCHANGED <<strText, strDelims>>

StrSpec == StrInit /\ [][StrNext]_strVars

----------------------------------------------------------------------------
(* Properties *)

Str(m, p) == [k \in 1 .. strlen(m, p) |-> m[p + k - 1]]
Upto(s, n) == SubSeq(s, 1, Min({n, Len(s)}))
Inside(d, s, n) == d + n <= StrSize /\ s + n <= StrSize
Apart(d, s, n) == d + n <= s \/ s + n <= d

\* Occurrences of the string at q in the one at p.
Matches(m, p, q) ==
  {k \in p .. p + strlen(m, p) - strlen(m, q) :
     \A j \in 0 .. strlen(m, q) - 1 : m[k + j] = m[q + j]}

Letters(m, q) == {Str(m, q)[i] : i \in DOMAIN Str(m, q)}

\* Length of the first part of the string at p with characters of S only.
Prefix(m, p, S) ==
  Min({k \in 0 .. strlen(m, p) : k = strlen(m, p) \/ m[p + k] \notin S})

\* Nothing twice in the string at q, and none of its characters in the one at
\* p behind the first part.
SpanClear(m, p, q) ==
  /\ \A i, j \in DOMAIN Str(m, q) : Str(m, q)[i] = Str(m, q)[j] => i = j
  /\ \A k \in Prefix(m, p, Letters(m, q)) .. strlen(m, p) - 1 :
       m[p + k] \notin Letters(m, q)

\* The functions of string.c that look and compare find what string.h says,
\* over every memory and every pair of strings in it, whether they overlap or
\* not.  Nothing is said where the code is not up to it: the sign of strcmp
\* and strncmp, strspn when a character of str2 is repeated in it or comes
\* back in str1, and whether strstr finds a match that ends the string (when
\* it finds one, it is the first).
LooksRight ==
  LET m == strText
  IN strPhase = "ended" =>
     \A p, q \in Place :
       /\ (strcmp(m, p, q) = 0) = (Str(m, p) = Str(m, q))
       /\ \A n \in 0 .. StrSize :
            /\ (strncmp(m, p, q, n) = 0) =
                 (Upto(Str(m, p), n) = Upto(Str(m, q), n))
            /\ Inside(p, q, n) =>
                 (memcmp(m, p, q, n) = 0) = (\A k \in 0 .. n - 1 : m[p + k] = m[q + k])
       /\ strcspn(m, p, q) =
            Min({k \in 0 .. strlen(m, p) : k = strlen(m, p) \/ m[p + k] \in Letters(m, q)})
       /\ SpanClear(m, p, q) => strspn(m, p, q) = Prefix(m, p, Letters(m, q))
       /\ m[q] # 0 =>
            LET all == Matches(m, p, q)
                inside == all \ {p + strlen(m, p) - strlen(m, q)}
            IN /\ strstr(m, p, q) # Null => all # {} /\ strstr(m, p, q) = Min(all)
               /\ inside # {} => strstr(m, p, q) # Null
       /\ \A v \in StrChars \cup {0} :
            LET at == {k \in p .. p + strlen(m, p) : m[k] = v}
            IN /\ strchr(m, p, v) = (IF at = {} THEN Null ELSE Min(at))
               /\ memchr(m, p, v, strlen(m, p) + 1) = strchr(m, p, v)
               /\ strrchr(m, p, v) = (IF at = {} THEN Null ELSE Max(at))

\* What a copy of n bytes from s to d makes of the memory m, but for the place x.
CopiedBut(new, m, d, s, n, x) ==
  \A k \in Place \ {x} :
    new[k] = IF k \in d .. d + n - 1 THEN m[s + k - d] ELSE m[k]

\* The functions that copy put the bytes where string.h says and touch no
\* other one.  Nothing is said of two places where they do not: the first byte
\* of a memmove upwards (see MovesBlock), and the place of the terminator of
\* strcat and strncat.
CopiesRight ==
  LET m == strText
  IN strPhase = "ended" =>
     \A d, s \in Place :
       /\ \A n \in 0 .. StrSize - d :
            memset(m, d, m[s], n) =
              [k \in Place |-> IF k \in d .. d + n - 1 THEN m[s] ELSE m[k]]
       /\ \A n \in 0 .. StrSize : Inside(d, s, n) =>
            CopiedBut(memmove(m, d, s, n), m, d, s, n, IF d > s THEN d ELSE Null)
       /\ LET l == strlen(m, s)
          IN /\ Inside(d, s, l + 1) /\ Apart(d, s, l + 1) =>
                  Str(strcpy(m, d, s), d) = Str(m, s)
             /\ \A n \in 1 .. l :
                  Inside(d, s, l + 1) /\ Apart(d, s, l + 1) =>
                    strncpy(m, d, s, n) = memcpy(m, d, s, n)
             /\ LET e == d + strlen(m, d)
                IN Inside(e, s, l) /\ Apart(d, s, strlen(m, d) + l + 1) =>
                     /\ CopiedBut(strcat(m, d, s), m, e, s, l, e + l)
                     /\ \A n \in l .. StrSize :
                          CopiedBut(strncat(m, d, s, n), m, e, s, l, e + l)

\* "Move block of memory of size [num] bytes from [source] to [dest]".
\* Violated when dest is above source: the loop of memmove ends before the
\* first byte.
MovesBlock ==
  strPhase = "ended" =>
    \A d, s \in Place : \A n \in 0 .. StrSize : Inside(d, s, n) =>
      CopiedBut(memmove(strText, d, s, n), strText, d, s, n, Null)

\* The calls of strtok return the maximal runs of other characters between
\* the delimiters of the text, each once and in order, and nothing else,
\* though every call writes into the text the next ones read.
TokensSplit ==
  strPhase = "ended" =>
    LET end == strlen(strText, 0)
        In(k) == k \in 0 .. end - 1 /\ ~IsDelim(strText[k])
        Runs == {r \in Place \X Place :
                   /\ r[1] <= r[2] /\ \A k \in r[1] .. r[2] : In(k)
                   /\ ~In(r[1] - 1) /\ ~In(r[2] + 1)}
    IN /\ {strFound[i] : i \in DOMAIN strFound} = Runs
       /\ \A i \in DOMAIN strFound :
            i > 1 => strFound[i - 1][2] < strFound[i][1]

=============================================================================
