------------------------------ MODULE Strings -------------------------------
(***************************************************************************)
(* The string functions (src/lib/string.c) on a small memory, loop by      *)
(* loop, against what each of them is for.  Pointers are addresses, and    *)
(* characters numbers; 0 ends a string.                                    *)
(***************************************************************************)
EXTENDS Integers, Sequences, SequencesExt, FiniteSetsExt

CONSTANTS
  MemorySize,  \* bytes of memory
  Chars        \* what a byte may hold

ASSUME StringsAssumption == MemorySize \in Nat /\ Chars \subseteq Nat /\ 0 \in Chars

VARIABLES mem, done
\* done: history: the call, its arguments, the memory before it and what it returned

stringVars == <<mem, done>>

Addresses == 0 .. MemorySize - 1
NoPlace   == -1

-----------------------------------------------------------------------------
(* The loops.  A loop that only moves a pointer ends at the first place from *)
(* p on where its condition fails.                                           *)

\* A byte; what lies behind the memory is none of Chars.
Byte(a) == IF a \in Addresses THEN mem[a] ELSE -1

From(p, Stop(_)) == Min({q \in p .. MemorySize : q = MemorySize \/ Stop(q)})

strlen(s) == From(s, LAMBDA q : mem[q] = 0) - s

memchr(s, c, n) ==
  LET q == From(s, LAMBDA x : x = s + n \/ mem[x] = c) IN IF q < s + n THEN q ELSE NoPlace

memcmp(s1, s2, n) ==
  LET k == From(0, LAMBDA x : x = n \/ Byte(s1 + x) # Byte(s2 + x))
  IN IF k = n THEN 0 ELSE Byte(s1 + k) - Byte(s2 + k)

\* n turns of "*p1 = *p2", from p1 and p2 on, in the direction over.
Copied(p1, p2, n, over) ==
  LET m[k \in 0 .. n] ==
        IF k = 0 THEN mem
        ELSE [m[k - 1] EXCEPT ![p1 + over * (k - 1)] = m[k - 1][p2 + over * (k - 1)]]
  IN m[n]

memcpy(s1, s2, n) == Copied(s1, s2, n, 1)

memmove_forward(s1, s2, n) == Copied(s1, s2, n, 1)
memmove(s1, s2, n) ==
  IF s2 <= s1 /\ s2 + n > s1 THEN Copied(s1 + n - 1, s2 + n - 1, n, -1)
  ELSE Copied(s1, s2, n, 1)

memset(s, c, n) == [a \in Addresses |-> IF a \in s .. s + n - 1 THEN c ELSE mem[a]]

strchr(s, c) ==
  LET q == From(s, LAMBDA x : mem[x] = 0 \/ mem[x] = c) IN IF mem[q] = 0 THEN NoPlace ELSE q

\* The last turn that finds c decides.
strrchr(s, c) ==
  LET r[k \in 0 .. strlen(s)] ==
        IF k = 0 THEN NoPlace ELSE IF mem[s + k - 1] = c THEN s + k - 1 ELSE r[k - 1]
  IN r[strlen(s)]

strcmp(s1, s2) ==
  LET k == From(0, LAMBDA x : Byte(s1 + x) = 0 \/ Byte(s2 + x) = 0 \/ Byte(s1 + x) # Byte(s2 + x))
  IN IF Byte(s1 + k) = 0 /\ Byte(s2 + k) # 0 THEN -1
     ELSE IF Byte(s1 + k) # 0 /\ Byte(s2 + k) = 0 THEN 1
     ELSE Byte(s1 + k) - Byte(s2 + k)

strcoll(s1, s2) ==
  LET k == From(0, LAMBDA x : Byte(s1 + x) # Byte(s2 + x) \/ Byte(s1 + x) = 0)
  IN Byte(s1 + k) - Byte(s2 + k)

strncmp(s1, s2, n) ==
  LET k == From(0, LAMBDA x : x = n \/ Byte(s1 + x) # Byte(s2 + x) \/ Byte(s1 + x) = 0)
  IN IF k = n \/ Byte(s1 + k) = Byte(s2 + k) THEN 0
     ELSE IF Byte(s1 + k) = 0 THEN -1
     ELSE IF Byte(s2 + k) = 0 THEN 1
     ELSE Byte(s1 + k) - Byte(s2 + k)

strcpy(s1, s2) == Copied(s1, s2, strlen(s2) + 1, 1)
strcat(s1, s2) == Copied(s1 + strlen(s1), s2, strlen(s2) + 1, 1)

\* The second loop fills what the first one leaves of n.
strncpy(s1, s2, n) ==
  LET k == IF strlen(s2) < n THEN strlen(s2) ELSE n
      c == Copied(s1, s2, k, 1)
  IN [a \in Addresses |-> IF a \in s1 + k .. s1 + n - 1 THEN 0 ELSE c[a]]

\* The copied 0 ends the loop before n does, or n does and a 0 follows.
strncat(s1, s2, n) ==
  LET e == s1 + strlen(s1)
  IN IF strlen(s2) < n THEN Copied(e, s2, strlen(s2) + 1, 1)
     ELSE [Copied(e, s2, n, 1) EXCEPT ![e + n] = 0]

\* Whether the inner loops of strpbrk and strspn find a character in the string s2.
Among(c, s2) == mem[From(s2, LAMBDA x : mem[x] = 0 \/ mem[x] = c)] # 0

strpbrk(s1, s2) ==
  LET q == From(s1, LAMBDA x : mem[x] = 0 \/ Among(mem[x], s2)) IN IF mem[q] = 0 THEN NoPlace ELSE q

strspn(s1, s2) == From(s1, LAMBDA x : mem[x] = 0 \/ ~Among(mem[x], s2)) - s1

\* The inner loop of strcspn leaves nothing but itself.
strcspn(s1, s2) == From(s1, LAMBDA x : mem[x] = 0) - s1

\* The loop does not heed the end of s1.
strstr(s1, s2) ==
  LET q == From(s1, LAMBDA x : strncmp(x, s2, strlen(s2)) = 0) IN IF Byte(q) = 0 THEN NoPlace ELSE q

-----------------------------------------------------------------------------
(* Calls. *)

\* The string at s, in memory m.
Str(m, s) == LET n == Min({k \in 0 .. MemorySize - s : s + k = MemorySize \/ m[s + k] = 0})
             IN [i \in 1 .. n |-> m[s + i - 1]]
IsString(s) == s + strlen(s) < MemorySize

\* Ranges of n bytes at a and b that do not overlap.
Apart(a, b, n) == a + n <= b \/ b + n <= a

StringsInit ==
  /\ mem \in [Addresses -> Chars]
  /\ done = [f |-> "none", a |-> 0, b |-> 0, n |-> 0, old |-> <<>>, ret |-> 0]

Return(f, a, b, n, new, ret) ==
  /\ mem' = new
  /\ done' = [f |-> f, a |-> a, b |-> b, n |-> n, old |-> mem, ret |-> ret]

Blocks(a, b, n) ==
  /\ a + n <= MemorySize /\ b + n <= MemorySize
  /\ \/ Return("memcmp", a, b, n, mem, memcmp(a, b, n))
     \/ Return("memmove", a, b, n, memmove(a, b, n), a)
     \/ Apart(a, b, n) /\ Return("memmove", a, b, n, memcpy(a, b, n), a)
     \/ \E c \in Chars : \/ Return("memset", a, c, n, memset(a, c, n), a)
                         \/ Return("memchr", a, c, n, mem, memchr(a, c, n))

\* strstr runs off the end of a string in which the other one does not occur.
Pairs(a, b, n) ==
  /\ IsString(a) /\ IsString(b)
  /\ \/ Return("strcmp", a, b, MemorySize, mem, strcmp(a, b))
     \/ Return("strcmp", a, b, MemorySize, mem, strcoll(a, b))
     \/ Return("strcmp", a, b, n, mem, strncmp(a, b, n))
     \/ Return("strspn", a, b, n, mem, strspn(a, b))
     \/ Return("strcspn", a, b, n, mem, strcspn(a, b))
     \/ Return("strpbrk", a, b, n, mem, strpbrk(a, b))
     \/ /\ \E x \in a .. a + strlen(a) : strncmp(x, b, strlen(b)) = 0
        /\ Return("strstr", a, b, n, mem, strstr(a, b))

\* Where the destination has room and is apart from the source.
Copies(a, b, n) ==
  /\ IsString(b)
  /\ \/ Apart(a, b, strlen(b) + 1) /\ a + strlen(b) < MemorySize
        /\ Return("strcpy", a, b, n, strcpy(a, b), a)
     \/ Apart(a, b, n) /\ Apart(a, b, strlen(b) + 1) /\ a + n <= MemorySize
        /\ Return("strncpy", a, b, n, strncpy(a, b, n), a)
     \/ /\ IsString(a)
        /\ LET total == strlen(a) + strlen(b) + 1
           IN Apart(a, b, total) /\ a + total <= MemorySize
        /\ \/ Return("strncat", a, b, MemorySize, strcat(a, b), a)
           \/ Return("strncat", a, b, n, strncat(a, b, n), a)

Scans(a, c) ==
  /\ IsString(a)
  /\ \/ Return("strchr", a, c, 0, mem, strchr(a, c))
     \/ Return("strrchr", a, c, 0, mem, strrchr(a, c))
     \/ Return("strlen", a, c, 0, mem, strlen(a))

StringsNext ==
  /\ done.f = "none"
  /\ \/ \E a, b, n \in Addresses : Blocks(a, b, n) \/ Pairs(a, b, n) \/ Copies(a, b, n)
     \/ \E a \in Addresses, c \in Chars : Scans(a, c)

StringsSpec == StringsInit /\ [][StringsNext]_stringVars

-----------------------------------------------------------------------------
(* Properties *)

Sign(n) == IF n < 0 THEN -1 ELSE IF n > 0 THEN 1 ELSE 0

\* The order of two sequences: that of the first elements that differ.
Compare(s, t) ==
  LET D == {i \in DOMAIN s \cap DOMAIN t : s[i] # t[i]}
  IN IF D # {} THEN Sign(s[Min(D)] - t[Min(D)]) ELSE Sign(Len(s) - Len(t))

Bytes(m, a, n) == [i \in 1 .. n |-> m[a + i - 1]]
First(s, n)    == SubSeq(s, 1, IF n < Len(s) THEN n ELSE Len(s))

\* The places of a string that a function may return, and the first of them.
In(s, C)   == {i \in DOMAIN s : s[i] \in C}
Place(a, I) == IF I = {} THEN NoPlace ELSE a + Min(I) - 1
Occurs(s, t) == {i \in 1 .. Len(s) - Len(t) + 1 : SubSeq(s, i, i + Len(t) - 1) = t}

\* The memory afterwards has the bytes bs at a, and is otherwise as it was.
Stored(a, bs) ==
  mem = [x \in Addresses |-> IF x \in a .. a + Len(bs) - 1 THEN bs[x - a + 1] ELSE done.old[x]]

\* Every function does what the C standard says of it, for every memory and all
\* arguments: moves survive overlap in either direction, nothing outside the destination
\* changes, and what is returned is right.  Excepted are a scan for 0, strcspn where there
\* is something to find, and strstr of a string that is empty.
StringsRight ==
  LET a == done.a
      b == done.b
      n == done.n
      s == Str(done.old, a)
      t == Str(done.old, b)
      zeros(k) == [i \in 1 .. k |-> 0]
      r == done.ret
      writes == CASE done.f = "memmove" -> Bytes(done.old, b, n)
                  [] done.f = "memset"  -> [i \in 1 .. n |-> b]
                  [] done.f = "strcpy"  -> t \o zeros(1)
                  [] done.f = "strncpy" -> First(t, n) \o zeros(n - Len(First(t, n)))
                  [] done.f = "strncat" -> s \o First(t, n) \o zeros(1)
                  [] OTHER              -> <<>>
  IN done.f # "none" =>
     /\ Stored(a, writes)
     /\ CASE writes # <<>> \/ done.f \in {"memmove", "memset", "strncpy"} -> r = a
          [] done.f = "memcmp"  -> Sign(r) = Compare(Bytes(mem, a, n), Bytes(mem, b, n))
          [] done.f = "memchr"  -> r = Place(a, In(Bytes(mem, a, n), {b}))
          [] done.f = "strlen"  -> r = Len(s)
          [] done.f = "strcmp"  -> Sign(r) = Compare(First(s, n), First(t, n))
          [] done.f = "strchr"  -> b # 0 => r = Place(a, In(s, {b}))
          [] done.f = "strrchr" -> b # 0 => r = IF In(s, {b}) = {} THEN NoPlace ELSE a + Max(In(s, {b})) - 1
          [] done.f = "strpbrk" -> r = Place(a, In(s, ToSet(t)))
          [] done.f = "strspn"  -> r = Min({k \in 0 .. Len(s) : k = Len(s) \/ s[k + 1] \notin ToSet(t)})
          [] done.f = "strcspn" -> In(s, ToSet(t)) = {} => r = Len(s)
          [] done.f = "strstr"  -> t # <<>> => r = Place(a, Occurs(s, t))
=============================================================================
