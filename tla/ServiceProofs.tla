--------------------------- MODULE ServiceProofs ---------------------------
(***************************************************************************)
(* Proofs about Service, for any executables, addresses, texts of names,   *)
(* config files, states of tailscaled, flags and number of commands,       *)
(* failures and changes.  About its texts: every spelling of a name is     *)
(* normalized to the name.  About its processes: the accepted host names   *)
(* are those they should be, however tailscaled changes or fails between   *)
(* the queries.  About its commands: what an install or an uninstall that  *)
(* reports success has done, under each manager.                           *)
(***************************************************************************)
EXTENDS Service, SequenceTheorems, TLAPS

(* Texts: the marks, and what is written between them.                     *)
LEMMA OnePiece ==
  ASSUME NEW S, NEW x \in S
  PROVE  <<x>> \in Seq(S) /\ Len(<<x>>) = 1 /\ <<x>>[1] = x
OBVIOUS

LEMMA TwoPieces ==
  ASSUME NEW S, NEW x \in S, NEW y \in S
  PROVE  <<x, y>> \in Seq(S) /\ Len(<<x, y>>) = 2 /\ <<x, y>>[1] = x /\ <<x, y>>[2] = y
OBVIOUS

LEMMA Marks ==
  /\ "." \in Pieces /\ ":" \in Pieces /\ "[" \in Pieces /\ "]" \in Pieces /\ "port" \in Pieces
BY DEF Pieces

LEMMA WrittenText ==
  ASSUME NEW n \in Names
  PROVE  /\ Written[n] \in Seq(Pieces) /\ Len(Written[n]) \in Nat \ {0} /\ Written[n] # << >>
         /\ DOMAIN Written[n] = 1 .. Len(Written[n])
         /\ Written[n][Len(Written[n])] # "."
         /\ \A i \in 1 .. Len(Written[n]) : Written[n][i] \notin {"[", "]"}
         /\ n \in V6 => \E i, j \in DOMAIN Written[n] :
                           i # j /\ Written[n][i] = ":" /\ Written[n][j] = ":"
         /\ n \notin V6 => \A i \in DOMAIN Written[n] : Written[n][i] # ":"
<1>1. Written[n] \in Seq(Labels \cup {".", ":"}) /\ Written[n] # << >>
  BY TextAssumption
<1>2. Written[n] \in Seq(Pieces)
  BY <1>1 DEF Pieces
<1>3. \A i \in 1 .. Len(Written[n]) : Written[n][i] \in Labels \cup {".", ":"}
  BY <1>1
<1>4. \A i \in 1 .. Len(Written[n]) : Written[n][i] \notin {"[", "]"}
  BY <1>3, TextAssumption
<1>5. Len(Written[n]) \in Nat \ {0} /\ DOMAIN Written[n] = 1 .. Len(Written[n])
  BY <1>1
<1> QED BY <1>1, <1>2, <1>4, <1>5, TextAssumption

(* Texts.                                                                  *)
LEMMA TrimmedTo ==
  ASSUME NEW t \in Seq(Pieces), NEW n \in 0 .. Len(t), n > 0 => t[n] # ".",
         \A i \in n + 1 .. Len(t) : t[i] = "."
  PROVE  TrimDots(t) = SubSeq(t, 1, n)
<1> DEFINE Fits(k) == /\ k > 0 => t[k] # "."
                      /\ \A i \in k + 1 .. Len(t) : t[i] = "."
           m == CHOOSE k \in 0 .. Len(t) : Fits(k)
<1>1. m \in 0 .. Len(t) /\ Fits(m)
  <2>1. \E k \in 0 .. Len(t) : Fits(k)
    OBVIOUS
  <2> HIDE DEF Fits
  <2> QED BY <2>1
<1>2. TrimDots(t) = SubSeq(t, 1, m)
  BY DEF TrimDots
<1> HIDE DEF m
<1>3. m = n
  <2>1. CASE m < n
    BY <1>1, <2>1
  <2>2. CASE m > n
    BY <1>1, <2>2
  <2> QED BY <1>1, <2>1, <2>2
<1> QED BY <1>2, <1>3

LEMMA CutBefore ==
  ASSUME NEW t \in Seq(Pieces), NEW mark, NEW n \in 0 .. Len(t), n < Len(t) => t[n + 1] = mark,
         \A i \in 1 .. n : t[i] # mark
  PROVE  Before(t, mark) = SubSeq(t, 1, n)
<1> DEFINE Fits(k) == /\ k < Len(t) => t[k + 1] = mark
                      /\ \A i \in 1 .. k : t[i] # mark
           m == CHOOSE k \in 0 .. Len(t) : Fits(k)
<1>1. m \in 0 .. Len(t) /\ Fits(m)
  <2>1. \E k \in 0 .. Len(t) : Fits(k)
    OBVIOUS
  <2> HIDE DEF Fits
  <2> QED BY <2>1
<1>2. Before(t, mark) = SubSeq(t, 1, m)
  BY DEF Before
<1> HIDE DEF m
<1>3. m = n
  <2>1. CASE m < n
    BY <1>1, <2>1
  <2>2. CASE m > n
    BY <1>1, <2>2
  <2> QED BY <1>1, <2>1, <2>2
<1> QED BY <1>2, <1>3

LEMMA FrontOf ==
  ASSUME NEW t \in Seq(Pieces), NEW rest \in Seq(Pieces)
  PROVE  SubSeq(t \o rest, 1, Len(t)) = t
BY SubSeqOfConcat1, SubSeqFull

(* A name with a dot after it or none.                                     *)
LEMMA DottedText ==
  ASSUME NEW n \in Names, NEW dot \in BOOLEAN
  PROVE  LET w == Written[n]
             u == Dotted(n, dot)
         IN  /\ w \in Seq(Pieces) /\ Len(w) \in Nat \ {0} /\ u \in Seq(Pieces)
             /\ Len(u) \in Nat /\ Len(w) =< Len(u)
             /\ \A i \in 1 .. Len(w) : u[i] = w[i]
             /\ \A i \in Len(w) + 1 .. Len(u) : u[i] = "."
             /\ SubSeq(u, 1, Len(w)) = w
<1>1. Written[n] \in Seq(Pieces) /\ Written[n] # << >>
  BY WrittenText
<1>2. Len(Written[n]) \in Nat \ {0}
  BY WrittenText
<1>3. CASE dot
  <2>1. Dotted(n, dot) = Written[n] \o <<".">>
    BY <1>3 DEF Dotted
  <2>2. <<".">> \in Seq(Pieces) /\ Len(<<".">>) = 1 /\ <<".">>[1] = "."
    BY OnePiece, Marks
  <2>3. SubSeq(Dotted(n, dot), 1, Len(Written[n])) = Written[n]
    BY <1>1, <2>1, <2>2, FrontOf
  <2> QED BY <1>1, <1>2, <2>1, <2>2, <2>3
<1>4. CASE ~dot
  <2>1. Dotted(n, dot) = Written[n]
    BY <1>1, <1>4 DEF Dotted
  <2> QED BY <1>1, <1>2, <2>1, SubSeqFull
<1> QED BY <1>3, <1>4

LEMMA DottedTrimmed ==
  ASSUME NEW n \in Names, NEW dot \in BOOLEAN
  PROVE  TrimDots(Dotted(n, dot)) = Written[n]
<1> DEFINE w == Written[n]
           u == Dotted(n, dot)
<1>1. /\ w \in Seq(Pieces) /\ Len(w) \in Nat \ {0} /\ u \in Seq(Pieces)
      /\ Len(u) \in Nat /\ Len(w) =< Len(u)
      /\ \A i \in 1 .. Len(w) : u[i] = w[i]
      /\ \A i \in Len(w) + 1 .. Len(u) : u[i] = "."
      /\ SubSeq(u, 1, Len(w)) = w
  BY DottedText
<1>2. w[Len(w)] # "."
  BY WrittenText
<1> HIDE DEF u, w
<1>3. TrimDots(u) = SubSeq(u, 1, Len(w))
  BY <1>1, <1>2, TrimmedTo
<1> QED BY <1>1, <1>3 DEF u, w

LEMMA NoMarks ==
  ASSUME NEW n \in Names, NEW dot \in BOOLEAN, NEW i \in 1 .. Len(Dotted(n, dot))
  PROVE  /\ Dotted(n, dot)[i] \notin {"[", "]"}
         /\ n \notin V6 => Dotted(n, dot)[i] # ":"
<1> DEFINE w == Written[n]
           u == Dotted(n, dot)
<1>1. /\ w \in Seq(Pieces) /\ Len(w) \in Nat /\ Len(u) \in Nat
      /\ \A j \in 1 .. Len(w) : u[j] = w[j]
      /\ \A j \in Len(w) + 1 .. Len(u) : u[j] = "."
  BY DottedText
<1>2. DOMAIN w = 1 .. Len(w)
  BY <1>1
<1>3. CASE i \in 1 .. Len(w)
  <2>1. w[i] \notin {"[", "]"} /\ (n \notin V6 => w[i] # ":")
    BY <1>2, <1>3, WrittenText
  <2> QED BY <1>1, <1>3, <2>1
<1>4. CASE i \in Len(w) + 1 .. Len(u)
  BY <1>1, <1>4
<1> QED BY <1>1, <1>3, <1>4

(* A bare name.                                                            *)
LEMMA BareNormalized ==
  ASSUME NEW n \in Names
  PROVE  HostOf(Written[n]) = Written[n]
<1> DEFINE w == Written[n]
<1>1. w \in Seq(Pieces) /\ Len(w) \in Nat \ {0} /\ w # << >> /\ DOMAIN w = 1 .. Len(w)
  BY WrittenText
<1>2. Head(w) # "["
  <2>1. Head(w) = w[1] /\ 1 \in DOMAIN w
    BY <1>1
  <2> QED BY <2>1, WrittenText
<1>3. ~OneColon(w)
  <2>1. CASE n \in V6
    <3>1. PICK i, j \in DOMAIN w : i # j /\ w[i] = ":" /\ w[j] = ":"
      BY <2>1, WrittenText
    <3> QED BY <3>1 DEF OneColon
  <2>2. CASE n \notin V6
    <3>1. \A i \in DOMAIN w : w[i] # ":"
      BY <2>2, WrittenText
    <3> QED BY <3>1 DEF OneColon
  <2> QED BY <2>1, <2>2
<1> QED BY <1>2, <1>3 DEF HostOf

LEMMA Untrimmed ==
  ASSUME NEW t \in Seq(Pieces), Len(t) > 0, t[Len(t)] # "."
  PROVE  TrimDots(t) = t
<1>1. Len(t) \in 0 .. Len(t) /\ \A i \in Len(t) + 1 .. Len(t) : t[i] = "."
  OBVIOUS
<1>2. TrimDots(t) = SubSeq(t, 1, Len(t))
  BY <1>1, TrimmedTo
<1> QED BY <1>2, SubSeqFull

(* A name that is not an IPv6 address, with a port.                        *)
LEMMA PortNormalized ==
  ASSUME NEW n \in Names \ V6, NEW dot \in BOOLEAN
  PROVE  LET h == Dotted(n, dot) \o <<":", "port">>
         IN  TrimDots(HostOf(TrimDots(h))) = Written[n]
<1> DEFINE u == Dotted(n, dot)
           port == <<":", "port">>
           h == u \o port
<1>1. u \in Seq(Pieces) /\ Len(u) \in Nat \ {0}
  BY DottedText
<1>2. \A i \in 1 .. Len(u) : u[i] \notin {"[", "]", ":"}
  BY NoMarks
<1> HIDE DEF u
<1>3. port \in Seq(Pieces) /\ Len(port) = 2 /\ port[1] = ":" /\ port[2] = "port"
  BY TwoPieces, Marks
<1>4. SubSeq(h, 1, Len(u)) = u
  BY <1>1, <1>3, FrontOf
<1>5. /\ h \in Seq(Pieces) /\ Len(h) = Len(u) + 2
      /\ \A i \in 1 .. Len(u) : h[i] = u[i]
      /\ h[Len(u) + 1] = ":" /\ h[Len(u) + 2] = "port"
  BY <1>1, <1>3
<1> HIDE DEF port, h
<1>6. TrimDots(h) = h
  BY <1>1, <1>5, Untrimmed
<1>7. Head(h) # "["
  <2>1. Head(h) = h[1] /\ h[1] = u[1]
    BY <1>1, <1>5
  <2> QED BY <1>1, <1>2, <2>1
<1>8. OneColon(h)
  <2>1. DOMAIN h = 1 .. Len(u) + 2 /\ Len(u) + 1 \in DOMAIN h
    BY <1>1, <1>5
  <2>2. \A j \in DOMAIN h : h[j] = ":" <=> j = Len(u) + 1
    <3> SUFFICES ASSUME NEW j \in 1 .. Len(u) + 2 PROVE h[j] = ":" <=> j = Len(u) + 1
      BY <2>1
    <3>1. CASE j \in 1 .. Len(u)
      BY <1>1, <1>2, <1>5, <3>1
    <3>2. CASE j = Len(u) + 1
      BY <1>5, <3>2
    <3>3. CASE j = Len(u) + 2
      BY <1>1, <1>5, <3>3
    <3> QED BY <1>1, <3>1, <3>2, <3>3
  <2> QED BY <2>1, <2>2 DEF OneColon
<1>9. Before(h, ":") = u
  <2>1. \A i \in 1 .. Len(u) : h[i] # ":"
    BY <1>2, <1>5
  <2>2. Len(u) \in 0 .. Len(h)
    BY <1>1, <1>5
  <2>3. Before(h, ":") = SubSeq(h, 1, Len(u))
    BY <1>5, <2>1, <2>2, CutBefore
  <2> QED BY <1>4, <2>3
<1>10. HostOf(h) = u
  BY <1>7, <1>8, <1>9 DEF HostOf
<1> QED BY <1>6, <1>10, DottedTrimmed DEF u, port, h

(* Any name in brackets, with a port or none.                              *)
LEMMA BracketsNormalized ==
  ASSUME NEW n \in Names, NEW dot \in BOOLEAN, NEW rest \in Seq(Pieces),
         Len(rest) > 0, rest[1] = "]", rest[Len(rest)] # "."
  PROVE  LET h == <<"[">> \o (Dotted(n, dot) \o rest)
         IN  TrimDots(HostOf(TrimDots(h))) = Written[n]
<1> DEFINE u == Dotted(n, dot)
           t == u \o rest
           h == <<"[">> \o t
<1>1. u \in Seq(Pieces) /\ Len(u) \in Nat \ {0}
  BY DottedText
<1>2. \A i \in 1 .. Len(u) : u[i] # "]"
  BY NoMarks
<1> HIDE DEF u
<1>3. Len(rest) \in Nat \ {0}
  OBVIOUS
<1>4. SubSeq(t, 1, Len(u)) = u
  BY <1>1, <1>3, FrontOf
<1>5. /\ t \in Seq(Pieces) /\ Len(t) = Len(u) + Len(rest)
      /\ \A i \in 1 .. Len(u) : t[i] = u[i]
      /\ t[Len(u) + 1] = "]" /\ t[Len(t)] # "."
  <2>1. t \in Seq(Pieces) /\ Len(t) = Len(u) + Len(rest) /\ \A i \in 1 .. Len(u) : t[i] = u[i]
    BY <1>1, <1>3
  <2>2. \A i \in 1 .. Len(rest) : t[Len(u) + i] = rest[i]
    BY <1>1, <1>3
  <2> QED BY <1>1, <1>3, <2>1, <2>2
<1> HIDE DEF t
<1>6. /\ h \in Seq(Pieces) /\ Len(h) = Len(t) + 1 /\ h # << >> /\ Head(h) = "[" /\ Tail(h) = t
      /\ h[Len(h)] # "."
  <2>1. <<"[">> \in Seq(Pieces) /\ Len(<<"[">>) = 1 /\ <<"[">>[1] = "["
    BY OnePiece, Marks
  <2>2. /\ h \in Seq(Pieces) /\ Len(h) = Len(t) + 1 /\ h[1] = "["
        /\ \A i \in 1 .. Len(t) : h[i + 1] = t[i]
    BY <1>5, <2>1
  <2>3. Len(t) \in 1 .. Len(t)
    BY <1>1, <1>3, <1>5
  <2>4. h[Len(h)] = t[Len(t)]
    BY <2>2, <2>3
  <2>5. h # << >> /\ Head(h) = "["
    BY <2>2, <2>3
  <2>6. Tail(h) = t
    <3>1. Tail(h) \in Seq(Pieces) /\ Len(Tail(h)) = Len(t)
      BY <2>2, <2>5, <2>3
    <3>2. \A i \in 1 .. Len(t) : Tail(h)[i] = t[i]
      BY <2>2, <2>5, <2>3
    <3> QED BY <1>5, <3>1, <3>2, SeqEqual
  <2> QED BY <1>5, <2>2, <2>4, <2>5, <2>6
<1> HIDE DEF h
<1>7. TrimDots(h) = h
  <2>1. Len(h) > 0
    BY <1>1, <1>3, <1>5, <1>6
  <2> QED BY <1>6, <2>1, Untrimmed
<1>8. Before(t, "]") = u
  <2>1. \A i \in 1 .. Len(u) : t[i] # "]"
    BY <1>2, <1>5
  <2>2. Len(u) \in 0 .. Len(t)
    BY <1>1, <1>3, <1>5
  <2>3. Before(t, "]") = SubSeq(t, 1, Len(u))
    BY <1>5, <2>1, <2>2, CutBefore
  <2> QED BY <1>4, <2>3
<1>9. HostOf(h) = u
  BY <1>6, <1>8 DEF HostOf
<1> QED BY <1>7, <1>9, DottedTrimmed DEF u, t, h

(* Whatever form a name is written in, normalize_host makes it that name.  *)
LEMMA SpellingNormalized ==
  ASSUME NEW n \in Names, NEW h \in Spellings[n]
  PROVE  h \in Texts /\ Normalized[h] = Written[n]
<1>1. PICK f \in Forms(n) : h = Spelled(n, f)
  BY DEF Spellings
<1>2. /\ f.dot \in BOOLEAN /\ f.port \in BOOLEAN /\ f.brackets \in BOOLEAN
      /\ f.port /\ n \in V6 => f.brackets
  BY DEF Forms
<1>3. TrimDots(HostOf(TrimDots(h))) = Written[n]
  <2>1. CASE f.brackets
    <3> DEFINE close == <<"]">>
               port == IF f.port THEN <<":", "port">> ELSE << >>
               rest == close \o port
    <3>1. h = <<"[">> \o (Dotted(n, f.dot) \o rest)
      BY <1>1, <2>1 DEF Spelled
    <3>2. close \in Seq(Pieces) /\ Len(close) = 1 /\ close[1] = "]"
      BY OnePiece, Marks
    <3>3. port \in Seq(Pieces) /\ Len(port) \in {0, 2} /\ (Len(port) = 2 => port[2] = "port")
      BY TwoPieces, Marks
    <3> HIDE DEF close, port
    <3>4. /\ rest \in Seq(Pieces) /\ Len(rest) = 1 + Len(port) /\ rest[1] = close[1]
          /\ Len(port) = 2 => rest[3] = port[2]
      BY <3>2, <3>3, ConcatProperties
    <3>5. rest[Len(rest)] # "."
      BY <3>2, <3>3, <3>4
    <3> HIDE DEF rest
    <3> QED BY <1>2, <3>1, <3>2, <3>3, <3>4, <3>5, BracketsNormalized
  <2>2. CASE ~f.brackets /\ f.port
    <3>1. h = Dotted(n, f.dot) \o <<":", "port">>
      BY <1>1, <2>2 DEF Spelled
    <3> QED BY <1>2, <2>2, <3>1, PortNormalized
  <2>3. CASE ~f.brackets /\ ~f.port
    <3>1. Dotted(n, f.dot) \in Seq(Pieces)
      BY <1>2, DottedText
    <3>2. h = Dotted(n, f.dot)
      BY <1>1, <2>3, <3>1 DEF Spelled
    <3>3. TrimDots(Written[n]) = Written[n]
      BY WrittenText, Untrimmed
    <3> QED BY <1>2, <3>2, <3>3, DottedTrimmed, BareNormalized
  <2> QED BY <2>1, <2>2, <2>3
<1>4. h \in Texts
  BY DEF Texts, Headers
<1> QED BY <1>3, <1>4 DEF Normalized

LEMMA EmptyTrimmed ==
  ASSUME NEW t \in Seq(Pieces), Len(t) = 0
  PROVE  TrimDots(t) = t
<1>1. /\ 0 \in 0 .. Len(t) /\ (0 > 0 => t[0] # ".")
      /\ \A i \in 0 + 1 .. Len(t) : t[i] = "."
  OBVIOUS
<1>2. TrimDots(t) = SubSeq(t, 1, 0)
  BY <1>1, TrimmedTo
<1> QED BY <1>2, SubSeqFull

LEMMA EmptyNormalized == << >> \in Texts /\ Normalized[<< >>] = << >>
<1>1. TrimDots(<< >>) = << >>
  <2>1. << >> \in Seq(Pieces) /\ Len(<< >>) = 0
    BY EmptySeq
  <2> QED BY <2>1, EmptyTrimmed
<1>2. HostOf(<< >>) = << >>
  BY DEF HostOf, OneColon
<1>3. << >> \in Texts
  BY DEF Texts
<1> QED BY <1>1, <1>2, <1>3 DEF Normalized

-----------------------------------------------------------------------------
(* Processes.                                                              *)
Fields == {"at", "bin", "opts", "hand", "found", "read", "addr", "hosts", "since", "missed"}
Shaped(s) == s = [f \in Fields |-> s[f]]

(* What a process has found out, while tailscaled is as `net` says.        *)
Knows(s, net) ==
  /\ s.at \notin {"gone", "failed", "ended"} => s.since \subseteq Nets /\ net \in s.since
  /\ s.at \in {"bind", "ips", "names", "listen", "serving"} =>
       s.read \in Configs /\ \E t \in s.since : s.found = t.found

Named(s) == s.at \in {"ips", "names", "listen", "serving"} /\ ~s.opts.dev => s.addr \in Names

(* The accepted names are no others than they may be,                      *)
Sound(s) ==
  /\ s.at = "names" /\ ~s.opts.dev => s.hosts \subseteq Write({s.addr} \cup Once(s))
  /\ s.at \in {"listen", "serving"} /\ ~s.opts.dev =>
       s.hosts \subseteq Write({s.addr} \cup Meant(s) \cup Once(s))

(* and all of those, if tailscaled has stayed as it was and has answered.  *)
Quiet(s, t) == ~s.missed /\ s.since = {t} /\ t.found /\ t.up
Complete(s) ==
  /\ s.at \in {"names", "listen", "serving"} /\ ~s.opts.dev =>
       /\ Written[s.addr] \in s.hosts
       /\ \A t : Quiet(s, t) => Write(AddressesIn(t)) \subseteq s.hosts
  /\ s.at \in {"listen", "serving"} /\ ~s.opts.dev =>
       /\ Write(Meant(s)) \subseteq s.hosts
       /\ \A t : Quiet(s, t) => Write(t.names) \subseteq s.hosts

Good(s, net) == Shaped(s) /\ Knows(s, net) /\ Named(s) /\ Sound(s) /\ Complete(s)
ServeInv == /\ config \in Edits /\ tailnet \in Nets
            /\ serve = [p \in Procs |-> serve[p]]
            /\ \A p \in Procs : Good(serve[p], tailnet)

LEMMA GoneIsGood == ASSUME NEW net PROVE Good(Gone, net)
BY DEF Good, Shaped, Fields, Knows, Named, Sound, Complete, Gone

LEMMA LaunchedIs ==
  ASSUME NEW bin, NEW opts, NEW hand
  PROVE  LET s == Launched(bin, opts, hand)
         IN  /\ Shaped(s) /\ s.at = "load" /\ s.since = {tailnet} /\ s.bin = bin /\ s.hand = hand
BY DEF Launched, Gone, Shaped, Fields

LEMMA LaunchedIsGood ==
  ASSUME ServeInv, NEW bin, NEW opts, NEW hand
  PROVE  Good(Launched(bin, opts, hand), tailnet)
<1> DEFINE s == Launched(bin, opts, hand)
<1>1. Shaped(s) /\ s.at = "load" /\ s.since = {tailnet}
  BY LaunchedIs
<1> HIDE DEF s
<1>2. Good(s, tailnet)
  BY <1>1 DEF ServeInv, Good, Knows, Named, Sound, Complete
<1> QED BY <1>2 DEF s

(* A process that ends, or listens once it has its names.                  *)
LEMMA EnteredIsGood ==
  ASSUME NEW s, NEW net, Good(s, net), NEW at,
         at \in {"failed", "ended"} \/ (at = "serving" /\ s.at = "listen")
  PROVE  Good([s EXCEPT !.at = at], net)
<1> DEFINE t == [s EXCEPT !.at = at]
<1>1. /\ Shaped(t) /\ t.at = at /\ t.opts = s.opts /\ t.read = s.read /\ t.addr = s.addr
      /\ t.hosts = s.hosts /\ t.since = s.since /\ t.missed = s.missed /\ t.found = s.found
  BY DEF Good, Shaped, Fields
<1> HIDE DEF t
<1>2. Once(t) = Once(s) /\ Meant(t) = Meant(s)
  BY <1>1 DEF Once, Meant
<1>3. Knows(t, net) /\ Named(t)
  BY <1>1 DEF Good, Knows, Named
<1>4. Sound(t)
  BY <1>1, <1>2 DEF Good, Sound
<1>5. Complete(t)
  BY <1>1, <1>2 DEF Good, Complete, Quiet
<1> QED
  BY <1>1, <1>3, <1>4, <1>5 DEF Good, t

LEMMA LoadedIsGood ==
  ASSUME NEW s, NEW net, Good(s, net), s.at = "load", NEW read \in Configs
  PROVE  Good([s EXCEPT !.at = "bind", !.read = read, !.found = net.found], net)
<1> DEFINE t == [s EXCEPT !.at = "bind", !.read = read, !.found = net.found]
<1>1. Shaped(t) /\ t.at = "bind" /\ t.read = read /\ t.found = net.found /\ t.since = s.since
  BY DEF Good, Shaped, Fields
<1> HIDE DEF t
<1>2. Knows(t, net)
  BY <1>1 DEF Good, Knows
<1>3. Good(t, net)
  BY <1>1, <1>2 DEF Good, Named, Sound, Complete
<1> QED BY <1>3 DEF t

LEMMA ChosenIsGood ==
  ASSUME NEW s, NEW net, Good(s, net), s.at = "bind", NEW addr, Passes(s, addr)
  PROVE  Good([s EXCEPT !.at = "ips", !.addr = addr], net)
<1> DEFINE t == [s EXCEPT !.at = "ips", !.addr = addr]
<1>1. /\ Shaped(t) /\ t.at = "ips" /\ t.addr = addr /\ t.opts = s.opts
      /\ t.read = s.read /\ t.found = s.found /\ t.since = s.since
  BY DEF Good, Shaped, Fields
<1> HIDE DEF t
<1>2. ~s.opts.dev => addr \in Names
  BY AddressAssumption DEF Passes, Names
<1>3. Knows(t, net) /\ Named(t)
  BY <1>1, <1>2 DEF Good, Knows, Named
<1>4. Good(t, net)
  BY <1>1, <1>3 DEF Good, Sound, Complete
<1> QED BY <1>4 DEF t

(* What a query of tailscaled gives is its own, and all of it if it can    *)
(* answer and does.                                                        *)
LEMMA HeardIs ==
  ASSUME NEW p \in Procs, Knows(serve[p], tailnet), tailnet \in Nets,
         serve[p].at \in {"ips", "names"}, NEW got \in BOOLEAN, NEW names,
         names = OwnAddresses \/ names = tailnet.names
  PROVE  /\ Heard(p, got, names) \subseteq Once(serve[p]) \cap Names
         /\ \A t : got /\ serve[p].since = {t} /\ t.found /\ t.up =>
               t = tailnet /\ Heard(p, got, names) = names
<1>1. tailnet \in serve[p].since /\ \E t \in serve[p].since : serve[p].found = t.found
  BY DEF Knows
<1>2. tailnet.ips \in Seq(Addresses) /\ tailnet.names \subseteq DnsNames
  BY ServiceAssumption DEF Networks
<1>3. names \subseteq Names
  BY <1>2 DEF OwnAddresses, AddressesIn, Names
<1>4. tailnet.up => names \subseteq Once(serve[p])
  <2> SUFFICES ASSUME tailnet.up PROVE names \subseteq Once(serve[p])
    OBVIOUS
  <2>1. names \subseteq Own(tailnet)
    BY DEF Own, OwnAddresses
  <2> QED BY <1>1, <2>1 DEF Once
<1>5. Heard(p, got, names) \subseteq Once(serve[p]) \cap Names
  BY <1>3, <1>4 DEF Heard, Answers
<1>6. ASSUME NEW t, got, serve[p].since = {t}, t.found, t.up
      PROVE  t = tailnet /\ Heard(p, got, names) = names
  <2>1. t = tailnet
    BY <1>1, <1>6
  <2>2. serve[p].found
    BY <1>1, <1>6
  <2> QED BY <1>6, <2>1, <2>2 DEF Heard, Answers
<1> QED BY <1>5, <1>6

LEMMA AskedIpsIsGood ==
  ASSUME NEW p \in Procs, Good(serve[p], tailnet), tailnet \in Nets, serve[p].at = "ips",
         NEW got \in BOOLEAN
  PROVE  Good([serve[p] EXCEPT !.at = "names", !.missed = ~got,
                 !.hosts = Write({serve[p].addr} \cup Heard(p, got, OwnAddresses))], tailnet)
<1> DEFINE s == serve[p]
           hosts == Write({s.addr} \cup Heard(p, got, OwnAddresses))
           t == [s EXCEPT !.at = "names", !.missed = ~got, !.hosts = hosts]
<1>1. /\ Shaped(t) /\ t.at = "names" /\ t.addr = s.addr /\ t.opts = s.opts /\ t.read = s.read
      /\ t.found = s.found /\ t.since = s.since /\ t.missed = ~got /\ t.hosts = hosts
  BY DEF Good, Shaped, Fields
<1>2. /\ Heard(p, got, OwnAddresses) \subseteq Once(s) \cap Names
      /\ \A u : got /\ s.since = {u} /\ u.found /\ u.up =>
            u = tailnet /\ Heard(p, got, OwnAddresses) = OwnAddresses
  BY HeardIs DEF Good
<1> HIDE DEF t
<1>3. Knows(t, tailnet) /\ Named(t)
  BY <1>1 DEF Good, Knows, Named
<1>4. Once(t) = Once(s)
  BY <1>1 DEF Once
<1>5. Sound(t)
  BY <1>1, <1>2, <1>4 DEF Sound, Write
<1>6. Complete(t)
  <2>1. Written[t.addr] \in t.hosts
    BY <1>1 DEF Write
  <2>2. ASSUME NEW u, Quiet(t, u) PROVE Write(AddressesIn(u)) \subseteq t.hosts
    <3>1. got /\ s.since = {u} /\ u.found /\ u.up
      BY <1>1, <2>2 DEF Quiet
    <3>2. u = tailnet /\ Heard(p, got, OwnAddresses) = OwnAddresses
      BY <1>2, <3>1
    <3> QED BY <1>1, <3>2 DEF Write, OwnAddresses
  <2> QED BY <1>1, <2>1, <2>2 DEF Complete
<1>7. Good(t, tailnet)
  BY <1>1, <1>3, <1>5, <1>6 DEF Good
<1> QED BY <1>7 DEF t

(* The names a process may come to accept are names.                       *)
LEMMA OnceNames ==
  ASSUME NEW s, NEW net, Knows(s, net), s.at \notin {"gone", "failed", "ended"}
  PROVE  Once(s) \subseteq Names
<1> SUFFICES ASSUME NEW t \in s.since PROVE Own(t) \subseteq Names
  BY DEF Once
<1>1. t.ips \in Seq(Addresses) /\ t.names \subseteq DnsNames
  BY ServiceAssumption DEF Knows, Networks
<1> QED BY <1>1 DEF Own, AddressesIn, Names

LEMMA WrittenIsNormal ==
  ASSUME NEW n \in Names
  PROVE  Written[n] \in Texts /\ Normalized[Written[n]] = Written[n] /\ Written[n] # << >>
<1> DEFINE f == [dot |-> FALSE, brackets |-> FALSE, port |-> FALSE]
<1>1. f \in Forms(n)
  BY DEF Forms
<1>2. Spelled(n, f) = Written[n]
  <2>1. Written[n] \in Seq(Pieces)
    BY WrittenText
  <2>2. Spelled(n, f) = (Written[n] \o << >>) \o << >>
    BY DEF Spelled, Dotted
  <2> QED BY <2>1, <2>2, ConcatEmptySeq
<1>3. Written[n] \in Spellings[n]
  BY <1>1, <1>2 DEF Spellings
<1> QED BY <1>3, SpellingNormalized, WrittenText

(* What is made of the names collected and the texts of the config.        *)
LEMMA HostAllowIs ==
  ASSUME NEW names \in SUBSET Names, NEW s, s.read \in Configs,
         NEW texts, texts = Write(names) \cup s.read.hosts
  PROVE  HostAllow(texts) = Write(names \cup Meant(s))
<1>1. s.read.hosts \subseteq Texts
  BY DEF Configs
<1>2. ASSUME NEW x \in HostAllow(texts) PROVE x \in Write(names \cup Meant(s))
  <2>1. PICK h \in texts : x = Normalized[h] /\ x # << >>
    BY DEF HostAllow
  <2>2. CASE h \in Write(names)
    <3>1. PICK n \in names : h = Written[n]
      BY <2>2 DEF Write
    <3> QED BY <2>1, <3>1, WrittenIsNormal DEF Write
  <2>3. CASE h \in s.read.hosts
    <3>1. h # << >>
      BY <2>1, EmptyNormalized
    <3>2. PICK n \in Names : h \in Spellings[n]
      BY <1>1, <2>3, <3>1 DEF Texts, Headers
    <3>3. n \in Meant(s)
      BY <2>3, <3>2 DEF Meant
    <3> QED BY <2>1, <3>2, <3>3, SpellingNormalized DEF Write
  <2> QED BY <2>1, <2>2, <2>3
<1>3. ASSUME NEW n \in names \cup Meant(s) PROVE Written[n] \in HostAllow(texts)
  <2>1. CASE n \in names
    <3>1. Written[n] \in texts
      BY <2>1 DEF Write
    <3> QED BY <2>1, <3>1, WrittenIsNormal DEF HostAllow
  <2>2. CASE n \in Meant(s)
    <3>1. PICK h \in Spellings[n] : h \in s.read.hosts /\ n \in Names
      BY <2>2 DEF Meant
    <3>2. h \in texts /\ Normalized[h] = Written[n] /\ Written[n] # << >>
      BY <3>1, SpellingNormalized, WrittenIsNormal
    <3> QED BY <3>2 DEF HostAllow
  <2> QED BY <2>1, <2>2
<1> QED BY <1>2, <1>3 DEF Write

LEMMA AskedNamesIsGood ==
  ASSUME NEW p \in Procs, Good(serve[p], tailnet), tailnet \in Nets, serve[p].at = "names",
         NEW got \in BOOLEAN
  PROVE  Good([serve[p] EXCEPT !.at = "listen", !.missed = serve[p].missed \/ ~got,
                 !.hosts = HostAllow(Collected(p, got))], tailnet)
<1> DEFINE s == serve[p]
           hosts == HostAllow(Collected(p, got))
           missed == s.missed \/ ~got
           t == [s EXCEPT !.at = "listen", !.missed = missed, !.hosts = hosts]
<1>1. /\ Shaped(t) /\ t.at = "listen" /\ t.addr = s.addr /\ t.opts = s.opts /\ t.read = s.read
      /\ t.found = s.found /\ t.since = s.since /\ t.missed = missed /\ t.hosts = hosts
  BY DEF Good, Shaped, Fields
<1>2. /\ Heard(p, got, tailnet.names) \subseteq Once(s) \cap Names
      /\ \A u : got /\ s.since = {u} /\ u.found /\ u.up =>
            u = tailnet /\ Heard(p, got, tailnet.names) = tailnet.names
  BY HeardIs DEF Good
<1>3. Once(s) \subseteq Names /\ s.read \in Configs
  BY OnceNames DEF Good, Knows
<1> HIDE DEF t
<1>4. Knows(t, tailnet) /\ Named(t)
  BY <1>1 DEF Good, Knows, Named
<1>5. Once(t) = Once(s) /\ Meant(t) = Meant(s)
  BY <1>1 DEF Once, Meant
<1>6. ASSUME ~s.opts.dev PROVE Sound(t) /\ Complete(t)
  <2>1. PICK before \in SUBSET Names : s.hosts = Write(before) /\ before \subseteq {s.addr} \cup Once(s)
    <3> DEFINE accepted == {n \in {s.addr} \cup Once(s) : Written[n] \in s.hosts}
    <3>1. s.hosts \subseteq Write({s.addr} \cup Once(s)) /\ s.addr \in Names
      BY <1>6 DEF Good, Sound, Named
    <3>2. accepted \in SUBSET Names /\ accepted \subseteq {s.addr} \cup Once(s)
      BY <1>3, <3>1
    <3>3. s.hosts = Write(accepted)
      BY <3>1 DEF Write
    <3> QED BY <3>2, <3>3
  <2> DEFINE names == before \cup Heard(p, got, tailnet.names)
  <2>2. Collected(p, got) = Write(names) \cup s.read.hosts
    BY <1>6, <2>1 DEF Collected, Write
  <2>3. names \in SUBSET Names
    BY <1>2, <2>1
  <2>4. hosts = Write(names \cup Meant(s))
    BY <1>3, <2>2, <2>3, HostAllowIs
  <2>5. names \subseteq {s.addr} \cup Once(s)
    BY <1>2, <2>1
  <2>6. Sound(t)
    BY <1>1, <1>5, <2>4, <2>5 DEF Sound, Write
  <2>7. /\ Written[s.addr] \in s.hosts
        /\ \A u : Quiet(s, u) => Write(AddressesIn(u)) \subseteq s.hosts
    BY <1>6 DEF Good, Complete
  <2>8. Write(before) \subseteq hosts /\ Write(Meant(s)) \subseteq hosts
        /\ Write(Heard(p, got, tailnet.names)) \subseteq hosts
    BY <2>4 DEF Write
  <2>9. ASSUME NEW u, Quiet(t, u)
        PROVE  Write(AddressesIn(u)) \subseteq hosts /\ Write(u.names) \subseteq hosts
    <3>1. Quiet(s, u) /\ got /\ s.since = {u} /\ u.found /\ u.up
      BY <1>1, <2>9 DEF Quiet
    <3>2. u = tailnet /\ Heard(p, got, tailnet.names) = tailnet.names
      BY <1>2, <3>1
    <3> QED BY <2>1, <2>7, <2>8, <3>1, <3>2
  <2>10. Complete(t)
    BY <1>1, <1>5, <2>1, <2>7, <2>8, <2>9 DEF Complete
  <2> QED BY <2>6, <2>10
<1>7. ASSUME s.opts.dev PROVE Sound(t) /\ Complete(t)
  BY <1>1, <1>7 DEF Sound, Complete
<1>8. Good(t, tailnet)
  BY <1>1, <1>4, <1>6, <1>7 DEF Good
<1> QED BY <1>8 DEF t

LEMMA RenumberedIsGood ==
  ASSUME NEW s, NEW net, Good(s, net), NEW new \in Nets \ {net},
         s.at \notin {"gone", "failed", "ended"}
  PROVE  Good([s EXCEPT !.since = @ \cup {new}], new)
<1> DEFINE since == s.since \cup {new}
           t == [s EXCEPT !.since = since]
<1>1. /\ Shaped(t) /\ t.at = s.at /\ t.addr = s.addr /\ t.opts = s.opts /\ t.read = s.read
      /\ t.found = s.found /\ t.since = since /\ t.missed = s.missed /\ t.hosts = s.hosts
  BY DEF Good, Shaped, Fields
<1>2. net \in s.since /\ s.since \subseteq Nets
  BY DEF Good, Knows
<1> HIDE DEF t
<1>3. Once(s) \subseteq Once(t) /\ Meant(t) = Meant(s)
  BY <1>1 DEF Once, Meant
<1>4. Knows(t, new) /\ Named(t)
  BY <1>1, <1>2 DEF Good, Knows, Named
<1>5. Sound(t)
  BY <1>1, <1>3 DEF Good, Sound, Write
<1>6. \A u : ~Quiet(t, u)
  BY <1>1, <1>2 DEF Quiet
<1>7. Complete(t)
  BY <1>1, <1>3, <1>6 DEF Good, Complete
<1>8. Good(t, new)
  BY <1>1, <1>4, <1>5, <1>7 DEF Good
<1> QED BY <1>8 DEF t

-----------------------------------------------------------------------------
(* The same with the environment as it was, in the next state.             *)
LEMMA StillGood ==
  ASSUME ServeInv, UNCHANGED Environment, serve' = [p \in Procs |-> serve'[p]],
         \A p \in Procs : serve'[p] = serve[p] \/ Good(serve'[p], tailnet)
  PROVE  ServeInv'
<1>1. config' = config /\ tailnet' = tailnet
  BY DEF Environment
<1>2. \A p \in Procs : Good(serve'[p], tailnet)
  BY DEF ServeInv
<1>3. \A p \in Procs : Good(serve[p], tailnet)'
  BY <1>1, <1>2 DEF Good, Shaped, Fields, Knows, Named, Sound, Complete, Quiet, Once, Meant, Own,
     AddressesIn, Write
<1> QED BY <1>1, <1>3 DEF ServeInv

LEMMA OneReplaced ==
  ASSUME ServeInv, UNCHANGED Environment, NEW p \in Procs, NEW s, Good(s, tailnet),
         serve' = [serve EXCEPT ![p] = s]
  PROVE  ServeInv'
<1>1. serve' = [q \in Procs |-> IF q = p THEN s ELSE serve[q]]
  BY DEF ServeInv
<1>2. \A q \in Procs : serve'[q] = serve[q] \/ Good(serve'[q], tailnet)
  BY <1>1
<1> QED
  BY <1>1, <1>2, StillGood

LEMMA Entered ==
  ASSUME ServeInv, UNCHANGED Environment, NEW p \in Procs, NEW at, Enter(p, at),
         at \in {"failed", "ended"} \/ (at = "serving" /\ serve[p].at = "listen")
  PROVE  ServeInv'
<1>1. Good([serve[p] EXCEPT !.at = at], tailnet)
  BY EnteredIsGood DEF ServeInv
<1> QED
  BY <1>1, OneReplaced DEF Enter

LEMMA Asked ==
  ASSUME ServeInv, NEW p \in Procs, NEW got \in BOOLEAN, AskIps(p, got) \/ AskNames(p, got)
  PROVE  ServeInv'
<1>1. CASE AskIps(p, got)
  <2>1. serve' = [serve EXCEPT ![p] =
          [serve[p] EXCEPT !.at = "names", !.missed = ~got,
             !.hosts = Write({serve[p].addr} \cup Heard(p, got, OwnAddresses))]]
    BY <1>1 DEF AskIps, ServeInv
  <2>2. UNCHANGED Environment /\ serve[p].at = "ips"
    BY <1>1 DEF AskIps
  <2> QED BY <2>1, <2>2, AskedIpsIsGood, OneReplaced DEF ServeInv
<1>2. CASE AskNames(p, got)
  <2>1. serve' = [serve EXCEPT ![p] =
          [serve[p] EXCEPT !.at = "listen", !.missed = serve[p].missed \/ ~got,
             !.hosts = HostAllow(Collected(p, got))]]
    BY <1>2 DEF AskNames, ServeInv
  <2>2. UNCHANGED Environment /\ serve[p].at = "names"
    BY <1>2 DEF AskNames
  <2> QED BY <2>1, <2>2, AskedNamesIsGood, OneReplaced DEF ServeInv
<1> QED BY <1>1, <1>2

LEMMA Stepped ==
  ASSUME ServeInv, NEW p \in Procs, Steps(p) \/ Miss(p)
  PROVE  ServeInv'
<1>1. CASE Load(p)
  <2>0. UNCHANGED Environment /\ serve[p].at = "load" /\ config \in Configs
    BY <1>1, ServiceAssumption DEF Load, ServeInv
  <2>1. CASE serve' = [serve EXCEPT ![p].at = "bind", ![p].read = config,
                                   ![p].found = tailnet.found]
    <3>1. serve' = [serve EXCEPT ![p] =
                      [serve[p] EXCEPT !.at = "bind", !.read = config, !.found = tailnet.found]]
      BY <2>1 DEF ServeInv
    <3>2. Good([serve[p] EXCEPT !.at = "bind", !.read = config, !.found = tailnet.found], tailnet)
      BY <2>0, LoadedIsGood DEF ServeInv
    <3> QED
      BY <2>0, <3>1, <3>2, OneReplaced
  <2>2. CASE Enter(p, "failed")
    BY <2>0, <2>2, Entered
  <2> QED
    BY <1>1, <2>1, <2>2 DEF Load
<1>2. CASE Choose(p)
  <2>0. UNCHANGED Environment /\ serve[p].at = "bind"
    BY <1>2 DEF Choose
  <2>1. CASE Passes(serve[p], BindAddress(p))
    <3>1. serve' = [serve EXCEPT ![p] =
                      [serve[p] EXCEPT !.at = "ips", !.addr = BindAddress(p)]]
      BY <1>2, <2>1 DEF Choose, ServeInv
    <3> QED
      BY <2>0, <2>1, <3>1, ChosenIsGood, OneReplaced DEF ServeInv
  <2>2. CASE ~Passes(serve[p], BindAddress(p))
    BY <1>2, <2>0, <2>2, Entered DEF Choose
  <2> QED
    BY <2>1, <2>2
<1>3. ASSUME NEW got \in BOOLEAN, AskIps(p, got) \/ AskNames(p, got) PROVE ServeInv'
  BY <1>3, Asked
<1>4. CASE Listen(p)
  BY <1>4, Entered DEF Listen
<1> QED
  BY <1>1, <1>2, <1>3, <1>4 DEF Steps, Miss

LEMMA LaunchedOne ==
  ASSUME ServeInv, UNCHANGED Environment, NEW p \in Procs, NEW bin, NEW opts, NEW hand,
         Launch(p, bin, opts, hand)
  PROVE  ServeInv'
BY LaunchedIsGood, OneReplaced DEF Launch

(* The calls of a command start, stop or rename processes, no more.        *)
LEMMA Called ==
  ASSUME ServeInv, Call
  PROVE  ServeInv'
<1> USE ServiceAssumption
<1>0. UNCHANGED Environment
  BY DEF Call
<1>1. CASE UNCHANGED serve
  BY <1>0, <1>1, StillGood DEF ServeInv
<1>2. CASE StopManaged
  BY <1>0, <1>2, GoneIsGood, OneReplaced DEF StopManaged
<1>3. CASE StartManaged
  BY <1>0, <1>1, <1>3, LaunchedOne DEF StartManaged
<1>4. CASE RemoveLegacy
  BY <1>0, <1>1, <1>4, GoneIsGood, OneReplaced DEF RemoveLegacy
<1>5. CASE EndTask
  <2>1. CASE StopManaged
    BY <1>2, <2>1
  <2>2. CASE serve' = [serve EXCEPT !["managed"] = Gone, !["stray"] = serve["managed"]]
    <3>1. serve' = [p \in Procs |-> IF p = "managed" THEN Gone ELSE serve["managed"]]
      BY <2>2 DEF ServeInv
    <3>2. \A p \in Procs : Good(serve'[p], tailnet)
      BY <3>1, GoneIsGood DEF ServeInv
    <3> QED
      BY <1>0, <3>1, <3>2, StillGood
  <2> QED
    BY <1>5, <2>1, <2>2 DEF EndTask
<1>6. CASE KillOwn
  <2>1. serve' = [p \in Procs |-> IF serve[p].bin = cmd.bin THEN Gone ELSE serve[p]]
    BY <1>6 DEF KillOwn
  <2> QED
    BY <1>0, <2>1, GoneIsGood, StillGood
<1> QED
  BY <1>1, <1>2, <1>3, <1>4, <1>5, <1>6
  DEF Call, WriteFile, DeleteFile, Reload, Enable, Disable, BootOut, BootStrap, AlreadyLoaded,
      CreateTask, RunTask, QueryTask

LEMMA Renumbered ==
  ASSUME ServeInv, NEW net \in Nets \ {tailnet}, Renumber(net)
  PROVE  ServeInv'
<1>1. /\ config' = config /\ tailnet' = net
      /\ serve' = [p \in Procs |-> IF Alive(p) THEN [serve[p] EXCEPT !.since = @ \cup {net}]
                                  ELSE serve[p]]
  BY DEF Renumber
<1>2. ASSUME NEW p \in Procs PROVE Good(serve'[p], net)
  <2>1. CASE Alive(p)
    BY <1>1, <2>1, RenumberedIsGood DEF Alive, ServeInv
  <2>2. CASE ~Alive(p)
    <3>1. serve'[p] = serve[p]
      BY <1>1, <2>2
    <3>2. Good(serve[p], net)
      BY <2>2 DEF Alive, ServeInv, Good, Knows
    <3> QED BY <3>1, <3>2
  <2> QED BY <2>1, <2>2
<1>3. \A p \in Procs : Good(serve[p], tailnet)'
  BY <1>1, <1>2 DEF Good, Shaped, Fields, Knows, Named, Sound, Complete, Quiet, Once, Meant, Own,
     AddressesIn, Write
<1> QED BY <1>1, <1>3 DEF ServeInv

-----------------------------------------------------------------------------
LEMMA ServeStart == Init => ServeInv
<1> SUFFICES ASSUME Init PROVE ServeInv
  OBVIOUS
<1>1. serve = [p \in Procs |-> Gone] /\ config \in Edits /\ tailnet \in Nets
  BY DEF Init
<1> QED
  BY <1>1, GoneIsGood DEF ServeInv

LEMMA ServeStep == ServeInv /\ [Next]_vars => ServeInv'
<1> SUFFICES ASSUME ServeInv, [Next]_vars PROVE ServeInv'
  OBVIOUS
<1> USE ServiceAssumption
<1>1. CASE UNCHANGED <<Environment, serve>>
  BY <1>1, StillGood DEF ServeInv
<1>2. ASSUME NEW op, NEW bin, Give(op, bin) PROVE ServeInv'
  BY <1>1, <1>2 DEF Give
<1>3. CASE Call
  BY <1>3, Called
<1>4. CASE PassOver \/ GiveUp
  BY <1>1, <1>4 DEF PassOver, GiveUp
<1>5. ASSUME NEW p \in Procs, Reap(p) PROVE ServeInv'
  BY <1>5, GoneIsGood, OneReplaced DEF Reap
<1>6. CASE Restart
  BY <1>6, LaunchedOne DEF Restart
<1>7. CASE Daemon
  BY <1>7, Stepped DEF Daemon
<1>8. CASE Mishap
  <2>1. PICK p \in Procs : Die(p) \/ Miss(p)
    BY <1>8 DEF Mishap
  <2> QED
    BY <2>1, Entered, Stepped DEF Die
<1>9. CASE Login
  <2>1. /\ UNCHANGED Environment
        /\ serve' = [p \in Procs |-> IF p = "stray" /\ legacy
                                     THEN Launched(OldBin, NoOptions, FALSE) ELSE Gone]
    BY <1>9 DEF Login
  <2>2. \A p \in Procs : Good(serve'[p], tailnet)
    BY <2>1, GoneIsGood, LaunchedIsGood
  <2> QED
    BY <2>1, <2>2, StillGood
<1>10. CASE StopCommand
  BY <1>1, <1>10 DEF StopCommand
<1>11. CASE StartByHand
  BY <1>11, LaunchedOne DEF StartByHand
<1>12. CASE StopByHand
  BY <1>12, Entered DEF StopByHand, Interrupt
<1>13. CASE Edit
  <2>1. CASE \E net \in Nets \ {tailnet} : Renumber(net)
    BY <2>1, Renumbered
  <2>2. CASE config' \in Edits \ {config} /\ UNCHANGED <<tailnet, serve>>
    <3>1. serve' = serve /\ tailnet' = tailnet /\ \A p \in Procs : Good(serve[p], tailnet)
      BY <2>2 DEF ServeInv
    <3>2. \A p \in Procs : Good(serve[p], tailnet)'
      BY <3>1 DEF Good, Shaped, Fields, Knows, Named, Sound, Complete, Quiet, Once, Meant, Own,
         AddressesIn, Write
    <3> QED
      BY <2>2, <3>1, <3>2 DEF ServeInv
  <2> QED
    BY <1>13, <2>1, <2>2 DEF Edit
<1>14. CASE UNCHANGED vars
  BY <1>1, <1>14 DEF vars, Environment
<1>15. CASE Next
  <2>1. CASE \E op \in {"install", "uninstall"}, bin \in Bins : Give(op, bin)
    BY <1>2, <2>1
  <2>2. CASE \E p \in Procs : Reap(p)
    BY <1>5, <2>2
  <2> QED
    BY <1>3, <1>4, <1>6, <1>7, <1>8, <1>9, <1>10, <1>11, <1>12, <1>13, <1>15, <2>1, <2>2 DEF Next
<1> QED
  BY <1>14, <1>15

(* The inductive invariant of the host names (server/mod.rs, serve),       *)
(* whatever the service manager does with the processes and tailscaled     *)
(* between their queries.                                                  *)
THEOREM NamesHold == Spec => []ServeInv
BY ServeStart, ServeStep, PTL DEF Spec

(* For any texts of any names, whatever tailscaled does between the        *)
(* queries of a start: no request gets past check_host for a name that was *)
(* never this daemon's, and none is refused for one that is, in whatever   *)
(* spelling, unless tailscaled changed or a query failed (server/mod.rs,   *)
(* hosts; auth.rs, normalize_host).                                        *)
THEOREM AlwaysAnswersToItsNames == Spec => []AnswersToItsNames
<1>1. ServeInv => AnswersToItsNames
  <2> SUFFICES ASSUME ServeInv, NEW p \in Procs, Serving(p), ~serve[p].opts.dev,
                      NEW n \in Names, NEW h \in Spellings[n]
               PROVE  LET s == serve[p]
                      IN  /\ Permits(s.hosts, h) => n \in {s.addr} \cup Meant(s) \cup Once(s)
                          /\ n \in {s.addr} \cup Meant(s) => Permits(s.hosts, h)
                          /\ Steady(p) /\ ~s.missed /\ n \in Own(tailnet) => Permits(s.hosts, h)
    BY DEF AnswersToItsNames
  <2> DEFINE s == serve[p]
  <2>1. s.at = "serving" /\ Good(s, tailnet)
    BY DEF Serving, ServeInv
  <2>2. Permits(s.hosts, h) <=> Written[n] \in s.hosts
    BY SpellingNormalized DEF Permits
  <2>3. /\ s.hosts \subseteq Write({s.addr} \cup Meant(s) \cup Once(s))
        /\ s.addr \in Names /\ Once(s) \subseteq Names /\ Meant(s) \subseteq Names
    BY <2>1, OnceNames DEF Good, Sound, Named, Meant
  <2>4. ASSUME Written[n] \in s.hosts PROVE n \in {s.addr} \cup Meant(s) \cup Once(s)
    <3>1. PICK m \in {s.addr} \cup Meant(s) \cup Once(s) : Written[m] = Written[n]
      BY <2>3, <2>4 DEF Write
    <3>2. m \in Names
      BY <2>3
    <3> QED BY <3>1, <3>2, TextAssumption
  <2>5. n \in {s.addr} \cup Meant(s) => Written[n] \in s.hosts
    BY <2>1 DEF Good, Complete, Write
  <2>6. ASSUME Steady(p), ~s.missed, n \in Own(tailnet) PROVE Written[n] \in s.hosts
    <3>1. Quiet(s, tailnet) /\ n \in AddressesIn(tailnet) \cup tailnet.names
      BY <2>6 DEF Steady, Quiet, Own
    <3>2. Write(AddressesIn(tailnet)) \subseteq s.hosts /\ Write(tailnet.names) \subseteq s.hosts
      BY <2>1, <3>1 DEF Good, Complete
    <3> QED BY <3>1, <3>2 DEF Write
  <2> QED BY <2>2, <2>4, <2>5, <2>6
<1> QED
  BY <1>1, NamesHold, PTL

-----------------------------------------------------------------------------
(* Commands.  A command goes on, with its next calls, or has ended.        *)
CallNames == Ignored \cup Fatal
Commands  == [op : {"none", "install", "uninstall"}, bin : Bins \cup {None}, todo : Seq(CallNames),
              failed : SUBSET CallNames, is : {"idle", "running", "ok", "error"}]

LEMMA CommandTyped == CommandInv => cmd \in Commands
BY DEF CommandInv, Commands, CallNames

LEMMA AfterIs ==
  ASSUME CommandInv, Running, NEW todo \in Seq(CallNames), NEW failed \in SUBSET CallNames,
         cmd' = After(todo, failed)
  PROVE  /\ cmd' \in Commands /\ cmd'.op = cmd.op /\ cmd'.bin = cmd.bin
         /\ cmd'.todo = todo /\ cmd'.failed = failed
         /\ cmd'.is = IF todo = << >> THEN "ok" ELSE "running"
<1>1. cmd \in Commands /\ cmd.is = "running"
  BY CommandTyped DEF Running
<1>2. cmd' = [cmd EXCEPT !.todo = todo, !.failed = failed, !.is = IF todo = << >> THEN "ok" ELSE "running"]
  BY <1>1 DEF After
<1> QED BY <1>1, <1>2 DEF Commands

LEMMA DoneIs ==
  ASSUME CommandInv, Running, NEW calls, cmd.todo = calls, Tail(calls) \in Seq(CallNames), cmd' = Done
  PROVE  /\ cmd' \in Commands /\ cmd'.op = cmd.op /\ cmd'.bin = cmd.bin
         /\ cmd'.todo = Tail(calls) /\ cmd'.failed = cmd.failed
         /\ cmd'.is = IF Tail(calls) = << >> THEN "ok" ELSE "running"
<1>1. cmd.failed \in SUBSET CallNames
  BY CommandTyped DEF Commands
<1> QED BY <1>1, AfterIs DEF Done

(* Which call is made is told by the first of those that are left.         *)
LEMMA CallOf ==
  ASSUME Call
  PROVE  /\ Head(cmd.todo) = "write" => WriteFile
         /\ Head(cmd.todo) \in {"delete", "unregister"} => DeleteFile
         /\ Head(cmd.todo) = "reload" => Reload
         /\ Head(cmd.todo) = "enable" => Enable
         /\ Head(cmd.todo) = "disable" => Disable
         /\ Head(cmd.todo) = "bootout" => BootOut
         /\ Head(cmd.todo) = "bootstrap" => BootStrap \/ AlreadyLoaded
         /\ Head(cmd.todo) = "legacy" => RemoveLegacy
         /\ Head(cmd.todo) = "create" => CreateTask
         /\ Head(cmd.todo) = "end" => EndTask
         /\ Head(cmd.todo) = "kill" => KillOwn
         /\ Head(cmd.todo) = "run" => RunTask
         /\ Head(cmd.todo) = "query" => QueryTask
         /\ Running /\ UNCHANGED os
BY DEF Call, Calls, WriteFile, DeleteFile, Reload, Enable, Disable, BootOut, BootStrap, AlreadyLoaded,
       RemoveLegacy, CreateTask, EndTask, KillOwn, RunTask, QueryTask

(* What holds whether or not a command runs.                               *)
Always ==
  /\ os = "launchd" /\ known = None => ~Alive("managed")
  /\ os # "schtasks" => ~legacy
  /\ os = "schtasks" /\ file = None => ~wanted

LEMMA EndedKept ==
  ASSUME CommandInvs, UNCHANGED os, cmd' \in Commands, cmd'.is # "running", Always'
  PROVE  CommandInvs'
<1>1. CommandInv'
  BY DEF CommandInvs, CommandInv, Running, Commands, CallNames
<1>2. SystemdInv' /\ LaunchdInv' /\ TaskInv'
  BY DEF SystemdInv, LaunchdInv, TaskInv, Under, Running, Always
<1> QED BY <1>1, <1>2 DEF CommandInvs

LEMMA AlwaysHolds == CommandInvs => Always
BY DEF CommandInvs, LaunchdInv, TaskInv, Always

LEMMA StartedManaged ==
  ASSUME ServeInv, StartManaged
  PROVE  /\ ~Alive("managed") => serve'["managed"].bin = known'
         /\ Alive("managed") => serve' = serve
<1>1. ~Alive("managed") => serve' = [serve EXCEPT !["managed"] = Launched(known', NoOptions, FALSE)]
  BY DEF StartManaged, Launch
<1>2. Launched(known', NoOptions, FALSE).bin = known'
  BY DEF Launched, Gone
<1>3. Alive("managed") => serve' = serve
  BY DEF StartManaged
<1> QED BY <1>1, <1>2, <1>3, ServiceAssumption DEF ServeInv

LEMMA StoppedManaged ==
  ASSUME ServeInv, StopManaged
  PROVE  /\ serve'["managed"] = Gone /\ serve'["stray"] = serve["stray"]
         /\ serve'["managed"].at = "gone" /\ ~Alive("managed")'
<1>1. serve'["managed"] = Gone /\ serve'["stray"] = serve["stray"]
  BY ServiceAssumption DEF ServeInv, StopManaged
<1> QED BY <1>1 DEF Gone, Alive

LEMMA Ended ==
  ASSUME ServeInv, EndTask
  PROVE  serve'["managed"].at = "gone"
<1>1. CASE StopManaged
  BY <1>1, StoppedManaged
<1>2. CASE serve' = [serve EXCEPT !["managed"] = Gone, !["stray"] = serve["managed"]]
  BY <1>2, ServiceAssumption DEF ServeInv, Gone
<1> QED BY <1>1, <1>2 DEF EndTask

LEMMA Killed ==
  ASSUME ServeInv, KillOwn, cmd.bin \in Bins, NEW p \in Procs
  PROVE  /\ serve'[p].bin # cmd.bin
         /\ serve[p].at = "gone" => serve'[p].at = "gone"
         /\ serve'[p] = serve[p] \/ serve'[p].at = "gone"
BY ServiceAssumption DEF ServeInv, KillOwn, Gone

-----------------------------------------------------------------------------
(* What a step must show: the invariant is kept, and a command that ends   *)
(* well keeps its promise.                                                 *)
InstallKept ==
  Ends("install") =>
    /\ AtLogin' = cmd.bin /\ wanted'
    /\ "reload" \notin cmd.failed => known' = cmd.bin
    /\ os # "systemd" /\ "end" \notin cmd.failed => serve'["managed"].bin = cmd.bin
    /\ "legacy" \notin cmd.failed => ~legacy'

UninstallKept ==
  (Ends("uninstall") /\ cmd'.failed = {}) =>
    /\ file' = None /\ AtLogin' = None /\ ~wanted'
    /\ serve'["managed"].at = "gone" \/ (TaskNotFound /\ serve'["managed"].bin # cmd.bin)
    /\ os = "schtasks" /\ ~serve'["stray"].hand => serve'["stray"].bin # cmd.bin

Keeps == CommandInvs' /\ InstallKept /\ UninstallKept

LEMMA NotYet == cmd'.is # "ok" => InstallKept /\ UninstallKept
BY DEF InstallKept, UninstallKept, Ends

LEMMA GivenUp ==
  ASSUME CommandInvs, UNCHANGED os, cmd' \in Commands, cmd'.is \in {"idle", "error"}, Always'
  PROVE  Keeps
BY EndedKept, NotYet DEF Keeps

LEMMA Finished ==
  ASSUME CommandInvs, UNCHANGED os, cmd' \in Commands, cmd'.is = "ok", Always',
         InstallKept, UninstallKept
  PROVE  Keeps
BY EndedKept DEF Keeps

LEMMA Onward ==
  ASSUME CommandInvs, Running, UNCHANGED os, cmd' \in Commands, cmd'.bin = cmd.bin, cmd'.op = cmd.op,
         cmd'.is = "running",
         os # "schtasks" => legacy' = legacy,
         os = "systemd" => SystemdInv', os = "launchd" => LaunchdInv', os = "schtasks" => TaskInv'
  PROVE  Keeps
<1>1. CommandInv /\ TaskInv
  BY DEF CommandInvs
<1>2. CommandInv'
  BY <1>1 DEF CommandInv, Running, Commands, CallNames
<1>3. SystemdInv'
  BY DEF SystemdInv, Under
<1>4. LaunchdInv'
  BY DEF LaunchdInv, Under
<1>5. TaskInv'
  <2>1. CASE os = "schtasks"
    BY <2>1
  <2>2. CASE os # "schtasks"
    BY <1>1, <2>2 DEF TaskInv, Under
  <2> QED BY <2>1, <2>2
<1> QED BY <1>2, <1>3, <1>4, <1>5, NotYet DEF Keeps, CommandInvs

(* A command under systemd.                                                *)
LEMMA SystemdInstalls ==
  ASSUME CommandInvs, ServeInv, Call, os = "systemd", cmd.op = "install"
  PROVE  Keeps
<1>1. CommandInv /\ SystemdInv /\ Running /\ os' = os /\ ~legacy /\ cmd.bin \in Bins /\ cmd.bin # None
  BY CallOf, ServiceAssumption DEF CommandInvs, TaskInv, CommandInv, None
<1>2. CASE cmd.todo = <<"write", "reload", "enable">>
  <2>1. Head(cmd.todo) = "write" /\ Tail(cmd.todo) = <<"reload", "enable">>
        /\ Tail(cmd.todo) \in Seq(CallNames) /\ <<"reload", "enable">> # << >> /\ Head(<<"reload", "enable">>) = "reload"
    BY <1>2 DEF CallNames, Ignored, Fatal
  <2>2. WriteFile /\ cmd' = Done
    BY <2>1, CallOf DEF WriteFile, Calls
  <2>3. /\ cmd' \in Commands /\ cmd'.op = "install" /\ cmd'.bin = cmd.bin
        /\ cmd'.todo = <<"reload", "enable">> /\ cmd'.is = "running"
    BY <1>1, <1>2, <2>1, <2>2, DoneIs
  <2>4. file' = cmd.bin /\ legacy' = legacy
    BY <2>2 DEF WriteFile
  <2>5. SystemdInv'
    BY <1>1, <2>1, <2>3, <2>4 DEF SystemdInv, Under
  <2> QED BY <1>1, <2>3, <2>4, <2>5, Onward
<1>3. CASE cmd.todo = <<"reload", "enable">>
  <2>1. Head(cmd.todo) = "reload" /\ Tail(cmd.todo) = <<"enable">>
        /\ Tail(cmd.todo) \in Seq(CallNames) /\ <<"enable">> # << >> /\ Head(<<"enable">>) = "enable"
    BY <1>3 DEF CallNames, Ignored, Fatal
  <2>2. Reload /\ cmd' = Done
    BY <2>1, CallOf DEF Reload, Calls
  <2>3. /\ cmd' \in Commands /\ cmd'.op = "install" /\ cmd'.bin = cmd.bin
        /\ cmd'.todo = <<"enable">> /\ cmd'.is = "running"
    BY <1>1, <1>3, <2>1, <2>2, DoneIs
  <2>4. file' = file /\ known' = file /\ legacy' = legacy /\ file = cmd.bin
    BY <1>1, <2>1, <2>2 DEF Reload, SystemdInv, Under
  <2>5. SystemdInv'
    BY <1>1, <2>1, <2>3, <2>4 DEF SystemdInv, Under
  <2> QED BY <1>1, <2>3, <2>4, <2>5, Onward
<1>4. CASE cmd.todo = <<"enable">>
  <2>1. Head(cmd.todo) = "enable" /\ Tail(cmd.todo) = << >> /\ Tail(cmd.todo) \in Seq(CallNames)
    BY <1>4 DEF CallNames, Ignored, Fatal
  <2>2. Enable /\ cmd' = Done
    BY <2>1, CallOf DEF Enable, Calls
  <2>3. cmd' \in Commands /\ cmd'.op = "install" /\ cmd'.is = "ok"
    BY <1>1, <1>4, <2>1, <2>2, DoneIs
  <2>4. file = cmd.bin /\ ("reload" \notin cmd.failed => known = cmd.bin)
    BY <1>1, <2>1 DEF SystemdInv, Under
  <2>5. /\ file' = file /\ linked' /\ wanted' /\ legacy' = legacy
        /\ known' = IF known = None THEN file ELSE known
    BY <2>2 DEF Enable
  <2>6. InstallKept /\ UninstallKept /\ Always'
    BY <1>1, <2>3, <2>4, <2>5 DEF InstallKept, UninstallKept, Ends, AtLogin, Always
  <2> QED BY <1>1, <2>3, <2>6, Finished
<1> QED BY <1>1, <1>2, <1>3, <1>4 DEF SystemdInv, Under

LEMMA SystemdUninstalls ==
  ASSUME CommandInvs, ServeInv, Call, os = "systemd", cmd.op = "uninstall"
  PROVE  Keeps
<1>1. CommandInv /\ SystemdInv /\ Running /\ os' = os /\ ~legacy
  BY CallOf DEF CommandInvs, TaskInv
<1>2. CASE cmd.todo = <<"disable", "delete", "reload">>
  <2>1. Head(cmd.todo) = "disable" /\ Tail(cmd.todo) = <<"delete", "reload">>
        /\ Tail(cmd.todo) \in Seq(CallNames) /\ <<"delete", "reload">> # << >> /\ Head(<<"delete", "reload">>) = "delete"
    BY <1>2 DEF CallNames, Ignored, Fatal
  <2>2. Disable /\ cmd' = Done
    BY <2>1, CallOf DEF Disable, Calls
  <2>3. /\ cmd' \in Commands /\ cmd'.op = "uninstall" /\ cmd'.bin = cmd.bin
        /\ cmd'.todo = <<"delete", "reload">> /\ cmd'.is = "running"
    BY <1>1, <1>2, <2>1, <2>2, DoneIs
  <2>4. Stopped' /\ legacy' = legacy
    BY <2>2, StoppedManaged DEF Disable, Stopped
  <2>5. SystemdInv'
    BY <1>1, <2>1, <2>3, <2>4 DEF SystemdInv, Under
  <2> QED BY <1>1, <2>3, <2>4, <2>5, Onward
<1>3. CASE cmd.todo = <<"delete", "reload">>
  <2>1. Head(cmd.todo) = "delete" /\ Tail(cmd.todo) = <<"reload">>
        /\ Tail(cmd.todo) \in Seq(CallNames) /\ <<"reload">> # << >> /\ Head(<<"reload">>) = "reload"
    BY <1>3 DEF CallNames, Ignored, Fatal
  <2>2. DeleteFile /\ cmd' = Done
    BY <2>1, CallOf DEF DeleteFile, Calls
  <2>3. /\ cmd' \in Commands /\ cmd'.op = "uninstall" /\ cmd'.bin = cmd.bin
        /\ cmd'.todo = <<"reload">> /\ cmd'.is = "running" /\ cmd'.failed = cmd.failed
    BY <1>1, <1>3, <2>1, <2>2, DoneIs
  <2>4. file' = None /\ wanted' = wanted /\ serve' = serve /\ legacy' = legacy
    BY <2>2 DEF DeleteFile
  <2>5. cmd.failed = {} => Stopped
    BY <1>1, <2>1 DEF SystemdInv, Under
  <2>6. cmd'.failed = {} => Stopped'
    BY <2>3, <2>4, <2>5 DEF Stopped
  <2>7. SystemdInv'
    BY <1>1, <2>1, <2>3, <2>4, <2>6 DEF SystemdInv, Under
  <2> QED BY <1>1, <2>3, <2>4, <2>7, Onward
<1>4. CASE cmd.todo = <<"reload">>
  <2>1. Head(cmd.todo) = "reload" /\ Tail(cmd.todo) = << >> /\ Tail(cmd.todo) \in Seq(CallNames)
    BY <1>4 DEF CallNames, Ignored, Fatal
  <2>2. Reload /\ cmd' = Done
    BY <2>1, CallOf DEF Reload, Calls
  <2>3. cmd' \in Commands /\ cmd'.op = "uninstall" /\ cmd'.is = "ok" /\ cmd'.failed = cmd.failed
    BY <1>1, <1>4, <2>1, <2>2, DoneIs
  <2>4. file = None /\ (cmd.failed = {} => Stopped)
    BY <1>1, <2>1 DEF SystemdInv, Under
  <2>5. file' = file /\ wanted' = wanted /\ legacy' = legacy /\ serve' = serve
    BY <2>2 DEF Reload
  <2>6. InstallKept /\ UninstallKept /\ Always'
    BY <1>1, <2>3, <2>4, <2>5 DEF InstallKept, UninstallKept, Ends, AtLogin, Always, Stopped
  <2> QED BY <1>1, <2>3, <2>6, Finished
<1> QED BY <1>1, <1>2, <1>3, <1>4 DEF SystemdInv, Under

(* A command under launchd.                                                *)
LEMMA LaunchdCalled ==
  ASSUME CommandInvs, ServeInv, Call, os = "launchd"
  PROVE  Keeps
<1>1. CommandInv /\ LaunchdInv /\ Running /\ os' = os /\ ~legacy
  BY CallOf DEF CommandInvs, TaskInv
<1>2. CASE cmd.op = "install" /\ cmd.todo = <<"bootout", "write", "bootstrap">>
  <2>1. Head(cmd.todo) = "bootout" /\ Tail(cmd.todo) = <<"write", "bootstrap">>
        /\ Tail(cmd.todo) \in Seq(CallNames) /\ <<"write", "bootstrap">> # << >>
        /\ Head(<<"write", "bootstrap">>) = "write"
    BY <1>2 DEF CallNames, Ignored, Fatal
  <2>2. BootOut /\ cmd' = Done
    BY <2>1, CallOf DEF BootOut, Calls
  <2>3. /\ cmd' \in Commands /\ cmd'.op = "install" /\ cmd'.bin = cmd.bin
        /\ cmd'.todo = <<"write", "bootstrap">> /\ cmd'.is = "running"
    BY <1>1, <1>2, <2>1, <2>2, DoneIs
  <2>4. ~Alive("managed")' /\ legacy' = legacy
    BY <2>2, StoppedManaged DEF BootOut
  <2>5. LaunchdInv'
    BY <1>1, <2>1, <2>3, <2>4 DEF LaunchdInv, Under
  <2> QED BY <1>1, <1>2, <2>3, <2>4, <2>5, Onward
<1>3. CASE cmd.op = "install" /\ cmd.todo = <<"write", "bootstrap">>
  <2>1. Head(cmd.todo) = "write" /\ Tail(cmd.todo) = <<"bootstrap">>
        /\ Tail(cmd.todo) \in Seq(CallNames) /\ <<"bootstrap">> # << >> /\ Head(<<"bootstrap">>) = "bootstrap"
    BY <1>3 DEF CallNames, Ignored, Fatal
  <2>2. WriteFile /\ cmd' = Done
    BY <2>1, CallOf DEF WriteFile, Calls
  <2>3. /\ cmd' \in Commands /\ cmd'.op = "install" /\ cmd'.bin = cmd.bin
        /\ cmd'.todo = <<"bootstrap">> /\ cmd'.is = "running"
    BY <1>1, <1>3, <2>1, <2>2, DoneIs
  <2>4. file' = cmd.bin /\ legacy' = legacy /\ known' = known /\ serve' = serve
    BY <2>2 DEF WriteFile
  <2>5. LaunchdInv'
    BY <1>1, <2>1, <2>3, <2>4 DEF LaunchdInv, Under, Alive
  <2> QED BY <1>1, <1>3, <2>3, <2>4, <2>5, Onward
<1>4. CASE cmd.op = "install" /\ cmd.todo = <<"bootstrap">>
  <2>1. Head(cmd.todo) = "bootstrap" /\ Tail(cmd.todo) = << >> /\ Tail(cmd.todo) \in Seq(CallNames)
    BY <1>4 DEF CallNames, Ignored, Fatal
  <2>2. CASE BootStrap
    <3>1. cmd' = Done
      BY <2>2 DEF BootStrap, Calls
    <3>2. cmd' \in Commands /\ cmd'.op = "install" /\ cmd'.is = "ok"
      BY <1>1, <1>4, <2>1, <3>1, DoneIs
    <3>3. file = cmd.bin /\ (known = None => ~Alive("managed")) /\ cmd.bin # None
      BY <1>1, <1>4, <2>1, ServiceAssumption DEF LaunchdInv, Under, CommandInv, None
    <3>4. known = None /\ known' = file /\ wanted' /\ file' = file /\ legacy' = legacy /\ StartManaged
      BY <2>2 DEF BootStrap
    <3>5. serve'["managed"].bin = cmd.bin
      BY <3>3, <3>4, StartedManaged
    <3>6. InstallKept /\ UninstallKept /\ Always'
      BY <1>1, <3>2, <3>3, <3>4, <3>5 DEF InstallKept, UninstallKept, Ends, AtLogin, Always
    <3> QED BY <1>1, <3>2, <3>6, Finished
  <2>3. CASE AlreadyLoaded
    <3>1. cmd' \in Commands /\ cmd'.is = "error"
      BY <1>1, <2>3, CommandTyped DEF AlreadyLoaded, Commands
    <3>2. Always'
      BY <1>1, <2>3 DEF AlreadyLoaded, managerVars, Always
    <3> QED BY <1>1, <3>1, <3>2, GivenUp
  <2> QED BY <2>1, <2>2, <2>3, CallOf
<1>5. CASE cmd.op = "uninstall" /\ cmd.todo = <<"bootout", "delete">>
  <2>1. Head(cmd.todo) = "bootout" /\ Tail(cmd.todo) = <<"delete">>
        /\ Tail(cmd.todo) \in Seq(CallNames) /\ <<"delete">> # << >>
    BY <1>5 DEF CallNames, Ignored, Fatal
  <2>2. BootOut /\ cmd' = Done
    BY <2>1, CallOf DEF BootOut, Calls
  <2>3. /\ cmd' \in Commands /\ cmd'.op = "uninstall" /\ cmd'.bin = cmd.bin
        /\ cmd'.todo = <<"delete">> /\ cmd'.is = "running"
    BY <1>1, <1>5, <2>1, <2>2, DoneIs
  <2>4. Stopped' /\ ~Alive("managed")' /\ legacy' = legacy
    BY <2>2, StoppedManaged DEF BootOut, Stopped
  <2>5. LaunchdInv'
    BY <1>1, <2>1, <2>3, <2>4 DEF LaunchdInv, Under
  <2> QED BY <1>1, <1>5, <2>3, <2>4, <2>5, Onward
<1>6. CASE cmd.op = "uninstall" /\ cmd.todo = <<"delete">>
  <2>1. Head(cmd.todo) = "delete" /\ Tail(cmd.todo) = << >> /\ Tail(cmd.todo) \in Seq(CallNames)
    BY <1>6 DEF CallNames, Ignored, Fatal
  <2>2. DeleteFile /\ cmd' = Done
    BY <2>1, CallOf DEF DeleteFile, Calls
  <2>3. cmd' \in Commands /\ cmd'.op = "uninstall" /\ cmd'.is = "ok" /\ cmd'.failed = cmd.failed
    BY <1>1, <1>6, <2>1, <2>2, DoneIs
  <2>4. cmd.failed = {} => Stopped
    BY <1>1, <1>6, <2>1 DEF LaunchdInv, Under
  <2>5. file' = None /\ known' = known /\ wanted' = wanted /\ legacy' = legacy /\ serve' = serve
    BY <2>2 DEF DeleteFile
  <2>6. UninstallKept
    BY <1>1, <2>3, <2>4, <2>5 DEF UninstallKept, AtLogin, Stopped
  <2>7. InstallKept
    BY <2>3 DEF InstallKept, Ends
  <2>8. Always'
    BY <1>1, <2>5 DEF LaunchdInv, Always, Alive
  <2> QED BY <1>1, <2>3, <2>6, <2>7, <2>8, Finished
<1> QED BY <1>1, <1>2, <1>3, <1>4, <1>5, <1>6, CallOf DEF CommandInv, LaunchdInv, Under, Running

(* A command under Task Scheduler.                                         *)
LEMMA TaskInstalls ==
  ASSUME CommandInvs, ServeInv, Call, os = "schtasks", cmd.op = "install"
  PROVE  Keeps
<1>1. CommandInv /\ TaskInv /\ Running /\ os' = os /\ cmd.bin \in Bins /\ cmd.bin # None
  BY CallOf, ServiceAssumption DEF CommandInvs, CommandInv, None
<1>2. CASE cmd.todo = <<"legacy", "create", "end", "kill", "run">>
  <2>1. Head(cmd.todo) = "legacy" /\ Tail(cmd.todo) = <<"create", "end", "kill", "run">>
        /\ Tail(cmd.todo) \in Seq(CallNames) /\ <<"create", "end", "kill", "run">> # << >>
        /\ Head(<<"create", "end", "kill", "run">>) = "create"
    BY <1>2 DEF CallNames, Ignored, Fatal
  <2>2. RemoveLegacy /\ cmd' = Done
    BY <2>1, CallOf DEF RemoveLegacy, Calls
  <2>3. /\ cmd' \in Commands /\ cmd'.op = "install" /\ cmd'.bin = cmd.bin
        /\ cmd'.todo = <<"create", "end", "kill", "run">> /\ cmd'.is = "running"
    BY <1>1, <1>2, <2>1, <2>2, DoneIs
  <2>4. ~legacy' /\ file' = file /\ wanted' = wanted
    BY <2>2 DEF RemoveLegacy
  <2>5. TaskInv'
    BY <1>1, <2>1, <2>3, <2>4 DEF TaskInv, Under
  <2> QED BY <1>1, <2>3, <2>5, Onward
<1>3. CASE cmd.todo = <<"create", "end", "kill", "run">>
  <2>1. Head(cmd.todo) = "create" /\ Tail(cmd.todo) = <<"end", "kill", "run">>
        /\ Tail(cmd.todo) \in Seq(CallNames) /\ <<"end", "kill", "run">> # << >>
        /\ Head(<<"end", "kill", "run">>) = "end"
    BY <1>3 DEF CallNames, Ignored, Fatal
  <2>2. CreateTask /\ cmd' = Done
    BY <2>1, CallOf DEF CreateTask, Calls
  <2>3. /\ cmd' \in Commands /\ cmd'.op = "install" /\ cmd'.bin = cmd.bin
        /\ cmd'.todo = <<"end", "kill", "run">> /\ cmd'.is = "running" /\ cmd'.failed = cmd.failed
    BY <1>1, <1>3, <2>1, <2>2, DoneIs
  <2>4. legacy' = legacy /\ file' = cmd.bin /\ known' = cmd.bin
    BY <2>2 DEF CreateTask
  <2>5. "legacy" \notin cmd.failed => ~legacy
    BY <1>1, <2>1 DEF TaskInv, Under
  <2>6. TaskInv'
    BY <1>1, <2>1, <2>3, <2>4, <2>5 DEF TaskInv, Under
  <2> QED BY <1>1, <2>3, <2>6, Onward
<1>4. CASE cmd.todo = <<"end", "kill", "run">>
  <2>1. Head(cmd.todo) = "end" /\ Tail(cmd.todo) = <<"kill", "run">>
        /\ Tail(cmd.todo) \in Seq(CallNames) /\ <<"kill", "run">> # << >> /\ Head(<<"kill", "run">>) = "kill"
    BY <1>4 DEF CallNames, Ignored, Fatal
  <2>2. EndTask /\ cmd' = Done
    BY <2>1, CallOf DEF EndTask, Calls
  <2>3. /\ cmd' \in Commands /\ cmd'.op = "install" /\ cmd'.bin = cmd.bin
        /\ cmd'.todo = <<"kill", "run">> /\ cmd'.is = "running" /\ cmd'.failed = cmd.failed
    BY <1>1, <1>4, <2>1, <2>2, DoneIs
  <2>4. legacy' = legacy /\ file' = file /\ known' = known /\ ~wanted' /\ ~Alive("managed")'
    BY <2>2, Ended DEF EndTask, Alive
  <2>5. ("legacy" \notin cmd.failed => ~legacy) /\ file = cmd.bin /\ known = cmd.bin
    BY <1>1, <2>1 DEF TaskInv, Under
  <2>6. TaskInv'
    BY <1>1, <2>1, <2>3, <2>4, <2>5 DEF TaskInv, Under
  <2> QED BY <1>1, <2>3, <2>6, Onward
<1>5. CASE cmd.todo = <<"kill", "run">>
  <2>1. Head(cmd.todo) = "kill" /\ Tail(cmd.todo) = <<"run">>
        /\ Tail(cmd.todo) \in Seq(CallNames) /\ <<"run">> # << >> /\ Head(<<"run">>) = "run"
    BY <1>5 DEF CallNames, Ignored, Fatal
  <2>2. KillOwn /\ cmd' = Done
    BY <2>1, CallOf DEF KillOwn, Calls
  <2>3. /\ cmd' \in Commands /\ cmd'.op = "install" /\ cmd'.bin = cmd.bin
        /\ cmd'.todo = <<"run">> /\ cmd'.is = "running" /\ cmd'.failed = cmd.failed
    BY <1>1, <1>5, <2>1, <2>2, DoneIs
  <2>4. legacy' = legacy /\ file' = file /\ known' = known /\ wanted' = wanted
        /\ (~Alive("managed") => ~Alive("managed")')
    BY <1>1, <2>2, Killed, ServiceAssumption DEF KillOwn, managerVars, Alive
  <2>5. /\ ("legacy" \notin cmd.failed => ~legacy) /\ file = cmd.bin /\ known = cmd.bin
        /\ ("end" \notin cmd.failed => ~wanted /\ ~Alive("managed"))
    BY <1>1, <2>1 DEF TaskInv, Under
  <2>6. TaskInv'
    BY <1>1, <2>1, <2>3, <2>4, <2>5 DEF TaskInv, Under
  <2> QED BY <1>1, <2>3, <2>6, Onward
<1>6. CASE cmd.todo = <<"run">>
  <2>1. Head(cmd.todo) = "run" /\ Tail(cmd.todo) = << >> /\ Tail(cmd.todo) \in Seq(CallNames)
    BY <1>6 DEF CallNames, Ignored, Fatal
  <2>2. RunTask /\ cmd' = Done
    BY <2>1, CallOf DEF RunTask, Calls
  <2>3. cmd' \in Commands /\ cmd'.op = "install" /\ cmd'.is = "ok"
    BY <1>1, <1>6, <2>1, <2>2, DoneIs
  <2>4. /\ ("legacy" \notin cmd.failed => ~legacy) /\ file = cmd.bin /\ known = cmd.bin
        /\ ("end" \notin cmd.failed => ~Alive("managed"))
    BY <1>1, <2>1 DEF TaskInv, Under
  <2>5. wanted' /\ known' = known /\ file' = file /\ legacy' = legacy /\ StartManaged
    BY <2>2 DEF RunTask
  <2>6. "end" \notin cmd.failed => serve'["managed"].bin = cmd.bin
    BY <2>4, <2>5, StartedManaged
  <2>7. InstallKept /\ UninstallKept /\ Always'
    BY <1>1, <2>3, <2>4, <2>5, <2>6 DEF InstallKept, UninstallKept, Ends, AtLogin, Always
  <2> QED BY <1>1, <2>3, <2>7, Finished
<1> QED BY <1>1, <1>2, <1>3, <1>4, <1>5, <1>6 DEF TaskInv, Under

LEMMA TaskUninstalls ==
  ASSUME CommandInvs, ServeInv, Call, os = "schtasks", cmd.op = "uninstall"
  PROVE  Keeps
<1>1. CommandInv /\ TaskInv /\ Running /\ os' = os /\ cmd.bin \in Bins /\ cmd.bin # None
  BY CallOf, ServiceAssumption DEF CommandInvs, CommandInv, None
<1>2. CASE cmd.todo = <<"query", "end", "kill", "unregister">>
  <2>1. Head(cmd.todo) = "query" /\ Tail(cmd.todo) = <<"end", "kill", "unregister">>
        /\ Tail(cmd.todo) \in Seq(CallNames) /\ <<"end", "kill", "unregister">> # << >>
        /\ Head(<<"end", "kill", "unregister">>) = "end" /\ <<"end", "kill", "unregister">> # <<"kill">>
    BY <1>2 DEF CallNames, Ignored, Fatal
  <2>2. QueryTask
    BY <2>1, CallOf
  <2>3. file' = file /\ wanted' = wanted /\ legacy' = legacy
    BY <2>2 DEF QueryTask, managerVars
  <2>4. CASE file # None
    <3>1. cmd' = Done
      BY <2>2, <2>4 DEF QueryTask
    <3>2. /\ cmd' \in Commands /\ cmd'.op = "uninstall" /\ cmd'.bin = cmd.bin
          /\ cmd'.todo = <<"end", "kill", "unregister">> /\ cmd'.is = "running"
      BY <1>1, <1>2, <2>1, <3>1, DoneIs
    <3>3. TaskInv'
      BY <1>1, <2>1, <2>3, <3>2 DEF TaskInv, Under, TaskNotFound
    <3> QED BY <1>1, <3>2, <3>3, Onward
  <2>5. CASE file = None
    <3>1. cmd' = After(<<"kill">>, cmd.failed)
      BY <2>2, <2>5 DEF QueryTask
    <3>2. <<"kill">> \in Seq(CallNames) /\ <<"kill">> # << >> /\ Head(<<"kill">>) = "kill"
          /\ <<"kill">> # <<"kill", "unregister">> /\ <<"kill">> # <<"unregister">>
      BY DEF CallNames, Ignored, Fatal
    <3>3. cmd.failed \in SUBSET CallNames
      BY <1>1, CommandTyped DEF Commands
    <3>4. /\ cmd' \in Commands /\ cmd'.op = "uninstall" /\ cmd'.bin = cmd.bin
          /\ cmd'.todo = <<"kill">> /\ cmd'.is = "running"
      BY <1>1, <3>1, <3>2, <3>3, AfterIs
    <3>5. TaskInv'
      BY <1>1, <2>3, <2>5, <3>2, <3>4 DEF TaskInv, Under, TaskNotFound
    <3> QED BY <1>1, <3>4, <3>5, Onward
  <2> QED BY <2>4, <2>5
<1>3. CASE cmd.todo = <<"end", "kill", "unregister">>
  <2>1. Head(cmd.todo) = "end" /\ Tail(cmd.todo) = <<"kill", "unregister">>
        /\ Tail(cmd.todo) \in Seq(CallNames) /\ <<"kill", "unregister">> # << >>
        /\ Head(<<"kill", "unregister">>) = "kill" /\ <<"kill", "unregister">> # <<"kill">>
    BY <1>3 DEF CallNames, Ignored, Fatal
  <2>2. EndTask /\ cmd' = Done
    BY <2>1, CallOf DEF EndTask, Calls
  <2>3. /\ cmd' \in Commands /\ cmd'.op = "uninstall" /\ cmd'.bin = cmd.bin
        /\ cmd'.todo = <<"kill", "unregister">> /\ cmd'.is = "running"
    BY <1>1, <1>3, <2>1, <2>2, DoneIs
  <2>4. Stopped'
    BY <2>2, Ended DEF EndTask, Stopped
  <2>5. TaskInv'
    BY <1>1, <2>1, <2>3, <2>4 DEF TaskInv, Under, TaskNotFound, Stopped
  <2> QED BY <1>1, <2>3, <2>5, Onward
<1>4. CASE cmd.todo = <<"kill", "unregister">>
  <2>1. Head(cmd.todo) = "kill" /\ Tail(cmd.todo) = <<"unregister">>
        /\ Tail(cmd.todo) \in Seq(CallNames) /\ <<"unregister">> # << >>
        /\ Head(<<"unregister">>) = "unregister" /\ <<"unregister">> # <<"kill">>
    BY <1>4 DEF CallNames, Ignored, Fatal
  <2>2. KillOwn /\ cmd' = Done
    BY <2>1, CallOf DEF KillOwn, Calls
  <2>3. /\ cmd' \in Commands /\ cmd'.op = "uninstall" /\ cmd'.bin = cmd.bin
        /\ cmd'.todo = <<"unregister">> /\ cmd'.is = "running" /\ cmd'.failed = cmd.failed
    BY <1>1, <1>4, <2>1, <2>2, DoneIs
  <2>4. /\ legacy' = legacy /\ file' = file /\ wanted' = wanted
        /\ (serve["managed"].at = "gone" => serve'["managed"].at = "gone")
        /\ serve'["stray"].bin # cmd.bin
    BY <1>1, <2>2, Killed, ServiceAssumption DEF KillOwn, managerVars
  <2>5. cmd.failed = {} => Stopped
    BY <1>1, <1>4 DEF TaskInv, Under
  <2>6. cmd'.failed = {} => Stopped'
    BY <2>3, <2>4, <2>5 DEF Stopped
  <2>7. TaskInv'
    BY <1>1, <2>1, <2>3, <2>4, <2>6 DEF TaskInv, Under, TaskNotFound
  <2> QED BY <1>1, <2>3, <2>7, Onward
<1>5. CASE cmd.todo = <<"unregister">>
  <2>1. Head(cmd.todo) = "unregister" /\ Tail(cmd.todo) = << >> /\ Tail(cmd.todo) \in Seq(CallNames)
    BY <1>5 DEF CallNames, Ignored, Fatal
  <2>2. DeleteFile /\ cmd' = Done
    BY <2>1, CallOf DEF DeleteFile, Calls
  <2>3. cmd' \in Commands /\ cmd'.op = "uninstall" /\ cmd'.is = "ok" /\ cmd'.failed = cmd.failed
    BY <1>1, <1>5, <2>1, <2>2, DoneIs
  <2>4. /\ (cmd.failed = {} => Stopped)
        /\ serve["stray"].hand \/ serve["stray"].bin # cmd.bin
    BY <1>1, <1>5, <2>1 DEF TaskInv, Under
  <2>5. file' = None /\ ~wanted' /\ serve' = serve
    BY <2>2 DEF DeleteFile
  <2>6. InstallKept /\ UninstallKept /\ Always'
    BY <1>1, <2>3, <2>4, <2>5 DEF InstallKept, UninstallKept, Ends, AtLogin, Always, Stopped
  <2> QED BY <1>1, <2>3, <2>6, Finished
<1>6. CASE cmd.todo = <<"kill">>
  <2>1. Head(cmd.todo) = "kill" /\ Tail(cmd.todo) = << >> /\ Tail(cmd.todo) \in Seq(CallNames)
    BY <1>6 DEF CallNames, Ignored, Fatal
  <2>2. KillOwn /\ cmd' = Done
    BY <2>1, CallOf DEF KillOwn, Calls
  <2>3. cmd' \in Commands /\ cmd'.op = "uninstall" /\ cmd'.is = "ok" /\ cmd'.failed = cmd.failed
    BY <1>1, <1>6, <2>1, <2>2, DoneIs
  <2>4. TaskNotFound /\ (cmd.failed = {} => file = None) /\ (file = None => ~wanted)
    BY <1>1, <1>6 DEF TaskInv, Under, TaskNotFound
  <2>5. /\ file' = file /\ wanted' = wanted
        /\ serve'["managed"].bin # cmd.bin /\ serve'["stray"].bin # cmd.bin
    BY <1>1, <2>2, Killed, ServiceAssumption DEF KillOwn, managerVars
  <2>6. InstallKept /\ UninstallKept /\ Always'
    BY <1>1, <2>3, <2>4, <2>5 DEF InstallKept, UninstallKept, Ends, AtLogin, Always
  <2> QED BY <1>1, <2>3, <2>6, Finished
<1> QED BY <1>1, <1>2, <1>3, <1>4, <1>5, <1>6 DEF TaskInv, Under

LEMMA CallKeeps ==
  ASSUME CommandInvs, ServeInv, Call
  PROVE  Keeps
<1>1. os \in {"systemd", "launchd", "schtasks"} /\ cmd.op \in {"install", "uninstall"}
  BY CallOf DEF CommandInvs, CommandInv, Running
<1> QED BY <1>1, SystemdInstalls, SystemdUninstalls, LaunchdCalled, TaskInstalls, TaskUninstalls

-----------------------------------------------------------------------------
(* A call that fails is passed over, and the command remembers it, or ends *)
(* the command.                                                            *)
LEMMA PassedOver ==
  ASSUME CommandInvs, PassOver
  PROVE  /\ Running /\ UNCHANGED <<os, serve, file, linked, known, wanted, legacy>> /\ Always'
         /\ Head(cmd.todo) \in Ignored
         /\ cmd' = IF Head(cmd.todo) = "query" THEN After(<<"kill">>, Failed)
                   ELSE After(Tail(cmd.todo), Failed)
         /\ Failed \in SUBSET CallNames /\ Failed # {} /\ Head(cmd.todo) \in Failed
         /\ cmd.failed \subseteq Failed
<1>1. /\ Running /\ UNCHANGED <<os, serve, file, linked, known, wanted, legacy>>
      /\ Head(cmd.todo) \in Ignored
      /\ cmd' = IF Head(cmd.todo) = "query" THEN After(<<"kill">>, Failed)
                ELSE After(Tail(cmd.todo), Failed)
  BY DEF PassOver, managerVars
<1>2. cmd.failed \in SUBSET CallNames
  BY CommandTyped DEF CommandInvs, Commands
<1>3. Failed \in SUBSET CallNames /\ Failed # {} /\ Head(cmd.todo) \in Failed /\ cmd.failed \subseteq Failed
  BY <1>1, <1>2 DEF Failed, CallNames
<1>4. Always'
  BY <1>1, AlwaysHolds DEF Always, Alive
<1> QED BY <1>1, <1>3, <1>4

(* The rest is made next, whatever it is.                                  *)
LEMMA PassedOn ==
  ASSUME CommandInvs, PassOver, NEW rest \in Seq(CallNames),
         rest = IF Head(cmd.todo) = "query" THEN <<"kill">> ELSE Tail(cmd.todo)
  PROVE  /\ cmd' \in Commands /\ cmd'.op = cmd.op /\ cmd'.bin = cmd.bin /\ cmd'.todo = rest
         /\ cmd'.failed # {} /\ Head(cmd.todo) \in cmd'.failed /\ cmd.failed \subseteq cmd'.failed
         /\ cmd'.is = IF rest = << >> THEN "ok" ELSE "running"
<1>1. CommandInv /\ Running /\ cmd' = After(rest, Failed) /\ Failed \in SUBSET CallNames
  BY PassedOver DEF CommandInvs
<1>2. /\ cmd' \in Commands /\ cmd'.op = cmd.op /\ cmd'.bin = cmd.bin /\ cmd'.todo = rest
      /\ cmd'.failed = Failed /\ cmd'.is = IF rest = << >> THEN "ok" ELSE "running"
  BY <1>1, AfterIs
<1>3. Failed # {} /\ Head(cmd.todo) \in Failed /\ cmd.failed \subseteq Failed
  BY PassedOver
<1> QED BY <1>2, <1>3

LEMMA SystemdPassesOver ==
  ASSUME CommandInvs, PassOver, os = "systemd"
  PROVE  Keeps
<1>1. /\ CommandInv /\ SystemdInv /\ Running /\ os' = os /\ cmd.op \in {"install", "uninstall"}
      /\ UNCHANGED <<serve, file, linked, known, wanted, legacy>> /\ Always' /\ Head(cmd.todo) \in Ignored
  BY PassedOver DEF CommandInvs, CommandInv, Running
<1>2. CASE cmd.op = "install" /\ cmd.todo = <<"reload", "enable">>
  <2>1. Head(cmd.todo) = "reload" /\ Tail(cmd.todo) = <<"enable">>
        /\ Tail(cmd.todo) \in Seq(CallNames) /\ <<"enable">> # << >> /\ Head(<<"enable">>) = "enable"
    BY <1>2 DEF CallNames, Ignored, Fatal
  <2>2. /\ cmd' \in Commands /\ cmd'.op = "install" /\ cmd'.bin = cmd.bin
        /\ cmd'.todo = <<"enable">> /\ cmd'.is = "running" /\ "reload" \in cmd'.failed
    BY <1>2, <2>1, PassedOn
  <2>3. SystemdInv'
    BY <1>1, <1>2, <2>1, <2>2 DEF SystemdInv, Under
  <2> QED BY <1>1, <1>2, <2>2, <2>3, Onward
<1>3. CASE cmd.op = "uninstall" /\ cmd.todo = <<"disable", "delete", "reload">>
  <2>1. Head(cmd.todo) = "disable" /\ Tail(cmd.todo) = <<"delete", "reload">>
        /\ Tail(cmd.todo) \in Seq(CallNames) /\ <<"delete", "reload">> # << >> /\ Head(<<"delete", "reload">>) = "delete"
    BY <1>3 DEF CallNames, Ignored, Fatal
  <2>2. /\ cmd' \in Commands /\ cmd'.op = "uninstall" /\ cmd'.bin = cmd.bin
        /\ cmd'.todo = <<"delete", "reload">> /\ cmd'.is = "running" /\ cmd'.failed # {}
    BY <1>3, <2>1, PassedOn
  <2>3. SystemdInv'
    BY <1>1, <2>1, <2>2 DEF SystemdInv, Under
  <2> QED BY <1>1, <1>3, <2>2, <2>3, Onward
<1>4. CASE cmd.op = "uninstall" /\ cmd.todo = <<"reload">>
  <2>1. Head(cmd.todo) = "reload" /\ Tail(cmd.todo) = << >> /\ Tail(cmd.todo) \in Seq(CallNames)
    BY <1>4 DEF CallNames, Ignored, Fatal
  <2>2. cmd' \in Commands /\ cmd'.op = "uninstall" /\ cmd'.is = "ok" /\ cmd'.failed # {}
    BY <1>4, <2>1, PassedOn
  <2>3. InstallKept /\ UninstallKept
    BY <2>2 DEF InstallKept, UninstallKept, Ends
  <2> QED BY <1>1, <2>2, <2>3, Finished
<1>5. Head(<<"write", "reload", "enable">>) \notin Ignored /\ Head(<<"enable">>) \notin Ignored
      /\ Head(<<"delete", "reload">>) \notin Ignored
  BY DEF Ignored
<1> QED BY <1>1, <1>2, <1>3, <1>4, <1>5 DEF SystemdInv, Under

LEMMA LaunchdPassesOver ==
  ASSUME CommandInvs, PassOver, os = "launchd"
  PROVE  Keeps
<1>1. /\ CommandInv /\ LaunchdInv /\ Running /\ os' = os /\ cmd.op \in {"install", "uninstall"}
      /\ UNCHANGED <<serve, file, linked, known, wanted, legacy>> /\ Head(cmd.todo) \in Ignored
  BY PassedOver DEF CommandInvs, CommandInv, Running
<1>2. CASE cmd.op = "install" /\ cmd.todo = <<"bootout", "write", "bootstrap">>
  <2>1. Head(cmd.todo) = "bootout" /\ Tail(cmd.todo) = <<"write", "bootstrap">>
        /\ Tail(cmd.todo) \in Seq(CallNames) /\ <<"write", "bootstrap">> # << >>
        /\ Head(<<"write", "bootstrap">>) = "write"
    BY <1>2 DEF CallNames, Ignored, Fatal
  <2>2. /\ cmd' \in Commands /\ cmd'.op = "install" /\ cmd'.bin = cmd.bin
        /\ cmd'.todo = <<"write", "bootstrap">> /\ cmd'.is = "running"
    BY <1>2, <2>1, PassedOn
  <2>3. LaunchdInv'
    BY <1>1, <2>1, <2>2 DEF LaunchdInv, Under, Alive
  <2> QED BY <1>1, <1>2, <2>2, <2>3, Onward
<1>3. CASE cmd.op = "uninstall" /\ cmd.todo = <<"bootout", "delete">>
  <2>1. Head(cmd.todo) = "bootout" /\ Tail(cmd.todo) = <<"delete">>
        /\ Tail(cmd.todo) \in Seq(CallNames) /\ <<"delete">> # << >>
    BY <1>3 DEF CallNames, Ignored, Fatal
  <2>2. /\ cmd' \in Commands /\ cmd'.op = "uninstall" /\ cmd'.bin = cmd.bin
        /\ cmd'.todo = <<"delete">> /\ cmd'.is = "running" /\ cmd'.failed # {}
    BY <1>3, <2>1, PassedOn
  <2>3. LaunchdInv'
    BY <1>1, <2>1, <2>2 DEF LaunchdInv, Under, Alive
  <2> QED BY <1>1, <1>3, <2>2, <2>3, Onward
<1>4. Head(<<"write", "bootstrap">>) \notin Ignored /\ Head(<<"bootstrap">>) \notin Ignored
      /\ Head(<<"delete">>) \notin Ignored
  BY DEF Ignored
<1> QED BY <1>1, <1>2, <1>3, <1>4 DEF LaunchdInv, Under

LEMMA TaskPassesOver ==
  ASSUME CommandInvs, PassOver, os = "schtasks"
  PROVE  Keeps
<1>1. /\ CommandInv /\ TaskInv /\ Running /\ os' = os /\ cmd.op \in {"install", "uninstall"}
      /\ UNCHANGED <<serve, file, linked, known, wanted, legacy>> /\ Head(cmd.todo) \in Ignored
  BY PassedOver DEF CommandInvs, CommandInv, Running
<1>2. CASE cmd.op = "install" /\ cmd.todo = <<"legacy", "create", "end", "kill", "run">>
  <2>1. Head(cmd.todo) = "legacy" /\ Tail(cmd.todo) = <<"create", "end", "kill", "run">>
        /\ Tail(cmd.todo) \in Seq(CallNames) /\ <<"create", "end", "kill", "run">> # << >>
        /\ Head(<<"create", "end", "kill", "run">>) = "create"
    BY <1>2 DEF CallNames, Ignored, Fatal
  <2>2. /\ cmd' \in Commands /\ cmd'.op = "install" /\ cmd'.bin = cmd.bin
        /\ cmd'.todo = <<"create", "end", "kill", "run">> /\ cmd'.is = "running"
        /\ "legacy" \in cmd'.failed
    BY <1>2, <2>1, PassedOn
  <2>3. TaskInv'
    BY <1>1, <2>1, <2>2 DEF TaskInv, Under
  <2> QED BY <1>1, <1>2, <2>2, <2>3, Onward
<1>3. CASE cmd.op = "install" /\ cmd.todo = <<"end", "kill", "run">>
  <2>1. Head(cmd.todo) = "end" /\ Tail(cmd.todo) = <<"kill", "run">>
        /\ Tail(cmd.todo) \in Seq(CallNames) /\ <<"kill", "run">> # << >> /\ Head(<<"kill", "run">>) = "kill"
    BY <1>3 DEF CallNames, Ignored, Fatal
  <2>2. /\ cmd' \in Commands /\ cmd'.op = "install" /\ cmd'.bin = cmd.bin
        /\ cmd'.todo = <<"kill", "run">> /\ cmd'.is = "running"
        /\ "end" \in cmd'.failed /\ cmd.failed \subseteq cmd'.failed
    BY <1>3, <2>1, PassedOn
  <2>3. ("legacy" \notin cmd.failed => ~legacy) /\ file = cmd.bin /\ known = cmd.bin
    BY <1>1, <1>3, <2>1 DEF TaskInv, Under
  <2>4. TaskInv'
    BY <1>1, <2>1, <2>2, <2>3 DEF TaskInv, Under
  <2> QED BY <1>1, <1>3, <2>2, <2>4, Onward
<1>4. CASE cmd.op = "uninstall" /\ cmd.todo = <<"query", "end", "kill", "unregister">>
  <2>1. Head(cmd.todo) = "query" /\ <<"kill">> \in Seq(CallNames) /\ <<"kill">> # << >>
        /\ Head(<<"kill">>) = "kill" /\ <<"kill">> # <<"kill", "unregister">> /\ <<"kill">> # <<"unregister">>
    BY <1>4 DEF CallNames, Ignored, Fatal
  <2>2. /\ cmd' \in Commands /\ cmd'.op = "uninstall" /\ cmd'.bin = cmd.bin
        /\ cmd'.todo = <<"kill">> /\ cmd'.is = "running" /\ cmd'.failed # {}
    BY <1>4, <2>1, PassedOn
  <2>3. TaskInv'
    BY <1>1, <2>1, <2>2 DEF TaskInv, Under, TaskNotFound
  <2> QED BY <1>1, <1>4, <2>2, <2>3, Onward
<1>5. CASE cmd.op = "uninstall" /\ cmd.todo = <<"end", "kill", "unregister">>
  <2>1. Head(cmd.todo) = "end" /\ Tail(cmd.todo) = <<"kill", "unregister">>
        /\ Tail(cmd.todo) \in Seq(CallNames) /\ <<"kill", "unregister">> # << >>
        /\ Head(<<"kill", "unregister">>) = "kill"
    BY <1>5 DEF CallNames, Ignored, Fatal
  <2>2. /\ cmd' \in Commands /\ cmd'.op = "uninstall" /\ cmd'.bin = cmd.bin
        /\ cmd'.todo = <<"kill", "unregister">> /\ cmd'.is = "running" /\ cmd'.failed # {}
    BY <1>5, <2>1, PassedOn
  <2>3. TaskInv'
    BY <1>1, <2>1, <2>2 DEF TaskInv, Under
  <2> QED BY <1>1, <1>5, <2>2, <2>3, Onward
<1>6. /\ Head(<<"create", "end", "kill", "run">>) \notin Ignored
      /\ Head(<<"kill", "run">>) \notin Ignored /\ Head(<<"run">>) \notin Ignored
      /\ Head(<<"kill", "unregister">>) \notin Ignored /\ Head(<<"unregister">>) \notin Ignored
      /\ Head(<<"kill">>) \notin Ignored
  BY DEF Ignored
<1> QED BY <1>1, <1>2, <1>3, <1>4, <1>5, <1>6 DEF TaskInv, Under

LEMMA PassOverKeeps ==
  ASSUME CommandInvs, PassOver
  PROVE  Keeps
BY SystemdPassesOver, LaunchdPassesOver, TaskPassesOver DEF CommandInvs, CommandInv

LEMMA GiveUpKeeps ==
  ASSUME CommandInvs, GiveUp
  PROVE  Keeps
<1>1. cmd \in Commands /\ Head(cmd.todo) \in CallNames
  BY CommandTyped DEF CommandInvs, GiveUp, CallNames
<1>2. cmd' \in Commands /\ cmd'.is = "error"
  BY <1>1 DEF GiveUp, Commands, Failed
<1>3. UNCHANGED os /\ Always'
  BY AlwaysHolds DEF GiveUp, managerVars, Always, Alive
<1> QED BY <1>2, <1>3, GivenUp

-----------------------------------------------------------------------------
(* A command begins, or is abandoned.                                      *)
LEMMA GiveKeeps ==
  ASSUME CommandInvs, NEW op \in {"install", "uninstall"}, NEW bin \in Bins, Give(op, bin)
  PROVE  Keeps
<1>1. /\ os \in {"systemd", "launchd", "schtasks"} /\ os' = os /\ ~Running
      /\ UNCHANGED <<serve, file, linked, known, wanted, legacy>>
  BY DEF Give, CommandInvs, CommandInv, managerVars
<1> DEFINE calls == IF op = "install" THEN Install[os] ELSE Uninstall[os]
<1>2. cmd' = [op |-> op, bin |-> bin, failed |-> {}, is |-> "running", todo |-> calls]
  BY DEF Give
<1>3. /\ Install["systemd"] = <<"write", "reload", "enable">>
      /\ Install["launchd"] = <<"bootout", "write", "bootstrap">>
      /\ Install["schtasks"] = <<"legacy", "create", "end", "kill", "run">>
      /\ Uninstall["systemd"] = <<"disable", "delete", "reload">>
      /\ Uninstall["launchd"] = <<"bootout", "delete">>
      /\ Uninstall["schtasks"] = <<"query", "end", "kill", "unregister">>
  BY DEF Install, Uninstall
<1>4. calls \in Seq(CallNames)
  <2>1. /\ <<"write", "reload", "enable">> \in Seq(CallNames)
        /\ <<"bootout", "write", "bootstrap">> \in Seq(CallNames)
        /\ <<"legacy", "create", "end", "kill", "run">> \in Seq(CallNames)
        /\ <<"disable", "delete", "reload">> \in Seq(CallNames)
        /\ <<"bootout", "delete">> \in Seq(CallNames)
        /\ <<"query", "end", "kill", "unregister">> \in Seq(CallNames)
    BY DEF CallNames, Ignored, Fatal
  <2> QED BY <1>1, <1>3, <2>1
<1>5. /\ cmd' \in Commands /\ cmd'.op = op /\ cmd'.bin = bin /\ cmd'.failed = {}
      /\ cmd'.is = "running" /\ cmd'.todo = calls
  BY <1>2, <1>4 DEF Commands
<1>6. CommandInv'
  BY <1>1, <1>5 DEF CommandInv, Running, Commands, CallNames
<1>7. Always'
  BY <1>1, AlwaysHolds DEF Always, Alive
<1>8. SystemdInv'
  <2>1. Head(<<"write", "reload", "enable">>) = "write" /\ Head(<<"disable", "delete", "reload">>) = "disable"
    OBVIOUS
  <2> QED BY <1>1, <1>3, <1>5, <2>1 DEF SystemdInv, Under
<1>9. LaunchdInv'
  <2>1. Head(<<"bootout", "write", "bootstrap">>) = "bootout" /\ Head(<<"bootout", "delete">>) = "bootout"
    OBVIOUS
  <2> QED BY <1>1, <1>3, <1>5, <1>7, <2>1 DEF LaunchdInv, Under, Always
<1>10. TaskInv'
  <2>1. /\ Head(<<"legacy", "create", "end", "kill", "run">>) = "legacy"
        /\ Head(<<"query", "end", "kill", "unregister">>) = "query"
        /\ <<"query", "end", "kill", "unregister">> \notin {<<"kill", "unregister">>, <<"unregister">>, <<"kill">>}
    OBVIOUS
  <2> QED BY <1>1, <1>3, <1>5, <1>7, <2>1 DEF TaskInv, Under, TaskNotFound, Always
<1>11. cmd'.is # "ok"
  BY <1>5
<1> QED BY <1>6, <1>8, <1>9, <1>10, <1>11, NotYet DEF Keeps, CommandInvs

LEMMA IdleTyped == Idle \in Commands /\ Idle.is = "idle"
BY DEF Idle, Commands, CallNames

LEMMA LoginKeeps ==
  ASSUME CommandInvs, Login
  PROVE  Keeps
<1>1. UNCHANGED os /\ cmd' = Idle
  BY DEF Login
<1>2. Always'
  <2>1. "managed" \in Procs /\ "managed" # "stray"
    BY ServiceAssumption
  <2>2. serve'["managed"] = Gone
    BY <2>1 DEF Login
  <2>3. ~Alive("managed")'
    BY <2>2 DEF Alive, Gone
  <2>4. legacy' = legacy /\ file' = file /\ wanted' = (AtLogin # None)
    BY DEF Login
  <2> QED BY <1>1, <2>3, <2>4, AlwaysHolds DEF Always, AtLogin
<1> QED BY <1>1, <1>2, IdleTyped, GivenUp

LEMMA StopCommandKeeps ==
  ASSUME CommandInvs, StopCommand
  PROVE  Keeps
<1>1. UNCHANGED os /\ cmd' = Idle /\ Always'
  BY AlwaysHolds DEF StopCommand, managerVars, Always, Alive
<1> QED BY <1>1, IdleTyped, GivenUp

-----------------------------------------------------------------------------
(* What goes on beside the command: a daemon the manager does not keep     *)
(* stays as it is, and one started beside it is not the manager's.         *)
Beside ==
  /\ UNCHANGED <<os, file, linked, known, wanted, legacy, cmd>>
  /\ (~wanted \/ known = None) /\ ~Alive("managed") => ~Alive("managed")'
  /\ ~wanted /\ serve["managed"].at = "gone" => serve'["managed"].at = "gone"
  /\ serve["stray"].hand \/ serve'["stray"].hand \/ serve'["stray"].bin = serve["stray"].bin
     \/ serve'["stray"] = Gone
  /\ serve["stray"].hand => serve'["stray"].hand \/ serve'["stray"] = Gone

LEMMA BesideKeeps ==
  ASSUME CommandInvs, Beside
  PROVE  Keeps
<1>1. cmd' = cmd /\ os' = os /\ file' = file /\ known' = known /\ wanted' = wanted /\ legacy' = legacy
      /\ linked' = linked
  BY DEF Beside
<1>2. CommandInv'
  BY <1>1 DEF CommandInvs, CommandInv, Running
<1>3. Stopped => Stopped'
  BY <1>1 DEF Beside, Stopped
<1>4. SystemdInv'
  BY <1>1, <1>3 DEF CommandInvs, SystemdInv, Under, Running
<1>5. LaunchdInv'
  <2>1. os = "launchd" /\ known = None => ~Alive("managed")'
    BY DEF CommandInvs, LaunchdInv, Beside
  <2> QED BY <1>1, <1>3, <2>1 DEF CommandInvs, LaunchdInv, Under, Running
<1>6. TaskInv'
  <2>1. ~wanted /\ ~Alive("managed") => ~wanted' /\ ~Alive("managed")'
    BY <1>1 DEF Beside
  <2>2. cmd.bin \in Bins /\ (serve["stray"].hand \/ serve["stray"].bin # cmd.bin)
          => serve'["stray"].hand \/ serve'["stray"].bin # cmd.bin
    BY ServiceAssumption DEF Beside, Gone
  <2>3. Running => cmd.bin \in Bins
    BY DEF CommandInvs, CommandInv
  <2> QED BY <1>1, <1>3, <2>1, <2>2, <2>3 DEF CommandInvs, TaskInv, Under, Running, TaskNotFound
<1>7. InstallKept /\ UninstallKept
  BY <1>1 DEF InstallKept, UninstallKept, Ends, Running
<1> QED BY <1>2, <1>4, <1>5, <1>6, <1>7 DEF Keeps, CommandInvs

(* Only a daemon that lives takes a step, and it keeps its executable.     *)
LEMMA SteppedOf ==
  ASSUME ServeInv, NEW p \in Procs, Steps(p) \/ Miss(p) \/ Die(p) \/ Interrupt(p)
  PROVE  /\ Alive(p)
         /\ \A q \in Procs \ {p} : serve'[q] = serve[q]
         /\ serve'[p].bin = serve[p].bin /\ serve'[p].hand = serve[p].hand
<1>0. serve = [q \in Procs |-> serve[q]] /\ Shaped(serve[p])
  BY DEF ServeInv, Good
<1>1. ASSUME NEW at, Enter(p, at), Alive(p)
      PROVE  /\ \A q \in Procs \ {p} : serve'[q] = serve[q]
             /\ serve'[p].bin = serve[p].bin /\ serve'[p].hand = serve[p].hand
  <2>1. serve'[p] = [serve[p] EXCEPT !.at = at] /\ \A q \in Procs \ {p} : serve'[q] = serve[q]
    BY <1>0, <1>1 DEF Enter
  <2> QED BY <1>0, <2>1 DEF Shaped, Fields
<1>2. CASE Load(p)
  <2>1. Alive(p)
    BY <1>2 DEF Load, Alive
  <2>2. CASE serve' = [serve EXCEPT ![p].at = "bind", ![p].read = config,
                                   ![p].found = tailnet.found]
    <3>1. /\ serve'[p] = [serve[p] EXCEPT !.at = "bind", !.read = config, !.found = tailnet.found]
          /\ \A q \in Procs \ {p} : serve'[q] = serve[q]
      BY <1>0, <2>2
    <3> QED BY <1>0, <2>1, <3>1 DEF Shaped, Fields
  <2>3. CASE Enter(p, "failed")
    BY <1>1, <2>1, <2>3
  <2> QED BY <1>2, <2>2, <2>3 DEF Load
<1>3. CASE Choose(p)
  <2>1. Alive(p)
    BY <1>3 DEF Choose, Alive
  <2>2. CASE serve' = [serve EXCEPT ![p].at = "ips", ![p].addr = BindAddress(p)]
    <3>1. /\ serve'[p] = [serve[p] EXCEPT !.at = "ips", !.addr = BindAddress(p)]
          /\ \A q \in Procs \ {p} : serve'[q] = serve[q]
      BY <1>0, <2>2
    <3> QED BY <1>0, <2>1, <3>1 DEF Shaped, Fields
  <2>3. CASE Enter(p, "failed")
    BY <1>1, <2>1, <2>3
  <2> QED BY <1>3, <2>2, <2>3 DEF Choose
<1>4. ASSUME NEW got \in BOOLEAN, AskIps(p, got) \/ AskNames(p, got)
      PROVE  /\ Alive(p)
             /\ \A q \in Procs \ {p} : serve'[q] = serve[q]
             /\ serve'[p].bin = serve[p].bin /\ serve'[p].hand = serve[p].hand
  <2>1. Alive(p)
    BY <1>4 DEF AskIps, AskNames, Alive
  <2>2. PICK at, missed, hosts :
          serve'[p] = [serve[p] EXCEPT !.at = at, !.missed = missed, !.hosts = hosts]
    <3>1. CASE AskIps(p, got)
      BY <1>0, <3>1 DEF AskIps
    <3>2. CASE AskNames(p, got)
      BY <1>0, <3>2 DEF AskNames
    <3> QED BY <1>4, <3>1, <3>2
  <2>3. \A q \in Procs \ {p} : serve'[q] = serve[q]
    BY <1>0, <1>4 DEF AskIps, AskNames
  <2> QED BY <1>0, <2>1, <2>2, <2>3 DEF Shaped, Fields
<1>5. CASE Listen(p)
  <2>1. Alive(p)
    BY <1>5 DEF Listen, Alive
  <2> QED BY <1>1, <1>5, <2>1 DEF Listen
<1>6. CASE Die(p) \/ Interrupt(p)
  BY <1>1, <1>6 DEF Die, Interrupt
<1> QED BY <1>2, <1>3, <1>4, <1>5, <1>6 DEF Steps, Miss

LEMMA LivesBeside ==
  ASSUME ServeInv, NEW p \in Procs, Steps(p) \/ Miss(p) \/ Die(p) \/ Interrupt(p),
         UNCHANGED <<os, file, linked, known, wanted, legacy, cmd>>
  PROVE  Beside
<1>1. p = "managed" \/ p = "stray"
  BY ServiceAssumption
<1>2. CASE p = "managed"
  <2>1. Alive("managed") /\ serve'["stray"] = serve["stray"]
    BY <1>2, SteppedOf, ServiceAssumption
  <2> QED BY <2>1 DEF Beside, Alive
<1>3. CASE p = "stray"
  <2>1. /\ serve'["managed"] = serve["managed"]
        /\ serve'["stray"].bin = serve["stray"].bin /\ serve'["stray"].hand = serve["stray"].hand
    BY <1>3, SteppedOf, ServiceAssumption
  <2> QED BY <2>1 DEF Beside, Alive
<1> QED BY <1>1, <1>2, <1>3

LEMMA ReapedBeside ==
  ASSUME ServeInv, NEW p \in Procs, Reap(p)
  PROVE  Beside
<1>1. p = "managed" \/ p = "stray"
  BY ServiceAssumption
<1>2. serve'[p] = Gone /\ \A q \in Procs \ {p} : serve'[q] = serve[q]
  BY DEF ServeInv, Reap
<1>3. UNCHANGED <<os, file, linked, known, wanted, legacy, cmd>>
  BY DEF Reap
<1>4. CASE p = "managed"
  <2>1. serve'["managed"] = Gone /\ serve'["stray"] = serve["stray"]
    BY <1>2, <1>4, ServiceAssumption
  <2> QED BY <1>3, <2>1 DEF Beside, Alive, Gone
<1>5. CASE p = "stray"
  <2>1. serve'["stray"] = Gone /\ serve'["managed"] = serve["managed"]
    BY <1>2, <1>5, ServiceAssumption
  <2> QED BY <1>3, <2>1 DEF Beside, Alive
<1> QED BY <1>1, <1>4, <1>5

LEMMA RestartedBeside ==
  ASSUME ServeInv, Restart
  PROVE  Beside
<1>1. wanted /\ known # None /\ UNCHANGED <<os, file, linked, known, wanted, legacy, cmd>>
  BY DEF Restart, managerVars
<1>2. serve'["stray"] = serve["stray"]
  BY ServiceAssumption DEF Restart, Launch, ServeInv
<1> QED BY <1>1, <1>2 DEF Beside

LEMMA StartedBeside ==
  ASSUME ServeInv, StartByHand
  PROVE  Beside
<1>1. UNCHANGED <<os, file, linked, known, wanted, legacy, cmd>>
  BY DEF StartByHand, managerVars
<1>2. PICK bin \in Bins, opts \in HandOptions : Launch("stray", bin, opts, TRUE)
  BY DEF StartByHand
<1>3. /\ serve'["managed"] = serve["managed"]
      /\ serve'["stray"] = Launched(bin, opts, TRUE)
  BY <1>2, ServiceAssumption DEF Launch, ServeInv
<1>4. serve'["stray"].hand
  BY <1>3 DEF Launched, Gone
<1> QED BY <1>1, <1>3, <1>4 DEF Beside, Alive

LEMMA RenumberedBeside ==
  ASSUME ServeInv, NEW net, Renumber(net),
         UNCHANGED <<os, file, linked, known, wanted, legacy, cmd>>
  PROVE  Beside
<1>1. ASSUME NEW p \in Procs
      PROVE  serve'[p].at = serve[p].at /\ serve'[p].bin = serve[p].bin /\ serve'[p].hand = serve[p].hand
  <2>1. Shaped(serve[p])
    BY DEF ServeInv, Good
  <2>2. serve'[p] = serve[p] \/ serve'[p] = [serve[p] EXCEPT !.since = serve[p].since \cup {net}]
    BY DEF Renumber
  <2> QED BY <2>1, <2>2 DEF Shaped, Fields
<1>2. "managed" \in Procs /\ "stray" \in Procs
  BY ServiceAssumption
<1> QED BY <1>1, <1>2 DEF Beside, Alive

LEMMA NothingBeside ==
  ASSUME UNCHANGED <<serve, os, file, linked, known, wanted, legacy, cmd>>
  PROVE  Beside
BY DEF Beside, Alive

-----------------------------------------------------------------------------
LEMMA CommandsStart == Init => CommandInvs
<1> SUFFICES ASSUME Init PROVE CommandInvs
  OBVIOUS
<1>1. os \in Managers /\ serve = [p \in Procs |-> Gone] /\ cmd = Idle /\ wanted = FALSE
      /\ legacy \in (IF os = "schtasks" THEN BOOLEAN ELSE {FALSE})
  BY DEF Init
<1>2. ~Running /\ CommandInv
  BY <1>1, IdleTyped, ServiceAssumption DEF CommandInv, Running, Commands, CallNames
<1>3. ~Alive("managed")
  BY <1>1, ServiceAssumption DEF Alive, Gone
<1>4. SystemdInv /\ LaunchdInv /\ TaskInv
  BY <1>1, <1>2, <1>3 DEF SystemdInv, LaunchdInv, TaskInv, Under
<1> QED BY <1>2, <1>4 DEF CommandInvs

LEMMA CommandsStep == ServeInv /\ CommandInvs /\ [Next]_vars => Keeps
<1> SUFFICES ASSUME ServeInv, CommandInvs, [Next]_vars PROVE Keeps
  OBVIOUS
<1>1. ASSUME NEW op \in {"install", "uninstall"}, NEW bin \in Bins, Give(op, bin) PROVE Keeps
  BY <1>1, GiveKeeps
<1>2. CASE Call
  BY <1>2, CallKeeps
<1>3. CASE PassOver
  BY <1>3, PassOverKeeps
<1>4. CASE GiveUp
  BY <1>4, GiveUpKeeps
<1>5. ASSUME NEW p \in Procs, Reap(p) PROVE Keeps
  BY <1>5, ReapedBeside, BesideKeeps
<1>6. CASE Restart
  BY <1>6, RestartedBeside, BesideKeeps
<1>7. CASE Daemon
  <2>1. PICK p \in Procs : Steps(p) /\ UNCHANGED <<os, managerVars, cmd, budgets>>
    BY <1>7 DEF Daemon
  <2>2. Beside
    BY <2>1, LivesBeside DEF managerVars
  <2> QED BY <2>2, BesideKeeps
<1>8. CASE Mishap
  <2>1. PICK p \in Procs : Die(p) \/ Miss(p)
    BY <1>8 DEF Mishap
  <2>2. Beside
    BY <1>8, <2>1, LivesBeside DEF Mishap, managerVars
  <2> QED BY <2>2, BesideKeeps
<1>9. CASE Login
  BY <1>9, LoginKeeps
<1>10. CASE StopCommand
  BY <1>10, StopCommandKeeps
<1>11. CASE StartByHand
  BY <1>11, StartedBeside, BesideKeeps
<1>12. CASE StopByHand
  <2>1. PICK p \in Procs : Interrupt(p)
    BY <1>12 DEF StopByHand
  <2>2. Beside
    BY <1>12, <2>1, LivesBeside DEF StopByHand, managerVars
  <2> QED BY <2>2, BesideKeeps
<1>13. CASE Edit \/ UNCHANGED vars
  <2>1. Beside
    BY <1>13, NothingBeside, RenumberedBeside DEF Edit, vars, managerVars
  <2> QED BY <2>1, BesideKeeps
<1> QED
  BY <1>1, <1>2, <1>3, <1>4, <1>5, <1>6, <1>7, <1>8, <1>9, <1>10, <1>11, <1>12, <1>13 DEF Next

(* The inductive invariant of the commands: what each call may rely on     *)
(* when it is made, under each manager, whatever failed before.            *)
THEOREM CommandsHold == Spec => [](ServeInv /\ CommandInvs)
<1>1. Init => ServeInv /\ CommandInvs
  BY ServeStart, CommandsStart
<1>2. (ServeInv /\ CommandInvs) /\ [Next]_vars => (ServeInv /\ CommandInvs)'
  BY ServeStep, CommandsStep DEF Keeps
<1> QED
  BY <1>1, <1>2, PTL DEF Spec

(* An install that reports success has put its binary in place, to be      *)
(* started now and at every login, however many commands came before it,   *)
(* were stopped or failed (service/, Op::Install).                         *)
THEOREM InstallAlwaysOk == Spec => InstallOk
<1>1. ServeInv /\ CommandInvs /\ [Next]_vars => [InstallKept]_vars
  BY CommandsStep DEF Keeps
<1>2. [][InstallKept]_vars => InstallOk
  BY PTL DEF InstallOk, InstallKept
<1> QED
  BY <1>1, <1>2, CommandsHold, PTL DEF Spec

(* An uninstall none of whose calls failed leaves no definition, nothing   *)
(* that would start the daemon again and no daemon of the manager's, but   *)
(* for those of another executable when there was no task left to find     *)
(* them by (service/, Op::Uninstall).                                      *)
THEOREM UninstallAlwaysOk == Spec => UninstallOk
<1>1. ServeInv /\ CommandInvs /\ [Next]_vars => [UninstallKept]_vars
  BY CommandsStep DEF Keeps
<1>2. [][UninstallKept]_vars => UninstallOk
  BY PTL DEF UninstallOk, UninstallKept
<1> QED
  BY <1>1, <1>2, CommandsHold, PTL DEF Spec
=============================================================================
