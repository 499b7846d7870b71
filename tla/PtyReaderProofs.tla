-------------------------- MODULE PtyReaderProofs --------------------------
(***************************************************************************)
(* The shell's output, for any number of chunks and connections.           *)
(***************************************************************************)
EXTENDS PtyReader, FiniteSetTheorems, TLAPS

\* A take is the next chunk, or the end
LEMMA TakeCases ==
    ASSUME TypeOK, NEW k, NEW v, Take(k, v)
    PROVE  \/ /\ taken < written /\ v = taken + 1 /\ taken' = v
              /\ owner' = [owner EXCEPT ![v] = k]
           \/ /\ taken = written /\ shell = "exited" /\ v = 0
              /\ taken' = taken /\ owner' = owner
  BY ReaderAssumption DEF TypeOK, Take, Readable

LEMMA TypeStep == TypeOK /\ ReadersOK /\ TakenOK /\ [Next]_vars => TypeOK'
  <1> SUFFICES ASSUME TypeOK, ReadersOK, TakenOK, [Next]_vars PROVE TypeOK'
    OBVIOUS
  <1> USE ReaderAssumption DEF ptyVars, readVars, Chunks, Conns, TypeOK, ReadersOK, TakenOK
  <1>1. ASSUME ShellWrites PROVE TypeOK'
    BY <1>1 DEF ShellWrites
  <1>2. ASSUME ShellExits PROVE TypeOK'
    BY <1>2 DEF ShellExits
  <1>3. ASSUME OnReadable PROVE TypeOK'
    <2>1. PICK v \in Chunks \cup {0} :
            /\ Take(conn, v)
            /\ \/ future = "pending" /\ future' = "set" /\ value' = v
               \/ future # "pending" /\ UNCHANGED <<future, value>>
      BY <1>3 DEF OnReadable
    <2>2. conn \in Conns
      BY <1>3 DEF OnReadable
    <2>3. CASE /\ taken < written /\ v = taken + 1 /\ taken' = v
                /\ owner' = [owner EXCEPT ![v] = conn]
      <3>1. owner' \in [Chunks -> 0..MaxConns] /\ taken' \in 0..MaxChunks
        BY <2>1, <2>2, <2>3
      <3>2. value' \in 0..MaxChunks /\ future' \in {"none", "pending", "set"}
        BY <2>1
      <3> QED BY <1>3, <3>1, <3>2 DEF OnReadable
    <2>4. CASE /\ taken = written /\ shell = "exited" /\ v = 0
                /\ taken' = taken /\ owner' = owner
      BY <1>3, <2>1, <2>2, <2>4 DEF OnReadable
    <2>5. \/ /\ taken < written /\ v = taken + 1 /\ taken' = v
             /\ owner' = [owner EXCEPT ![v] = conn]
          \/ /\ taken = written /\ shell = "exited" /\ v = 0
             /\ taken' = taken /\ owner' = owner
      BY <2>1, TakeCases
    <2> QED BY <2>3, <2>4, <2>5
  <1>4. ASSUME NEW k \in Conns, BlockingRead(k) PROVE TypeOK'
    <2>1. PICK v \in Chunks \cup {0} : Take(k, v) /\ outcome' = [outcome EXCEPT ![k] = v]
      BY <1>4 DEF BlockingRead
    <2>2. k <= conn
      BY <1>4 DEF BlockingRead
    <2>3. CASE /\ taken < written /\ v = taken + 1 /\ taken' = v
                /\ owner' = [owner EXCEPT ![v] = k]
      BY <1>4, <2>1, <2>2, <2>3 DEF BlockingRead
    <2>4. CASE /\ taken = written /\ shell = "exited" /\ v = 0
                /\ taken' = taken /\ owner' = owner
      BY <1>4, <2>1, <2>2, <2>4 DEF BlockingRead
    <2>5. \/ /\ taken < written /\ v = taken + 1 /\ taken' = v
             /\ owner' = [owner EXCEPT ![v] = k]
          \/ /\ taken = written /\ shell = "exited" /\ v = 0
             /\ taken' = taken /\ owner' = owner
      BY <2>1, TakeCases
    <2> QED BY <2>3, <2>4, <2>5
  <1>5. ASSUME NEW k \in Conns, FinishRead(k) PROVE TypeOK'
    BY <1>5 DEF FinishRead
  <1>6. ASSUME Start PROVE TypeOK'
    BY <1>6 DEF Start, Read
  <1>7. ASSUME ReadReturns PROVE TypeOK'
    BY <1>7 DEF ReadReturns
  <1>8. ASSUME Sent PROVE TypeOK'
    <2>1. value \in Chunks
      BY <1>8 DEF Sent
    <2> QED BY <1>8, <2>1 DEF Sent, Read
  <1>9. ASSUME Cancel PROVE TypeOK'
    BY <1>9 DEF Cancel
  <1>10. ASSUME Unwind PROVE TypeOK'
    BY <1>10 DEF Unwind
  <1>11. CASE UNCHANGED vars
    BY <1>11 DEF vars
  <1> QED BY <1>1, <1>2, <1>3, <1>4, <1>5, <1>6, <1>7, <1>8, <1>9, <1>10, <1>11 DEF Next

LEMMA ReadersStep == TypeOK /\ ReadersOK /\ [Next]_vars => ReadersOK'
  <1> SUFFICES ASSUME TypeOK, ReadersOK, [Next]_vars PROVE ReadersOK'
    OBVIOUS
  <1> USE ReaderAssumption DEF ptyVars, readVars, Chunks, Conns, TypeOK, ReadersOK
  <1>1. ASSUME ShellWrites PROVE ReadersOK'
    BY <1>1 DEF ShellWrites
  <1>2. ASSUME ShellExits PROVE ReadersOK'
    BY <1>2 DEF ShellExits
  <1>3. ASSUME OnReadable PROVE ReadersOK'
    BY <1>3 DEF OnReadable, Take, Readable
  <1>4. ASSUME NEW k \in Conns, BlockingRead(k) PROVE ReadersOK'
    BY <1>4 DEF BlockingRead, Take, Readable
  <1>5. ASSUME NEW k \in Conns, FinishRead(k) PROVE ReadersOK'
    BY <1>5 DEF FinishRead
  <1>6. ASSUME Start PROVE ReadersOK'
    BY <1>6 DEF Start, Read
  <1>7. ASSUME ReadReturns PROVE ReadersOK'
    BY <1>7 DEF ReadReturns
  <1>8. ASSUME Sent PROVE ReadersOK'
    BY <1>8 DEF Sent, Read
  <1>9. ASSUME Cancel PROVE ReadersOK'
    BY <1>9 DEF Cancel
  <1>10. ASSUME Unwind PROVE ReadersOK'
    BY <1>10 DEF Unwind
  <1>11. CASE UNCHANGED vars
    BY <1>11 DEF vars
  <1> QED BY <1>1, <1>2, <1>3, <1>4, <1>5, <1>6, <1>7, <1>8, <1>9, <1>10, <1>11 DEF Next

LEMMA TakenStep == TypeOK /\ ReadersOK /\ TakenOK /\ EndOK /\ [Next]_vars => TakenOK'
  <1> SUFFICES ASSUME TypeOK, ReadersOK, TakenOK, EndOK, [Next]_vars PROVE TakenOK'
    OBVIOUS
  <1> USE ReaderAssumption DEF ptyVars, readVars, Chunks, Conns, TypeOK, ReadersOK, TakenOK, EndOK
  <1>1. ASSUME ShellWrites PROVE TakenOK'
    BY <1>1 DEF ShellWrites
  <1>2. ASSUME ShellExits PROVE TakenOK'
    BY <1>2 DEF ShellExits
  <1>3. ASSUME OnReadable PROVE TakenOK'
    <2>1. PICK v \in Chunks \cup {0} :
            /\ Take(conn, v)
            /\ \/ future = "pending" /\ future' = "set" /\ value' = v
               \/ future # "pending" /\ UNCHANGED <<future, value>>
      BY <1>3 DEF OnReadable
    <2>2. conn \in Conns
      BY <1>3 DEF OnReadable
    <2>3. CASE /\ taken < written /\ v = taken + 1 /\ taken' = v
                /\ owner' = [owner EXCEPT ![v] = conn]
      BY <1>3, <2>1, <2>2, <2>3 DEF OnReadable
    <2>4. CASE /\ taken = written /\ shell = "exited" /\ v = 0
                /\ taken' = taken /\ owner' = owner
      BY <1>3, <2>1, <2>2, <2>4 DEF OnReadable
    <2>5. \/ /\ taken < written /\ v = taken + 1 /\ taken' = v
             /\ owner' = [owner EXCEPT ![v] = conn]
          \/ /\ taken = written /\ shell = "exited" /\ v = 0
             /\ taken' = taken /\ owner' = owner
      BY <2>1, TakeCases
    <2> QED BY <2>3, <2>4, <2>5
  <1>4. ASSUME NEW k \in Conns, BlockingRead(k) PROVE TakenOK'
    <2>1. PICK v \in Chunks \cup {0} : Take(k, v) /\ outcome' = [outcome EXCEPT ![k] = v]
      BY <1>4 DEF BlockingRead
    <2>2. k <= conn
      BY <1>4 DEF BlockingRead
    <2>3. CASE /\ taken < written /\ v = taken + 1 /\ taken' = v
                /\ owner' = [owner EXCEPT ![v] = k]
      <3>1. /\ taken' <= written /\ sent \subseteq 1..taken'
            /\ \A i \in 1..taken' : owner'[i] \in 1..conn
            /\ \A i \in 1..taken : owner'[i] = owner[i]
        BY <2>1, <2>2, <2>3
      <3>2. ASSUME NEW l \in Conns, thread'[l] = "posted", outcome'[l] # 0
            PROVE  /\ outcome'[l] <= taken' /\ owner'[outcome'[l]] = l
                   /\ l = conn /\ pump = "reading" => \A j \in sent : j < outcome'[l]
        <4>1. CASE l = k
          BY <1>4, <2>1, <2>2, <2>3, <3>2, <4>1 DEF BlockingRead
        <4>2. CASE l # k
          BY <1>4, <2>1, <2>2, <2>3, <3>1, <3>2, <4>2 DEF BlockingRead
        <4> QED BY <4>1, <4>2
      <3> QED BY <1>4, <2>1, <2>2, <2>3, <3>1, <3>2 DEF BlockingRead
    <2>4. CASE /\ taken = written /\ shell = "exited" /\ v = 0
                /\ taken' = taken /\ owner' = owner
      BY <1>4, <2>1, <2>2, <2>4 DEF BlockingRead
    <2>5. \/ /\ taken < written /\ v = taken + 1 /\ taken' = v
             /\ owner' = [owner EXCEPT ![v] = k]
          \/ /\ taken = written /\ shell = "exited" /\ v = 0
             /\ taken' = taken /\ owner' = owner
      BY <2>1, TakeCases
    <2> QED BY <2>3, <2>4, <2>5
  <1>5. ASSUME NEW k \in Conns, FinishRead(k) PROVE TakenOK'
    BY <1>5 DEF FinishRead
  <1>6. ASSUME Start PROVE TakenOK'
    BY <1>6 DEF Start, Read
  <1>7. ASSUME ReadReturns PROVE TakenOK'
    BY <1>7 DEF ReadReturns
  <1>8. ASSUME Sent PROVE TakenOK'
    BY <1>8 DEF Sent, Read
  <1>9. ASSUME Cancel PROVE TakenOK'
    BY <1>9 DEF Cancel
  <1>10. ASSUME Unwind PROVE TakenOK'
    BY <1>10 DEF Unwind
  <1>11. CASE UNCHANGED vars
    BY <1>11 DEF vars
  <1> QED BY <1>1, <1>2, <1>3, <1>4, <1>5, <1>6, <1>7, <1>8, <1>9, <1>10, <1>11 DEF Next

LEMMA EndStep == TypeOK /\ ReadersOK /\ TakenOK /\ EndOK /\ [Next]_vars => EndOK'
  <1> SUFFICES ASSUME TypeOK, ReadersOK, TakenOK, EndOK, [Next]_vars PROVE EndOK'
    OBVIOUS
  <1> USE ReaderAssumption DEF ptyVars, readVars, Chunks, Conns, TypeOK, ReadersOK, TakenOK, EndOK
  <1>1. ASSUME ShellWrites PROVE EndOK'
    BY <1>1 DEF ShellWrites
  <1>2. ASSUME ShellExits PROVE EndOK'
    BY <1>2 DEF ShellExits
  <1>3. ASSUME OnReadable PROVE EndOK'
    <2>1. PICK v \in Chunks \cup {0} :
            /\ Take(conn, v)
            /\ \/ future = "pending" /\ future' = "set" /\ value' = v
               \/ future # "pending" /\ UNCHANGED <<future, value>>
      BY <1>3 DEF OnReadable
    <2>2. conn \in Conns
      BY <1>3 DEF OnReadable
    <2>3. CASE /\ taken < written /\ v = taken + 1 /\ taken' = v
                /\ owner' = [owner EXCEPT ![v] = conn]
      BY <1>3, <2>1, <2>2, <2>3 DEF OnReadable
    <2>4. CASE /\ taken = written /\ shell = "exited" /\ v = 0
                /\ taken' = taken /\ owner' = owner
      BY <1>3, <2>1, <2>2, <2>4 DEF OnReadable
    <2>5. \/ /\ taken < written /\ v = taken + 1 /\ taken' = v
             /\ owner' = [owner EXCEPT ![v] = conn]
          \/ /\ taken = written /\ shell = "exited" /\ v = 0
             /\ taken' = taken /\ owner' = owner
      BY <2>1, TakeCases
    <2> QED BY <2>3, <2>4, <2>5
  <1>4. ASSUME NEW k \in Conns, BlockingRead(k) PROVE EndOK'
    <2>1. PICK v \in Chunks \cup {0} : Take(k, v) /\ outcome' = [outcome EXCEPT ![k] = v]
      BY <1>4 DEF BlockingRead
    <2>2. k <= conn
      BY <1>4 DEF BlockingRead
    <2>3. CASE /\ taken < written /\ v = taken + 1 /\ taken' = v
                /\ owner' = [owner EXCEPT ![v] = k]
      BY <1>4, <2>1, <2>2, <2>3 DEF BlockingRead
    <2>4. CASE /\ taken = written /\ shell = "exited" /\ v = 0
                /\ taken' = taken /\ owner' = owner
      BY <1>4, <2>1, <2>2, <2>4 DEF BlockingRead
    <2>5. \/ /\ taken < written /\ v = taken + 1 /\ taken' = v
             /\ owner' = [owner EXCEPT ![v] = k]
          \/ /\ taken = written /\ shell = "exited" /\ v = 0
             /\ taken' = taken /\ owner' = owner
      BY <2>1, TakeCases
    <2> QED BY <2>3, <2>4, <2>5
  <1>5. ASSUME NEW k \in Conns, FinishRead(k) PROVE EndOK'
    BY <1>5 DEF FinishRead
  <1>6. ASSUME Start PROVE EndOK'
    BY <1>6 DEF Start, Read
  <1>7. ASSUME ReadReturns PROVE EndOK'
    BY <1>7 DEF ReadReturns
  <1>8. ASSUME Sent PROVE EndOK'
    BY <1>8 DEF Sent, Read
  <1>9. ASSUME Cancel PROVE EndOK'
    BY <1>9 DEF Cancel
  <1>10. ASSUME Unwind PROVE EndOK'
    BY <1>10 DEF Unwind
  <1>11. CASE UNCHANGED vars
    BY <1>11 DEF vars
  <1> QED BY <1>1, <1>2, <1>3, <1>4, <1>5, <1>6, <1>7, <1>8, <1>9, <1>10, <1>11 DEF Next

LEMMA LossStep == TypeOK /\ ReadersOK /\ TakenOK /\ LossOK /\ LossBounded /\ [Next]_vars => LossOK' /\ LossBounded'
  <1> SUFFICES ASSUME TypeOK, ReadersOK, TakenOK, LossOK, LossBounded, [Next]_vars PROVE LossOK' /\ LossBounded'
    OBVIOUS
  <1> USE ReaderAssumption DEF ptyVars, readVars, Chunks, Conns, TypeOK, ReadersOK, TakenOK
  <1>1. ASSUME ShellWrites PROVE LossOK' /\ LossBounded'
    <2>1. \A i \in Chunks : Lost(i)' => Lost(i) /\ owner'[i] = owner[i]
      BY <1>1 DEF ShellWrites, Lost, InHand
    <2> QED BY <1>1, <2>1 DEF ShellWrites, LossOK, LossBounded, NothingLostBy
  <1>2. ASSUME ShellExits PROVE LossOK' /\ LossBounded'
    <2>1. \A i \in Chunks : Lost(i)' => Lost(i) /\ owner'[i] = owner[i]
      BY <1>2 DEF ShellExits, Lost, InHand
    <2> QED BY <1>2, <2>1 DEF ShellExits, LossOK, LossBounded, NothingLostBy
  <1>3. ASSUME OnReadable PROVE LossOK' /\ LossBounded'
    <2>1. PICK v \in Chunks \cup {0} :
            /\ Take(conn, v)
            /\ \/ future = "pending" /\ future' = "set" /\ value' = v
               \/ future # "pending" /\ UNCHANGED <<future, value>>
      BY <1>3 DEF OnReadable
    <2>2. NothingLostBy(conn)
      BY <1>3 DEF OnReadable, LossOK
    <2>3. \A i \in Chunks : Lost(i)' =>
          \/ Lost(i) /\ owner'[i] = owner[i]
          \/ pump = "none" /\ i = v /\ owner'[i] = conn
      <3> SUFFICES ASSUME NEW i \in Chunks, Lost(i)'
                   PROVE  \/ Lost(i) /\ owner'[i] = owner[i]
                          \/ pump = "none" /\ i = v /\ owner'[i] = conn
        OBVIOUS
      <3>1. CASE taken < written /\ v = taken + 1 /\ taken' = v /\ owner' = [owner EXCEPT ![v] = conn]
        <4>1. CASE i = v
          BY <1>3, <2>1, <3>1, <4>1 DEF OnReadable, Lost, InHand
        <4>2. CASE i # v
          <5>1. i \in 1..taken /\ i \notin sent /\ owner'[i] = owner[i] /\ owner[i] \in Conns
            BY <1>3, <3>1, <4>2 DEF OnReadable, Lost
          <5>2. ~InHand(i)
            BY <1>3, <2>1, <3>1, <4>2, <5>1 DEF OnReadable, Lost, InHand
          <5> QED BY <5>1, <5>2 DEF Lost
        <4> QED BY <4>1, <4>2
      <3>2. CASE taken = written /\ shell = "exited" /\ v = 0 /\ taken' = taken /\ owner' = owner
        <4>1. i \in 1..taken /\ i \notin sent /\ owner[i] \in Conns
          BY <1>3, <3>2 DEF OnReadable, Lost
        <4>2. ~InHand(i)
          BY <1>3, <2>1, <3>2, <4>1 DEF OnReadable, Lost, InHand
        <4> QED BY <3>2, <4>1, <4>2 DEF Lost
      <3>3. \/ taken < written /\ v = taken + 1 /\ taken' = v /\ owner' = [owner EXCEPT ![v] = conn]
            \/ taken = written /\ shell = "exited" /\ v = 0 /\ taken' = taken /\ owner' = owner
        BY <2>1, TakeCases
      <3> QED BY <3>1, <3>2, <3>3
    <2>4. LossOK'
      <3>1. reader' = FALSE /\ pump' = pump /\ thread' = thread /\ conn' = conn
        BY <1>3 DEF OnReadable
      <3>2. \A k \in Conns : thread[k] # "blocked"
        BY <1>3 DEF OnReadable
      <3>3. pump # "none" => NothingLostBy(conn)'
        BY <2>2, <2>3, <3>1 DEF NothingLostBy
      <3> QED BY <3>1, <3>2, <3>3 DEF LossOK
    <2>5. LossBounded'
      <3>1. pump' = pump /\ conn' = conn
        BY <1>3 DEF OnReadable
      <3> QED BY <2>2, <2>3, <3>1 DEF LossBounded, NothingLostBy
    <2> QED BY <2>4, <2>5
  <1>4. ASSUME NEW k \in Conns, BlockingRead(k) PROVE LossOK' /\ LossBounded'
    <2>1. PICK v \in Chunks \cup {0} : Take(k, v) /\ outcome' = [outcome EXCEPT ![k] = v]
      BY <1>4 DEF BlockingRead
    <2>2. NothingLostBy(k)
      BY <1>4 DEF BlockingRead, LossOK
    <2>3. \A i \in Chunks : Lost(i)' =>
          \/ Lost(i) /\ owner'[i] = owner[i]
          \/ (k < conn \/ pump = "none") /\ i = v /\ owner'[i] = k
      <3> SUFFICES ASSUME NEW i \in Chunks, Lost(i)'
                   PROVE  \/ Lost(i) /\ owner'[i] = owner[i]
                          \/ (k < conn \/ pump = "none") /\ i = v /\ owner'[i] = k
        OBVIOUS
      <3>1. CASE taken < written /\ v = taken + 1 /\ taken' = v /\ owner' = [owner EXCEPT ![v] = k]
        <4>1. CASE i = v
          BY <1>4, <2>1, <3>1, <4>1 DEF BlockingRead, Lost, InHand
        <4>2. CASE i # v
          <5>1. i \in 1..taken /\ i \notin sent /\ owner'[i] = owner[i] /\ owner[i] \in Conns
            BY <1>4, <3>1, <4>2 DEF BlockingRead, Lost
          <5>2. ~InHand(i)
            BY <1>4, <2>1, <3>1, <4>2, <5>1 DEF BlockingRead, Lost, InHand
          <5> QED BY <5>1, <5>2 DEF Lost
        <4> QED BY <4>1, <4>2
      <3>2. CASE taken = written /\ shell = "exited" /\ v = 0 /\ taken' = taken /\ owner' = owner
        <4>1. i \in 1..taken /\ i \notin sent /\ owner[i] \in Conns
          BY <1>4, <3>2 DEF BlockingRead, Lost
        <4>2. ~InHand(i)
          BY <1>4, <2>1, <3>2, <4>1 DEF BlockingRead, Lost, InHand
        <4> QED BY <3>2, <4>1, <4>2 DEF Lost
      <3>3. \/ taken < written /\ v = taken + 1 /\ taken' = v /\ owner' = [owner EXCEPT ![v] = k]
            \/ taken = written /\ shell = "exited" /\ v = 0 /\ taken' = taken /\ owner' = owner
        BY <2>1, TakeCases
      <3> QED BY <3>1, <3>2, <3>3
    <2>4. ~reader /\ ~reader'
      BY <1>4 DEF BlockingRead
    <2>5. \A l \in Conns : thread'[l] = "blocked" => l # k /\ NothingLostBy(l)
      BY <1>4 DEF BlockingRead, LossOK
    <2>6. pump # "none" => NothingLostBy(conn)
      BY DEF LossOK
    <2>7. LossOK'
      <3>1. ASSUME NEW l \in Conns, thread'[l] = "blocked" PROVE NothingLostBy(l)'
        BY <2>3, <2>5, <3>1 DEF NothingLostBy
      <3>2. conn' = conn /\ pump' = pump
        BY <1>4 DEF BlockingRead
      <3>3. ASSUME pump # "none", NEW i \in Chunks, Lost(i)' PROVE owner'[i] # conn
        BY <2>3, <2>6, <3>3 DEF NothingLostBy
      <3> QED BY <2>4, <3>1, <3>2, <3>3 DEF LossOK, NothingLostBy
    <2>8. LossBounded'
      BY <1>4, <2>2, <2>3 DEF BlockingRead, LossBounded, NothingLostBy
    <2> QED BY <2>7, <2>8
  <1>5. ASSUME NEW k \in Conns, FinishRead(k) PROVE LossOK' /\ LossBounded'
    <2>1. \A i \in Chunks : Lost(i)' => Lost(i) /\ owner'[i] = owner[i]
      BY <1>5 DEF FinishRead, Lost, InHand
    <2> QED BY <1>5, <2>1 DEF FinishRead, LossOK, LossBounded, NothingLostBy
  <1>6. ASSUME Start PROVE LossOK' /\ LossBounded'
    <2>1. \A i \in Chunks : Lost(i)' => Lost(i) /\ owner'[i] = owner[i] /\ owner[i] <= conn
      BY <1>6 DEF Start, Read, Lost, InHand
    <2>2. \A i \in Chunks : Lost(i)' => owner'[i] # conn'
      BY <1>6, <2>1 DEF Start
    <2>3. \A l \in Conns : thread'[l] = "blocked" => thread[l] = "blocked" \/ l = conn'
      BY <1>6 DEF Start, Read
    <2> QED BY <1>6, <2>1, <2>2, <2>3 DEF Start, LossOK, LossBounded, NothingLostBy
  <1>7. ASSUME ReadReturns PROVE LossOK' /\ LossBounded'
    <2>1. \A i \in Chunks : Lost(i)' => Lost(i) /\ owner'[i] = owner[i]
      BY <1>7 DEF ReadReturns, Lost, InHand
    <2> QED BY <1>7, <2>1 DEF ReadReturns, LossOK, LossBounded, NothingLostBy
  <1>8. ASSUME Sent PROVE LossOK' /\ LossBounded'
    <2>1. \A i \in Chunks : Lost(i)' => Lost(i) /\ owner'[i] = owner[i]
      BY <1>8 DEF Sent, Read, Lost, InHand
    <2>2. \A l \in Conns : thread'[l] = "blocked" => thread[l] = "blocked" \/ l = conn
      BY <1>8 DEF Sent, Read
    <2> QED BY <1>8, <2>1, <2>2 DEF Sent, Read, LossOK, LossBounded, NothingLostBy
  <1>9. ASSUME Cancel PROVE LossOK' /\ LossBounded'
    <2>1. \A i \in Chunks : Lost(i)' =>
          \/ Lost(i)
          \/ value = i /\ owner[i] = conn
          \/ thread[conn] = "posted" /\ outcome[conn] = i /\ owner[i] = conn
      <3> SUFFICES ASSUME NEW i \in Chunks, Lost(i)', ~Lost(i)
                   PROVE  \/ value = i /\ owner[i] = conn
                          \/ thread[conn] = "posted" /\ outcome[conn] = i /\ owner[i] = conn
        OBVIOUS
      <3>1. InHand(i) /\ i \in 1..taken
        BY <1>9 DEF Cancel, Lost
      <3> QED BY <1>9, <3>1 DEF InHand
    <2>2. value # 0 => thread[conn] = "none" /\ ~reader
      BY <1>9 DEF Cancel
    <2>3. NothingLostBy(conn) /\ (thread[conn] = "posted" => value = 0 /\ ~reader)
      BY <1>9, <2>2 DEF Cancel, LossOK
    <2>4. (reader' => NothingLostBy(conn)') /\ \A k \in Conns : thread'[k] = "blocked" => NothingLostBy(k)'
      BY <1>9, <2>1, <2>2, <2>3 DEF Cancel, LossOK, NothingLostBy
    <2>5. LossBounded'
      BY <1>9, <2>1, <2>2, <2>3 DEF Cancel, LossBounded, NothingLostBy
    <2> QED BY <1>9, <2>4, <2>5 DEF Cancel, LossOK
  <1>10. ASSUME Unwind PROVE LossOK' /\ LossBounded'
    <2>1. \A i \in Chunks : Lost(i)' => Lost(i) /\ owner'[i] = owner[i]
      BY <1>10 DEF Unwind, Lost, InHand
    <2> QED BY <1>10, <2>1 DEF Unwind, LossOK, LossBounded, NothingLostBy
  <1>11. CASE UNCHANGED vars
    BY <1>11 DEF vars, LossOK, LossBounded, NothingLostBy, Lost, InHand
  <1> QED BY <1>1, <1>2, <1>3, <1>4, <1>5, <1>6, <1>7, <1>8, <1>9, <1>10, <1>11 DEF Next

LEMMA InductiveInit == Init => IInv
  <1> SUFFICES ASSUME Init PROVE IInv
    OBVIOUS
  <1>1. TypeOK
    <2>1. conpty \in BOOLEAN /\ reader \in BOOLEAN /\ unwinding \in BOOLEAN
      BY DEF Init
    <2>2. /\ thread \in [Conns -> {"none", "blocked", "posted"}]
          /\ outcome \in [Conns -> 0..MaxChunks] /\ owner \in [Chunks -> 0..MaxConns]
      BY ReaderAssumption DEF Init
    <2> QED BY <2>1, <2>2, ReaderAssumption DEF Init, TypeOK
  <1> ReadersOK
    BY ReaderAssumption DEF Init, ReadersOK
  <1>2. TakenOK /\ EndOK
    BY ReaderAssumption DEF Init, TakenOK, EndOK, Conns
  <1>3. \A i \in Chunks : ~Lost(i)
    BY DEF Init, Lost
  <1> QED BY <1>1, <1>2, <1>3 DEF IInv, LossOK, LossBounded, NothingLostBy

LEMMA Inductive == Spec => []IInv
  <1>1. IInv /\ [Next]_vars => IInv'
    BY TypeStep, ReadersStep, TakenStep, EndStep, LossStep DEF IInv
  <1> QED BY InductiveInit, <1>1, PTL DEF Spec

\* Every variable keeps its type, whichever backend runs.  (Both read functions.)
THEOREM TypeCorrect == Spec => []TypeOK
  <1>1. IInv => TypeOK
    BY DEF IInv
  <1> QED BY Inductive, <1>1, PTL

\* However many connections come and go, each loses at most one chunk and only
\* when it ends.  (The cancelled read of both backends.)
THEOREM LossIsBounded == Spec => []LossBounded
  <1>1. IInv => LossBounded
    BY DEF IInv
  <1> QED BY Inductive, <1>1, PTL

\* The end of the output comes after all of it.  (EOFError of both backends.)
THEOREM EndComesLast == Spec => []EndIsLast
  <1>1. IInv => EndIsLast
    <2> SUFFICES ASSUME IInv, pump = "ended", NEW i \in 1..written PROVE i \in sent \/ (Lost(i) /\ owner[i] < conn)
      BY DEF EndIsLast
    <2>1. i \in 1..taken /\ i \in Chunks /\ owner[i] \in 1..conn /\ ~InHand(i)
      BY ReaderAssumption DEF IInv, TypeOK, TakenOK, EndOK, InHand, Chunks
    <2>2. NothingLostBy(conn)
      BY DEF IInv, LossOK
    <2> QED BY <2>1, <2>2, ReaderAssumption DEF IInv, TypeOK, NothingLostBy, Lost
  <1> QED BY Inductive, <1>1, PTL

\* Output is sent in order and once, whichever threads read it.  (finish_read,
\* _on_readable.)
THEOREM OutputIsInOrder == Spec => OutputInOrder
  <1>1. IInv /\ [Next]_vars => [\A i \in sent' \ sent : \A j \in sent : j < i]_vars
    <2> SUFFICES ASSUME IInv, [Next]_vars, NEW i \in sent' \ sent PROVE \A j \in sent : j < i
      OBVIOUS
    <2>1. sent' = sent \/ Sent
      BY DEF Next, vars, ptyVars, readVars, ShellWrites, ShellExits, OnReadable, BlockingRead,
         FinishRead, Start, ReadReturns, Cancel, Unwind
    <2> QED BY <2>1 DEF Sent, IInv, TakenOK
  <1> QED BY Inductive, <1>1, PTL DEF Spec, OutputInOrder

(***************************************************************************)
(* The refinement.                                                         *)
(***************************************************************************)

StreamStep == [Stream!StreamNext]_(Stream!svars)

\* OutputStream counts as this module does.
LEMMA SameCount == ASSUME NEW S PROVE Stream!Cardinality(S) = Cardinality(S)
  BY DEF Stream!Cardinality, Cardinality

\* Chunks that are lost while a connection streams were lost by the connections
\* before it, each by another one.
LEMMA LostAreFew ==
    ASSUME IInv, pump # "none", NEW n \in Nat, \A i \in Stream!Skipped(n) : Lost(i)
    PROVE  Cardinality(Stream!Skipped(n)) <= conn - 1
  <1> USE ReaderAssumption
  <1> DEFINE S == Stream!Skipped(n)
  <1> DEFINE T == 1..(conn - 1)
  <1> DEFINE f == [i \in S |-> owner[i]]
  <1>1. conn \in Nat \ {0}
    BY DEF IInv, TypeOK, ReadersOK
  <1>2. \A i \in S : i \in Chunks /\ owner[i] \in T
    <2> SUFFICES ASSUME NEW i \in S PROVE i \in Chunks /\ owner[i] \in T
      OBVIOUS
    <2>1. Lost(i) /\ i \in 1..taken
      BY DEF Lost
    <2>2. i \in Chunks /\ owner[i] \in 1..conn
      BY <2>1 DEF IInv, TypeOK, TakenOK, Chunks
    <2>3. owner[i] < conn
      BY <2>1, <2>2 DEF IInv, LossBounded
    <2> QED BY <1>1, <2>2, <2>3
  <1>3. \A i, j \in S : owner[i] = owner[j] => i = j
    BY <1>2 DEF IInv, LossBounded
  <1> HIDE DEF S, T
  <1>4. f \in Injection(S, T)
    BY <1>2, <1>3 DEF Injection, IsInjective
  <1>5. IsFiniteSet(T) /\ Cardinality(T) = conn - 1
    BY <1>1, FS_Interval DEF T
  <1>6. Cardinality(S) <= Cardinality(T)
    BY <1>4, <1>5, FS_Injection
  <1> QED BY <1>5, <1>6 DEF S

\* A chunk is delivered after what was written before it, but for what is lost.
LEMMA DeliverStep ==
    ASSUME IInv, Sent
    PROVE  StreamStep
  <1> USE ReaderAssumption
  <1>1. /\ value \in 1..written /\ value <= taken /\ taken \in Nat
        /\ \A j \in sent : j < value
    BY DEF Sent, IInv, TypeOK, TakenOK
  <1>2. \A i \in Stream!Skipped(value - 1) : Lost(i)
    BY <1>1 DEF Sent, Stream!Skipped, Lost, InHand
  <1>3. Cardinality(Stream!Skipped(value - 1)) <= conn - 1
    BY <1>1, <1>2, LostAreFew DEF Sent
  <1>4. Broken = conn - 1 /\ UNCHANGED <<written, Broken>> /\ sent' = sent \cup {value}
    BY DEF Sent, Read, ptyVars, Broken
  <1>5. (pump = "ended") = FALSE /\ (pump' = "ended") = FALSE
    BY DEF Sent, Read
  <1>6. Stream!Deliver(value)
    BY <1>1, <1>3, <1>4, <1>5, SameCount DEF Stream!Deliver
  <1> QED BY <1>1, <1>6 DEF StreamStep, Stream!StreamNext

\* The end is reported after everything else, but for what is lost.
LEMMA EndStepOfStream ==
    ASSUME IInv, ReadReturns, value = 0
    PROVE  StreamStep
  <1> USE ReaderAssumption
  <1>1. taken = written /\ written \in Nat /\ thread[conn] = "none"
    BY DEF ReadReturns, IInv, TypeOK, ReadersOK, EndOK
  <1>2. \A i \in Stream!Skipped(written) : Lost(i)
    <2> SUFFICES ASSUME NEW i \in Stream!Skipped(written) PROVE Lost(i)
      OBVIOUS
    <2>1. i \in 1..taken /\ i \notin sent /\ value # i
      BY <1>1 DEF Stream!Skipped
    <2> QED BY <1>1, <2>1 DEF Lost, InHand
  <1>3. Cardinality(Stream!Skipped(written)) <= conn - 1
    BY <1>1, <1>2, LostAreFew DEF ReadReturns
  <1>4. Broken = conn - 1 /\ UNCHANGED <<written, sent, Broken>>
    BY DEF ReadReturns, ptyVars, Broken
  <1>5. (pump = "ended") = FALSE /\ (pump' = "ended") = TRUE
    BY DEF ReadReturns
  <1>6. Stream!End
    BY <1>3, <1>4, <1>5, SameCount DEF Stream!End
  <1> QED BY <1>6 DEF StreamStep, Stream!StreamNext

\* Every step is one of OutputStream, or one it does not see.
LEMMA StreamOfStep == IInv /\ [Next]_vars => StreamStep
  <1> SUFFICES ASSUME IInv, [Next]_vars PROVE StreamStep
    OBVIOUS
  <1> USE ReaderAssumption DEF ptyVars, readVars
  <1>quiet. ASSUME UNCHANGED <<written, sent, Broken>>, pump' = "ended" <=> pump = "ended"
            PROVE  StreamStep
    BY <1>quiet DEF StreamStep, Stream!svars
  <1>1. CASE ShellWrites
    <2>1. pump # "ended"
      BY <1>1 DEF ShellWrites, IInv, EndOK
    <2>2. Stream!Produce
      BY <1>1, <2>1 DEF ShellWrites, Stream!Produce, Broken
    <2> QED BY <2>2 DEF StreamStep, Stream!StreamNext
  <1>2. CASE ShellExits
    BY <1>2, <1>quiet DEF ShellExits, Broken
  <1>3. CASE OnReadable
    BY <1>3, <1>quiet DEF OnReadable, Broken
  <1>4. ASSUME NEW k \in Conns, BlockingRead(k) \/ FinishRead(k) PROVE StreamStep
    BY <1>4, <1>quiet DEF BlockingRead, FinishRead, Broken
  <1>5. CASE Start
    BY <1>5, <1>quiet DEF Start, Read, Broken, IInv, TypeOK
  <1>6. CASE ReadReturns /\ value # 0
    BY <1>6, <1>quiet DEF ReadReturns, Broken
  <1>7. CASE ReadReturns /\ value = 0
    BY <1>7, EndStepOfStream
  <1>8. CASE Sent
    BY <1>8, DeliverStep
  <1>9. CASE Cancel
    <2>1. Broken' = Broken + 1
      BY <1>9 DEF Cancel, Broken, IInv, TypeOK
    <2>2. Stream!Break
      BY <1>9, <2>1 DEF Cancel, Stream!Break
    <2> QED BY <2>2 DEF StreamStep, Stream!StreamNext
  <1>10. CASE Unwind
    BY <1>10, <1>quiet DEF Unwind, Broken
  <1>11. CASE UNCHANGED vars
    BY <1>11, <1>quiet DEF vars, Broken
  <1> QED
    BY <1>1, <1>2, <1>3, <1>4, <1>5, <1>6, <1>7, <1>8, <1>9, <1>10, <1>11 DEF Next

\* For any number of chunks and connections, and both backends: the output that
\* reaches the relay is a stream in order, with no more gaps than connections
\* have broken, and complete but for them when its end is reported.
THEOREM ImplementsStream == Spec => StreamsOutput
  <1>1. Init => Stream!StreamInit
    BY DEF Init, Stream!StreamInit, Broken
  <1>2. IInv /\ [Next]_vars => StreamStep
    BY StreamOfStep
  <1> QED
    BY <1>1, <1>2, Inductive, PTL DEF Spec, StreamsOutput, Stream!StreamSpec, StreamStep

=============================================================================
