------------------------------ MODULE DeviceIo ------------------------------
(***************************************************************************)
(* What the drivers of redirected devices answer: requests of disks,       *)
(* printers and ports, the settings of a serial port, and the calls of the *)
(* smart card driver.                                                      *)
(***************************************************************************)
EXTENDS Layout, Integers, Sequences, FiniteSets

-----------------------------------------------------------------------------
(* What the disk, printer, parallel and serial devices answer to a request *)
(* (channels/rdpdr).  An answer follows the 16 bytes of irp_new: out is    *)
(* its layout, length the number it announces for what comes after its     *)
(* first word (None where it announces none), reads the layout of what is  *)
(* taken from the request, io the status.  The argument a holds what the   *)
(* request asks for and how the system calls end.                          *)

None == -1
STATUS_SUCCESS == "success"
STATUS_UNSUCCESSFUL == "unsuccessful"
STATUS_NOT_SUPPORTED == "not supported"
STATUS_NO_MORE_FILES == "no more files"
STATUS_ACCESS_DENIED == "access denied"
STATUS_PRINT_QUEUE_FULL == "queue full"
STATUS_PENDING == "pending"
STATUS_INVALID_PARAMETER == "invalid"
Ok(b) == IF b THEN STATUS_SUCCESS ELSE STATUS_UNSUCCESSFUL
Irp(io, reads, length, out) == [io |-> io, reads |-> reads, length |-> length, out |-> out]

disk_map_posix_err(fs_errno) ==
    CASE fs_errno \in {"EPERM", "EACCES"} -> STATUS_ACCESS_DENIED
      [] fs_errno = "ENOENT" -> "no such file"
      [] fs_errno = "EBUSY" -> "busy"
      [] fs_errno = "EEXIST" -> "collision"
      [] fs_errno = "EISDIR" -> "is a directory"
      [] OTHER -> STATUS_UNSUCCESSFUL

(* Opening: the file's number and what was done.                           *)
disk_irp_create(a) ==
    Irp(IF a.open THEN STATUS_SUCCESS ELSE disk_map_posix_err(a.errno),
        <<4, 16, 4, 4, 4>>, None, <<4, 1>>)
serial_process_irp_create(a) == Irp(Ok(a.open), <<28, 4>>, None, <<4, 1>>)
parallel_process_irp_create(a) ==
    Irp(IF a.open THEN STATUS_SUCCESS ELSE STATUS_ACCESS_DENIED, <<28, 4>>, None, <<4, 1>>)
printer_process_irp_create(a) ==
    Irp(IF a.open THEN STATUS_SUCCESS ELSE STATUS_PRINT_QUEUE_FULL, << >>, None, <<4>>)

disk_irp_close(a) == Irp(Ok(a.open), << >>, None, <<5>>)
serial_process_irp_close(a) == Irp(Ok(a.open), << >>, None, <<5>>)
parallel_process_irp_close(a) == Irp(STATUS_SUCCESS, << >>, None, <<5>>)
printer_process_irp_close(a) == Irp(Ok(a.open), << >>, None, <<4>>)

(* Reading: the system call gives a.got bytes of the a.Length asked for.   *)
(* The parallel port reads into the output stream itself, and answers with *)
(* as many bytes as were asked for, of a buffer nothing was read into.     *)
Data(n) == When(n > 0, <<n>>)
disk_file_io(a) == [seek |-> a.open /\ ~a.is_dir /\ a.seek, read |-> a.got >= 0, write |-> a.wrote]
disk_process_irp_read(a) ==
    LET ok == disk_file_io(a).seek /\ disk_file_io(a).read
        Length == IF ok THEN a.got ELSE 0
    IN  Irp(Ok(ok), <<4, 8>>, Length, <<4>> \o Data(Length))
serial_process_irp_read(a) ==
    LET ok == a.open /\ a.got >= 0
        Length == IF ok THEN a.got ELSE 0
    IN  Irp(Ok(ok), <<4, 8>>, Length, <<4>> \o Data(Length))
parallel_process_irp_read(a) ==
    LET Length == IF a.got >= 0 THEN a.Length ELSE 0
    IN  Irp(Ok(a.got >= 0), <<4, 8>>, Length, <<4>> \o Data(Length))

(* Writing: every device but the printer goes on until all is written or a *)
(* write fails.  The number is what was written.                           *)
Wrote(ok, a) == Irp(Ok(ok), <<4, 8, 20>>, None, <<4, 1>>)
disk_process_irp_write(a) == Wrote(disk_file_io(a).seek /\ disk_file_io(a).write, a)
serial_process_irp_write(a) == Wrote(a.open /\ a.wrote, a)
parallel_process_irp_write(a) == Wrote(a.wrote, a)
printer_process_irp_write(a) == Wrote(a.open, a)

Times4 == <<8, 8, 8, 8>>
disk_file_query_information(a) ==
    CASE ~a.stat -> [ok |-> FALSE, length |-> 0, out |-> <<4>>]
      [] a.class = "Basic" -> [ok |-> TRUE, length |-> 36, out |-> <<4>> \o Times4 \o <<4>>]
      [] a.class = "Standard" -> [ok |-> TRUE, length |-> 22, out |-> <<4, 8, 8, 4, 1, 1>>]
      [] a.class = "AttributeTag" -> [ok |-> TRUE, length |-> 8, out |-> <<4, 4, 4>>]
      [] OTHER -> [ok |-> FALSE, length |-> 0, out |-> <<4>>]
disk_process_irp_query_information(a) ==
    LET q == disk_file_query_information(a)
    IN  IF ~a.open THEN Irp(STATUS_UNSUCCESSFUL, <<4>>, None, << >>)
        ELSE Irp(Ok(q.ok), <<4>>, q.length, q.out)

(* The answer repeats the length of the request, done or not.              *)
disk_process_irp_set_information(a) ==
    Irp(Ok(a.open /\ a.set), <<4, 4, 24>>, None, <<4>>)

disk_process_irp_query_volume_information(a) ==
    CASE a.class = "Volume" -> Irp(STATUS_SUCCESS, <<4>>, 34, <<4, 8, 4, 4, 1, 1, 16>>)
      [] a.class = "Size" -> Irp(STATUS_SUCCESS, <<4>>, 24, <<4, 8, 8, 4, 4>>)
      [] a.class = "Attribute" -> Irp(STATUS_SUCCESS, <<4>>, 22, <<4, 4, 4, 4, 10>>)
      [] a.class = "FullSize" -> Irp(STATUS_SUCCESS, <<4>>, 32, <<4, 8, 8, 8, 4, 4>>)
      [] a.class = "Device" -> Irp(STATUS_SUCCESS, <<4>>, 8, <<4, 4, 4>>)
      [] OTHER -> Irp(STATUS_UNSUCCESSFUL, <<4>>, 0, <<4>>)

(* The next entry of the directory, its name of a.len bytes.               *)
Entry == <<4, 4>> \o Times4 \o <<8, 8, 4, 4>>
disk_file_query_directory(a) ==
    CASE ~a.is_dir \/ ~a.more -> [ok |-> FALSE, length |-> 0, out |-> <<4, 1>>]
      [] a.class = "Directory" ->
            [ok |-> TRUE, length |-> 64 + a.len, out |-> <<4>> \o Entry \o <<a.len>>]
      [] a.class = "FullDirectory" ->
            [ok |-> TRUE, length |-> 68 + a.len, out |-> <<4>> \o Entry \o <<4, a.len>>]
      [] a.class = "BothDirectory" ->
            [ok |-> TRUE, length |-> 93 + a.len, out |-> <<4>> \o Entry \o <<4, 1, 24, a.len>>]
      [] a.class = "Names" ->
            [ok |-> TRUE, length |-> 12 + a.len, out |-> <<4, 4, 4, 4, a.len>>]
      [] OTHER -> [ok |-> FALSE, length |-> 0, out |-> <<4, 1>>]
disk_process_irp_query_directory(a) ==
    LET q == disk_file_query_directory(a)
    IN  IF ~a.open THEN Irp(STATUS_UNSUCCESSFUL, <<4, 1, 4, 23>>, 0, <<4>>)
        ELSE Irp(IF q.ok THEN STATUS_SUCCESS ELSE STATUS_NO_MORE_FILES,
                 <<4, 1, 4, 23>>, q.length, q.out)
disk_process_irp_device_control(a) == Irp(STATUS_SUCCESS, << >>, 0, <<4>>)
parallel_process_irp_device_control(a) == Irp(STATUS_SUCCESS, << >>, 0, <<4>>)
NotSupported == Irp(STATUS_NOT_SUPPORTED, << >>, None, << >>)

disk_process_irp(major, a) ==
    CASE major = "create" -> disk_irp_create(a)
      [] major = "close" -> disk_irp_close(a)
      [] major = "read" -> disk_process_irp_read(a)
      [] major = "write" -> disk_process_irp_write(a)
      [] major = "query" -> disk_process_irp_query_information(a)
      [] major = "set" -> disk_process_irp_set_information(a)
      [] major = "volume" -> disk_process_irp_query_volume_information(a)
      [] major = "directory" -> disk_process_irp_query_directory(a)
      [] major = "control" -> disk_process_irp_device_control(a)
      [] OTHER -> NotSupported
printer_process_irp(major, a) ==
    CASE major = "create" -> printer_process_irp_create(a)
      [] major = "close" -> printer_process_irp_close(a)
      [] major = "write" -> printer_process_irp_write(a)
      [] OTHER -> NotSupported
parallel_process_irp(major, a) ==
    CASE major = "create" -> parallel_process_irp_create(a)
      [] major = "close" -> parallel_process_irp_close(a)
      [] major = "read" -> parallel_process_irp_read(a)
      [] major = "write" -> parallel_process_irp_write(a)
      [] major = "control" -> parallel_process_irp_device_control(a)
      [] OTHER -> NotSupported

(* The announcement of a printer: six words and two terminated names.      *)
printer_register(driver, name) ==
    [room |-> 28 + driver + name, out |-> <<4, 4, 4, 4, 4, 4, driver, 2, name, 2>>]

(* The capabilities the client sends, and how it skips the server's.       *)
rdpdr_write_capset_header == <<2, 2, 4>>
rdpdr_write_general_capset ==
    [length |-> 44, out |-> rdpdr_write_capset_header \o <<4, 4, 2, 2, 4, 4, 4, 4, 4, 4>>]
\* Printers, ports, drives and smart cards: the header alone.
rdpdr_write_device_capset == [length |-> 8, out |-> rdpdr_write_capset_header]
rdpdr_send_capability_response ==
    <<rdpdr_write_general_capset>> \o [i \in 1 .. 4 |-> rdpdr_write_device_capset]
(* A set of a type that is not known is not skipped: only its type is      *)
(* taken.                                                                  *)
rdpdr_process_capability_request(sets) ==
    <<2, 2>> \o FlattenSeq([i \in DOMAIN sets |->
        IF sets[i].known THEN <<2, 2, sets[i].length - 4>> ELSE <<2>>])

(* A star stands for the rest of the name at the end of the pattern, and   *)
(* for nothing anywhere else.                                              *)
RECURSIVE disk_file_wildcard_match(_, _)
disk_file_wildcard_match(p, f) ==
    CASE p = << >> -> f = << >>
      [] p = <<"*">> -> TRUE
      [] OTHER ->
            LET q == IF Head(p) = "*" THEN Tail(p) ELSE p
            IN  /\ f # << >>
                /\ Head(q) = Head(f)
                /\ disk_file_wildcard_match(Tail(q), Tail(f))

-----------------------------------------------------------------------------
(* serial_tty.c: what the redirected serial port keeps of the server's     *)
(* settings, what it sets of the terminal, and the events it reports.      *)

BaudRates == {75, 110, 134, 150, 300, 600, 1200, 1800, 2400, 4800, 9600, 19200,
              38400, 57600, 115200, 230400, 460800}
SERIAL_STOP_BITS_1 == 0
SERIAL_STOP_BITS_2 == 2
SERIAL_NO_PARITY == 0
SERIAL_ODD_PARITY == 1
SERIAL_EVEN_PARITY == 2

(* The terminal's settings from the port's.  The flow control of the input *)
(* is switched off only when the server asks for neither kind of it.       *)
tty_set_termios(tty, old) ==
    [speed |-> IF tty.baud_rate \notin BaudRates THEN 9600
               ELSE IF tty.baud_rate > 115200 THEN 115200 ELSE tty.baud_rate,
     CSTOPB |-> tty.stop_bits = SERIAL_STOP_BITS_2,
     PARENB |-> tty.parity \in {SERIAL_EVEN_PARITY, SERIAL_ODD_PARITY},
     PARODD |-> tty.parity = SERIAL_ODD_PARITY,
     CSIZE |-> IF tty.word_length \in 5 .. 7 THEN tty.word_length ELSE 8,
     CRTSCTS |-> tty.cts,
     IXON |-> tty.xon \/ (old.IXON /\ tty.xoff),
     IXOFF |-> tty.xoff \/ (old.IXOFF /\ tty.xon),
     cc |-> tty.chars]

(* And back, when the server asks for the flow control or opens the port.  *)
tty_get_termios(termios) ==
    [baud_rate |-> IF termios.speed \in BaudRates THEN termios.speed ELSE 9600,
     stop_bits |-> IF termios.CSTOPB THEN SERIAL_STOP_BITS_2 ELSE SERIAL_STOP_BITS_1,
     parity |-> IF ~termios.PARENB THEN SERIAL_NO_PARITY
                ELSE IF termios.PARODD THEN SERIAL_ODD_PARITY ELSE SERIAL_EVEN_PARITY,
     word_length |-> termios.CSIZE, cts |-> termios.CRTSCTS,
     xon |-> termios.IXON, xoff |-> termios.IXOFF, chars |-> termios.cc]

(* A freshly opened port is raw, with eight bits and no parity; the port's *)
(* own record is of the terminal as it was found.                          *)
serial_tty_new(termios) ==
    [tty |-> tty_get_termios(termios), told |-> << >>,
     termios |-> [termios EXCEPT !.CSIZE = 8, !.PARENB = FALSE,
                                 !.IXON = FALSE, !.IXOFF = FALSE]]

(* What a control answers: its length word and what follows it.            *)
TtyAnswers == [GET_BAUD_RATE |-> <<4>>, GET_LINE_CONTROL |-> <<1, 1, 1>>,
               CONFIG_SIZE |-> <<4>>, GET_CHARS |-> <<6>>,
            GET_HANDFLOW |-> <<4, 4, 4, 4>>, GET_TIMEOUTS |-> <<4, 4, 4, 4, 4>>,
            GET_WAIT_MASK |-> <<4>>, GET_MODEMSTATUS |-> <<4>>,
            GET_COMMSTATUS |-> <<4, 4, 4, 4, 1, 1>>]
TtyLengths == [GET_BAUD_RATE |-> 4, GET_LINE_CONTROL |-> 3, CONFIG_SIZE |-> 4,
              GET_CHARS |-> 6, GET_HANDFLOW |-> 16, GET_TIMEOUTS |-> 20,
              GET_WAIT_MASK |-> 4, GET_MODEMSTATUS |-> 4, GET_COMMSTATUS |-> 18]

(* The controls that set something, with the settings asked for in new,    *)
(* and those that ask.  The state s is the port, the terminal and what     *)
(* the last control told the server.                                       *)
Applied(tty, s) == [s EXCEPT !.tty = tty, !.termios = tty_set_termios(tty, s.termios)]
serial_tty_control(s, code, new) ==
    CASE code = "SET_BAUD_RATE" -> Applied([s.tty EXCEPT !.baud_rate = new.baud_rate], s)
      [] code = "SET_LINE_CONTROL" ->
            Applied([s.tty EXCEPT !.stop_bits = new.stop_bits, !.parity = new.parity,
                                  !.word_length = new.word_length], s)
      [] code = "SET_CHARS" -> Applied([s.tty EXCEPT !.chars = new.chars], s)
      [] code = "SET_HANDFLOW" ->
            Applied([s.tty EXCEPT !.cts = new.cts, !.xon = new.xon, !.xoff = new.xoff], s)
      [] code = "GET_HANDFLOW" ->
            LET tty == tty_get_termios(s.termios)
            IN  [s EXCEPT !.tty = tty, !.told = <<tty.cts, tty.xon, tty.xoff>>]
      [] code = "GET_BAUD_RATE" -> [s EXCEPT !.told = <<s.tty.baud_rate>>]
      [] code = "GET_LINE_CONTROL" ->
            [s EXCEPT !.told = <<s.tty.stop_bits, s.tty.parity, s.tty.word_length>>]
      [] code = "GET_CHARS" -> [s EXCEPT !.told = s.tty.chars]

(* The terminal's timeout for a read, in tenths of a second, as it fits in *)
(* the byte that holds it.                                                 *)
serial_tty_read_timeout(tty, Length) ==
    LET timeout ==
            IF tty.multiplier # 0 \/ tty.constant # 0
            THEN (tty.multiplier * Length + tty.constant + 99) \div 100
            ELSE IF tty.interval # 0 THEN (tty.interval * Length + 99) \div 100 ELSE 90
    IN  IF timeout = 0 THEN [VTIME |-> 0, VMIN |-> 0]
        ELSE [VTIME |-> timeout % 256, VMIN |-> 1]

(* The events.  e holds what was last seen of the line; a read counts as   *)
(* data for the empty output as a write does.                              *)
serial_tty_read(e, r) == [e EXCEPT !.event_txempty = r]
serial_tty_write(e, Length) == [e EXCEPT !.event_txempty = Length]
tty_write_data(e, r) == [e EXCEPT !.event_txempty = r]
(* Mutant: what was seen of DSR is not kept.                               *)
serial_tty_get_event_dsr(e, line) ==
    IF e.wait_mask = {} THEN [e EXCEPT !.ret = TRUE, !.result = {}]
    ELSE LET result ==
                 {ev \in e.wait_mask :
                     \/ ev = "RLSD" /\ line.inq > e.event_rlsd
                     \/ ev = "RXFLAG" /\ line.inq > 1
                     \/ ev = "RXCHAR" /\ line.inq > 0
                     \/ ev = "TXEMPTY" /\ line.outq = 0 /\ e.event_txempty > 0
                     \/ ev = "DSR" /\ line.dsr # e.event_dsr
                     \/ ev = "CTS" /\ line.cts # e.event_cts}
         IN  [e EXCEPT !.event_rlsd = IF line.inq = 0 THEN 0
                                      ELSE IF line.inq > @ THEN line.inq ELSE @,
                       !.event_txempty = line.outq,
                       !.event_cts = line.cts,
                       !.result = result, !.ret = result # {}]

serial_tty_get_event(e, line) ==
    IF e.wait_mask = {} THEN [e EXCEPT !.ret = TRUE, !.result = {}]
    ELSE LET result ==
                 {ev \in e.wait_mask :
                     \/ ev = "RLSD" /\ line.inq > e.event_rlsd
                     \/ ev = "RXFLAG" /\ line.inq > 1
                     \/ ev = "RXCHAR" /\ line.inq > 0
                     \/ ev = "TXEMPTY" /\ line.outq = 0 /\ e.event_txempty > 0
                     \/ ev = "DSR" /\ line.dsr # e.event_dsr
                     \/ ev = "CTS" /\ line.cts # e.event_cts}
         IN  [e EXCEPT !.event_rlsd = IF line.inq = 0 THEN 0
                                      ELSE IF line.inq > @ THEN line.inq ELSE @,
                       !.event_txempty = line.outq,
                       !.event_dsr = line.dsr, !.event_cts = line.cts,
                       !.result = result, !.ret = result # {}]

-----------------------------------------------------------------------------
(* scard_operations.c: how the smart card redirection takes the calls of   *)
(* the server apart and answers them.  A handler h(a) is a record of what  *)
(* it reads of the request and what it writes of the reply as layouts, and *)
(* of what it returns.  The argument a holds what the request says (names  *)
(* as sequences of characters, lengths) and what the card service answers  *)
(* (rv, and the lengths of its data).                                      *)

SCARD_S_SUCCESS == "success"
SCARD_F_INTERNAL_ERROR == "internal error"
SCARD_E_INSUFFICIENT_BUFFER == "insufficient buffer"
SCARD_E_UNSUPPORTED_FEATURE == "unsupported"
SCARD_UNSUCCESSFUL == "0xc0000001"
MAX_ATR_SIZE == 33
Least(m, n) == IF m < n THEN m ELSE n
Unit(wide) == IF wide THEN 2 ELSE 1

(* What the handlers write.  A string goes out with its final zero, every  *)
(* character not of ASCII a question mark when it is wide.                 *)
sc_output_string(src, wide) == <<Unit(wide) * (Len(src) + 1)>>
sc_output_repos(written) == <<(4 - (written % 4)) % 4>>
sc_output_alignment(layout, seed) ==
    LET size == Bytes(layout) + 20
    IN  layout \o <<(seed - (size % seed)) % seed>>
sc_output_return(rv, reads) == [reads |-> reads, body |-> <<256>>, result |-> rv]
sc_output_buffer_limit(length, highLimit) ==
    IF length = 0 THEN <<4, 4>>
    ELSE <<4, Least(length, highLimit)>> \o sc_output_repos(Least(length, highLimit))
sc_output_buffer(length) == sc_output_buffer_limit(length, 2147483647)
sc_output_buffer_start_limit(length, highLimit) == <<4, 4>>
sc_output_buffer_start(length) == sc_output_buffer_start_limit(length, 2147483647)

(* What they read.  The wide characters are narrowed in the buffer they    *)
(* were read into, from the first to the last; a character is a pair of    *)
(* bytes, here as they come.                                               *)
RECURSIVE Narrowed(_, _, _)
Narrowed(buffer, i, n) ==
    IF i = n THEN SubSeq(buffer, 1, n)
    ELSE Narrowed([buffer EXCEPT ![i + 1] =
                      IF buffer[2 * i + 1] > 127 \/ buffer[2 * i + 2] # 0 THEN 63
                      ELSE buffer[2 * i + 1]], i + 1, n)
sc_input_string(buffer, dataLength, wide) ==
    IF wide THEN Narrowed(buffer, 0, dataLength) ELSE SubSeq(buffer, 1, dataLength)
sc_input_repos(read) ==
    LET add == 4 - (read % 4) IN When(add < 4 /\ add > 0, <<add>>)
Name(n, wide) == <<Unit(wide) * n>> \o sc_input_repos(Unit(wide) * n)
sc_input_reader_name(n, wide) == <<8, 4>> \o Name(n, wide)
sc_input_skip_linked(len) == <<4>> \o When(len > 0, <<len>> \o sc_input_repos(len))

Reply(reads, body, rv) ==
    [reads |-> reads, body |-> sc_output_alignment(body, 8), result |-> rv]

(* The context that SCardEstablishContext failed to give goes out as -1,   *)
(* and the result is success.                                              *)
handle_contexts(a) ==
    [EstablishContext |-> IF a.len # 8 THEN [reads |-> <<8, 4>>, body |-> << >>, result |-> SCARD_F_INTERNAL_ERROR]
                          ELSE [reads |-> <<8, 4, 4, 4>>, body |-> <<4, 4, 4, 4>>, result |-> SCARD_S_SUCCESS],
     ReleaseContext |-> [reads |-> <<8, 4, 16, 4>>, body |-> << >>, result |-> a.rv],
     IsValidContext |-> [reads |-> <<28, 4>>, body |-> <<4>>, result |-> a.rv]]

Strings(names, wide) == FlattenSeq([i \in 1 .. Len(names) |-> sc_output_string(names[i], wide)])
                            \o sc_output_string(<< >>, wide)
handle_ListReaders(a) ==
    LET data == Strings(a.readers, a.wide)
    IN  IF a.len # 4 THEN [reads |-> <<8, 4, 28, 4>>, body |-> << >>, result |-> SCARD_F_INTERNAL_ERROR]
        ELSE IF a.rv # SCARD_S_SUCCESS THEN
             [reads |-> <<8, 4, 28, 4, 4>>, body |-> << >>, result |-> a.rv]
        ELSE Reply(<<8, 4, 28, 4, 4>>,
                   <<4, 4, 4>> \o data \o sc_output_repos(Bytes(data)), a.rv)

ReaderState == <<4, 4, 4, 4, 32, 4>>
ReaderNames(names, wide) ==
    FlattenSeq([i \in 1 .. Len(names) |-> <<8, 4>> \o Name(Len(names[i]), wide)])
handle_GetStatusChange(a) ==
    Reply(<<24, 4, 4, 8, 4, 4>> \o Times(Len(a.readers), ReaderState)
              \o ReaderNames(a.readers, a.wide),
          <<4, 4, 4>> \o Times(Len(a.readers), <<4, 4, 4, 32, 4>>), a.rv)
handle_Cancel(a) == Reply(<<28, 4>>, << >>, a.rv)
handle_Connect(a) ==
    Reply(<<28, 4, 4>> \o sc_input_reader_name(a.name, a.wide) \o <<4, 4>>,
          <<4, 4, 4, 4, 4, 4, 4, 28>>, a.rv)
handle_connections(a) ==
    [Reconnect |-> LET r == Reply(<<32, 4, 4, 4, 4, 4, 4, 4>>, << >>, a.rv)
                   IN  [r EXCEPT !.body = @ \o <<4>>],
     Disconnect |-> Reply(<<32, 4, 4, 4, 4, 4>>, << >>, a.rv),
     BeginTransaction |-> Reply(<<48, 4>>, << >>, a.rv),
     EndTransaction |-> Reply(<<32, 4, 12, 4>>, << >>, a.rv)]
handle_State(a) ==
    LET reads == <<36, 4, 12, 4, 4>>
    IN  IF a.rv # SCARD_S_SUCCESS THEN sc_output_return(a.rv, reads)
        ELSE Reply(reads, <<4, 4, 4, 4, 4, a.atr>> \o sc_output_repos(a.atr), a.rv)
handle_Status(a) ==
    LET reads == <<36, 4, 4, 12, 4, 4>>
        data == Strings(<<a.reader>>, a.wide)
    IN  IF a.rv # SCARD_S_SUCCESS THEN sc_output_return(a.rv, reads)
        ELSE Reply(reads, <<4, 4, 4, 4, a.atr>> \o When(a.atr < 32, <<32 - a.atr>>)
                              \o <<4, 4>> \o data \o sc_output_repos(Bytes(data)), a.rv)

(* The parts of the call that the request links follow one another.        *)
handle_Transmit(a) ==
    Reply(<<20, 4, 4, 4, 4, 4, 4, 4, 4, 4, 4, 4>>
              \o When(a.context, sc_input_skip_linked(4)) \o <<4, 4>>
              \o When(a.pci, <<4, 4, a.extra - 4>> \o sc_input_repos(a.extra))
              \o When(a.send > 0, <<4, a.send>> \o sc_input_repos(a.send))
              \o When(a.recvPci, <<4, 4, a.extra - 4>> \o sc_input_repos(a.extra) \o <<4>>
                        \o When(a.recvExtra, <<4, a.extra>> \o sc_input_repos(a.extra))),
          When(a.rv = SCARD_S_SUCCESS,
               <<4>> \o sc_output_buffer_start(a.recv) \o sc_output_buffer(a.recv)), a.rv)
handle_Control(a) ==
    Reply(<<20, 4, 4, 4, 4, 4, 4, 4, 4, 4, 4, 4, 4>>
              \o When(a.send > 0, <<4, a.send>>),
          <<4, 4, 4>> \o When(a.recv > 0, <<a.recv>> \o sc_output_repos(a.recv)), a.rv)

(* The friendly name is asked for in the other character set when the      *)
(* reader does not know it in the one asked for.  An answer longer than    *)
(* the server's buffer is an error only when the data came with it.        *)
handle_GetAttrib(a) ==
    LET reads == <<32, 4, 4, 4, 12, 4>>
        got == IF a.rv = SCARD_E_UNSUPPORTED_FEATURE /\ a.friendly THEN a.other ELSE a.rv
        rv == IF got = SCARD_S_SUCCESS /\ a.attr > a.room /\ a.room # 0 THEN SCARD_E_INSUFFICIENT_BUFFER ELSE got
    IN  IF rv # SCARD_S_SUCCESS THEN sc_output_return(rv, reads)
        ELSE Reply(reads, <<4, 4, 4, a.attr>> \o sc_output_repos(a.attr) \o <<4>>, rv)
handle_AccessStartedEvent(a) == [reads |-> << >>, body |-> <<8>>, result |-> SCARD_S_SUCCESS]

(* The masked answers-to-reset are compared over the length of the last    *)
(* reader's, and every entry of the reply is the last reader's.            *)
Equal(atr, reader, last) ==
    \A k \in 1 .. last.cbAtr : atr.mask[k] => atr.atr[k] = reader.atr[k]
Marked(atrs, readers) ==
    [i \in DOMAIN readers |->
        [readers[i] EXCEPT !.found = \E m \in DOMAIN atrs :
            Equal(atrs[m], readers[i], readers[Len(readers)])]]
Located(atrs, readers) ==
    [i \in DOMAIN readers |-> Marked(atrs, readers)[Len(readers)]]
handle_LocateCardsByATR(a) ==
    LET n == Len(a.readers)
        reads == <<44, 4, 4>> \o Times(a.masks, <<4, 36, 36>>) \o <<4>>
                     \o Times(n, ReaderState) \o ReaderNames(a.readers, a.wide)
    IN  IF a.rv # SCARD_S_SUCCESS THEN sc_output_return(a.rv, reads)
        ELSE Reply(reads, <<4, 4, 4>> \o Times(n, <<4, 4, 4, 32, 4>>), a.rv)

(* Whether a call gets a thread of its own.                                *)
scard_async_op(ioctl_code) ==
    ioctl_code \notin {"AccessStartedEvent", "EstablishContext", "ReleaseContext",
                       "IsValidContext"}

Handled(ioctl_code, a) ==
    CASE ioctl_code = "EstablishContext" -> handle_contexts(a).EstablishContext
      [] ioctl_code = "IsValidContext" -> handle_contexts(a).IsValidContext
      [] ioctl_code = "ReleaseContext" -> handle_contexts(a).ReleaseContext
      [] ioctl_code = "ListReaders" -> handle_ListReaders(a)
      [] ioctl_code = "GetStatusChange" -> handle_GetStatusChange(a)
      [] ioctl_code = "Cancel" -> handle_Cancel(a)
      [] ioctl_code = "Connect" -> handle_Connect(a)
      [] ioctl_code = "Reconnect" -> handle_connections(a).Reconnect
      [] ioctl_code = "Disconnect" -> handle_connections(a).Disconnect
      [] ioctl_code = "BeginTransaction" -> handle_connections(a).BeginTransaction
      [] ioctl_code = "EndTransaction" -> handle_connections(a).EndTransaction
      [] ioctl_code = "State" -> handle_State(a)
      [] ioctl_code = "Status" -> handle_Status(a)
      [] ioctl_code = "Transmit" -> handle_Transmit(a)
      [] ioctl_code = "Control" -> handle_Control(a)
      [] ioctl_code = "GetAttrib" -> handle_GetAttrib(a)
      [] ioctl_code = "AccessStartedEvent" -> handle_AccessStartedEvent(a)
      [] ioctl_code = "LocateCardsByATR" -> handle_LocateCardsByATR(a)
      [] OTHER -> [reads |-> << >>, body |-> << >>, result |-> SCARD_UNSUCCESSFUL]

(* An error of the device itself: the position of the stream goes back to  *)
(* its start, before the 16 bytes that irp_new wrote there.                *)
scard_error(ntstatus) == [status |-> ntstatus, message |-> 0]

(* The answer: the length of the message, the lengths it announces, and    *)
(* what the server is told.                                                *)
scard_device_control(ioctl_code, a) ==
    LET h == Handled(ioctl_code, a)
        stream_len == 20 + Bytes(h.body)
        pad_len == stream_len % 16
    IN  IF h.result = SCARD_UNSUCCESSFUL
        THEN scard_error(h.result)
        ELSE [status |-> 0, message |-> 16 + 4 + stream_len + pad_len,
              irp_len |-> stream_len + pad_len, output_len |-> stream_len - 24,
              result |-> IF h.result = SCARD_E_UNSUPPORTED_FEATURE
                         THEN "0x80100022" ELSE h.result]
=============================================================================
