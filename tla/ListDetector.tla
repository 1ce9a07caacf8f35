----------------------------- MODULE ListDetector -----------------------------
(***************************************************************************)
(* listDetector: a CSV file is read and checked (csvConfigParser.cpp,      *)
(* configParser.cpp), its rows are built into rules one after the other    *)
(* (ruleBuilder.cpp), the static fields of each are hashed                 *)
(* (fieldsMatcher.cpp), and every record is then looked up: first in the   *)
(* tree of each address field, then by its hash (rulesMatcher.cpp,         *)
(* listDetector.cpp, main.cpp).                                            *)
(*                                                                         *)
(* Of the file the comments, empty lines and spaces around values are left *)
(* out, which rapidcsv skips.  A column of the header is named by its      *)
(* field when it has the form `type name`, and a row maps the fields it    *)
(* has values for to their descriptions.                                   *)
(*                                                                         *)
(* A number or a string is a sequence of bytes and a hash is the sequence  *)
(* that is hashed.  A regular expression is the set of strings it is found *)
(* in.  The field of a rule is a record with a "kind".                     *)
(***************************************************************************)
EXTENDS IpAddressFieldMatcher

CONSTANTS Fields,        \* the fields of the list's header, in order
          TypeOf,        \* field |-> "ip", "number" or "string"
          CsvFiles,      \* the files --list may name: their header and rows
          Records,       \* the records received: field |-> value
          SizeOfNumber,  \* sizeof(size_t), 8
          None,          \* no verdict yet, no rule, a file that cannot be loaded
          MaxRecords     \* bound: records received

FieldSet == {Fields[i] : i \in DOMAIN Fields}

ASSUME FieldAssumption ==
    /\ TypeOf \in [FieldSet -> {"ip", "number", "string"}]
    /\ Fields \in Seq(FieldSet)
    /\ SizeOfNumber \in Nat \ {0}

ASSUME RecordsAssumption ==
    /\ \A record \in Records : \A f \in FieldSet : TypeOf[f] # "ip" => record[f] \in Seq(Nat)
    /\ MaxRecords \in Nat

VARIABLES
    csvFile,        \* the file given by --list
    phase,          \* "parsing", "building", "running", "stopped"; "refused" when
                    \* the parser throws, "terminated" when the rules' constructor does,
                    \* "undefined" once an array has been left
    mode,           \* "blacklist" or "whitelist"
    rules,          \* m_rules
    ipMatchers,     \* m_ipAddressFieldMatchers, field |-> tree
    ipOrder,        \* the order in which that unordered_map is walked
    maskOrder,      \* the order in which the unordered_set of masks is walked
    buffer,         \* size and capacity of m_buffer
    matchedCount,   \* m_stats.matchedCount of each rule
    verdict,        \* the last record and what became of it
    received, sent  \* records so far: received, and sent on

vars == <<csvFile, phase, mode, rules, ipMatchers, ipOrder, maskOrder, buffer, matchedCount,
          verdict, received, sent>>

NoRule == 0

IpFields == {f \in FieldSet : TypeOf[f] = "ip"}

-----------------------------------------------------------------------------
(***************************************************************************)
(* Building the rules.                                                     *)
(***************************************************************************)
Wildcard == [kind |-> "wildcard"]

\* createRuleField: what the description of a field becomes.  An empty string
\* is a string like any other.
RuleField(field, description) ==
    IF description.kind # "empty" THEN description
    ELSE IF TypeOf[field] = "string" THEN [kind |-> "literal", bytes |-> <<>>]
    ELSE Wildcard

\* A description that from_chars or std::regex does not take.
IsMalformed(description) == \E f \in FieldSet : description[f].kind = "malformed"

\* With this one a rule without a prefix takes no number in the tree.
WithGivenPrefix(matcher, ruleField) ==
    IF ruleField.kind = "prefix" THEN AddPrefix(matcher, ruleField.prefix) ELSE matcher

\* An empty field adds a prefix too: rules and last nodes are numbered alike.
WithPrefix(matcher, ruleField) ==
    AddPrefix(matcher, IF ruleField.kind = "prefix" THEN ruleField.prefix ELSE EmptyPrefix)

Init ==
    /\ csvFile \in CsvFiles
    /\ phase = "parsing"
    /\ mode \in {"blacklist", "whitelist"}
    /\ rules = <<>>
    /\ ipMatchers = [f \in IpFields |-> EmptyMatcher]
    /\ ipOrder = <<>>
    /\ maskOrder = <<>>
    /\ buffer = [size |-> 0, capacity |-> 0]
    /\ matchedCount = <<>>
    /\ verdict = None
    /\ received = 0
    /\ sent = 0

\* validateUnirecTemplate: the header consists of columns of the right form
ValidateUnirecTemplate(file) == file.header # <<>> /\ Range(file.header) \subseteq FieldSet

\* validateRules: a row has as many values as the header has columns
ValidateRules(file) ==
    \A i \in DOMAIN file.rows : Cardinality(DOMAIN file.rows[i]) = Len(file.header)

\* CsvConfigParser: load, parse, validate
IsValid(file) == file # None /\ ValidateUnirecTemplate(file) /\ ValidateRules(file)

\* What a cell may describe: the bytes of a literal are those of a number or a string.
IsDescription(field, description) ==
    description.kind = "literal" => TypeOf[field] # "ip" /\ description.bytes \in Seq(Nat)

\* A valid file is a sequence of rows, each with a description for every field.
ASSUME FilesAssumption ==
    \A file \in CsvFiles : IsValid(file) =>
        /\ file.rows \in Seq(Range(file.rows))
        /\ \A i \in DOMAIN file.rows : \A f \in FieldSet : IsDescription(f, file.rows[i][f])

Parse ==
    /\ phase = "parsing"
    /\ phase' = IF IsValid(csvFile) THEN "building" ELSE "refused"
    /\ UNCHANGED <<csvFile, mode, rules, ipMatchers, ipOrder, maskOrder, buffer,
                   matchedCount, verdict, received, sent>>

RuleOf(row) == [f \in FieldSet |-> RuleField(f, row[f])]

\* the row that comes next
HasRow == phase = "building" /\ Len(rules) < Len(csvFile.rows)
Row == csvFile.rows[Len(rules) + 1]

\* RuleBuilder::build
BuildRule ==
    /\ HasRow /\ ~IsMalformed(Row)
    /\ rules' = Append(rules, RuleOf(Row))
    /\ ipMatchers' = [f \in IpFields |-> WithPrefix(ipMatchers[f], RuleOf(Row)[f])]
    /\ matchedCount' = Append(matchedCount, 0)
    /\ UNCHANGED <<csvFile, phase, mode, ipOrder, maskOrder, buffer, verdict, received, sent>>

\* The constructor of RulesMatcher is noexcept: what build throws ends the
\* process.
BuildMalformed ==
    /\ HasRow /\ IsMalformed(Row)
    /\ phase' = "terminated"
    /\ UNCHANGED <<csvFile, mode, rules, ipMatchers, ipOrder, maskOrder, buffer,
                   matchedCount, verdict, received, sent>>

-----------------------------------------------------------------------------
(***************************************************************************)
(* The hash of the static fields.                                          *)
(***************************************************************************)
\* getPresentedStaticFieldsMask
MaskOf(rule) == {f \in FieldSet : rule[f].kind = "literal"}

\* the fields of the mask, one after the other
Flattened(mask, bytesOf) ==
    FoldLeft(LAMBDA bytes, f : IF f \in mask THEN bytes \o bytesOf[f] ELSE bytes, <<>>, Fields)

RuleHash(rule) ==
    LET mask == MaskOf(rule) IN Flattened(mask, [f \in mask |-> rule[f].bytes])

\* vector::resize: beyond the capacity it at least doubles the size.  What was
\* written beyond the size is lost.
Resized(buf, size) ==
    LET doubled == 2 * buf.size
    IN [written  |-> [i \in DOMAIN buf.written |->
                        IF i > buf.size /\ i <= size THEN 0 ELSE buf.written[i]],
        size     |-> size,
        capacity |-> IF size <= buf.capacity THEN buf.capacity
                     ELSE IF size > doubled THEN size
                     ELSE doubled]

\* writeFieldToBuffer: room is made when the capacity, not the size, is reached.
WriteField(buf, bytes) ==
    LET end  == Len(buf.written) + Len(bytes)
        room == IF end >= buf.capacity
                THEN Resized(buf, Len(buf.written) + 4 * Len(bytes))
                ELSE buf
    IN [room EXCEPT !.written = @ \o bytes]

WriteRecord(buf, record, mask) ==
    FoldLeft(LAMBDA b, f : IF f \in mask THEN WriteField(b, record[f]) ELSE b,
             [written |-> <<>>, size |-> buf.size, capacity |-> buf.capacity], Fields)

\* resizeHashBuffer: room for a rule, a number taking that of the widest one.
RoomFor(rule) ==
    FoldLeft(LAMBDA room, f : IF rule[f].kind # "literal" THEN room
                              ELSE IF TypeOf[f] = "number" THEN room + SizeOfNumber
                              ELSE room + Len(rule[f].bytes),
             0, Fields)

BufferAfter(list) ==
    LET buf == FoldLeft(LAMBDA b, rule : Resized(b, RoomFor(rule)),
                        [written |-> <<>>, size |-> 0, capacity |-> 0], list)
    IN [size |-> buf.size, capacity |-> buf.capacity]

Masks == {MaskOf(rules[i]) : i \in DOMAIN rules}

\* The constructor of FieldsMatcher; the unordered containers are walked in
\* some order from now on.
Start ==
    /\ phase = "building" /\ ~HasRow
    /\ phase' = "running"
    /\ buffer' = BufferAfter(rules)
    /\ maskOrder' \in SetToSeqs(Masks)
    /\ ipOrder' \in SetToSeqs(IpFields)
    /\ UNCHANGED <<csvFile, mode, rules, ipMatchers, matchedCount, verdict, received, sent>>

-----------------------------------------------------------------------------
(***************************************************************************)
(* A record.                                                               *)
(***************************************************************************)
\* RulesMatcher::getMatchingIpRulesMask; NoRule is among them when a search has left
\* an array, Outside being the number before that of the first rule.
MatchingIpRules(record) ==
    LET Narrowed(previous, f) ==
            {number + 1 : number \in
                MatchingRules(ipMatchers[f], record[f], {r - 1 : r \in previous})}
            \cup (previous \cap {NoRule})
    IN FoldLeft(Narrowed, DOMAIN rules, ipOrder)

\* isDynamicRuleFieldMatched and its neighbours: only a regular expression is
\* looked at, an address or a literal has been compared already.
DynamicFieldMatches(ruleField, value) ==
    ruleField.kind = "regex" => value \in ruleField.strings

DynamicFieldsMatch(rule, record) ==
    \A f \in FieldSet : DynamicFieldMatches(rule[f], record[f])

\* The rule that the table of hashes has for rule r: m_ruleIndex is a uint16_t.
Indexed(r) == Index(r - 1) + 1

\* With this one any rule with the hash will do.
SearchHashesOnly(record, ipRules) ==
    LET Candidates(hash) ==
            {c \in ipRules : \E r \in DOMAIN rules : Indexed(r) = c /\ RuleHash(rules[r]) = hash}
        Try(found, mask) ==
            LET buf == WriteRecord(found.buffer, record, mask)
            IN IF found.candidates # {}
               THEN found
               ELSE [candidates |-> Candidates(buf.written),
                     buffer     |-> [size |-> buf.size, capacity |-> buf.capacity]]
    IN FoldLeft(Try, [candidates |-> {}, buffer |-> buffer], maskOrder)

\* anyOfRulesMatch: the masks are tried until one leads to rules that match.
\* Every try writes to the same buffer.
Search(record, ipRules) ==
    LET Candidates(hash) ==
            {c \in ipRules :
                /\ DynamicFieldsMatch(rules[c], record)
                /\ \E r \in DOMAIN rules : Indexed(r) = c /\ RuleHash(rules[r]) = hash}
        Try(found, mask) ==
            LET buf == WriteRecord(found.buffer, record, mask)
            IN IF found.candidates # {}
               THEN found
               ELSE [candidates |-> Candidates(buf.written),
                     buffer     |-> [size |-> buf.size, capacity |-> buf.capacity]]
    IN FoldLeft(Try, [candidates |-> {}, buffer |-> buffer], maskOrder)

\* With this one what the list holds back is sent.
ForwardOthers(record, isSent, rule) ==
    /\ verdict' = [record |-> record, sent |-> ~isSent, rule |-> rule]
    /\ received' = received + 1
    /\ sent' = IF isSent THEN sent ELSE sent + 1

Forward(record, isSent, rule) ==
    /\ verdict' = [record |-> record, sent |-> isSent, rule |-> rule]
    /\ received' = received + 1
    /\ sent' = IF isSent THEN sent + 1 ELSE sent

\* The search of an address that another field's rules have been ruled out for may
\* leave the array of levels.  The result of a search has a bit for each number that
\* the tree has given, and with more rules than numbers the table of hashes leads to
\* bits it does not have.
LeavesAnArray(record) ==
    \/ NoRule \in MatchingIpRules(record)
    \/ IpFields # {} /\ Len(rules) >= IndexModulus

\* Nothing is known of the process from then on.
ProcessUndefined(record) ==
    /\ phase = "running"
    /\ received < MaxRecords
    /\ LeavesAnArray(record)
    /\ phase' = "undefined"
    /\ UNCHANGED <<csvFile, mode, rules, ipMatchers, ipOrder, maskOrder, buffer,
                   matchedCount, verdict, received, sent>>

\* processNextRecord; any one of the rules with the hash may come first.
ProcessRecord(record) ==
    /\ phase = "running"
    /\ received < MaxRecords
    /\ ~LeavesAnArray(record)
    /\ LET found == Search(record, MatchingIpRules(record))
       IN /\ buffer' = found.buffer
          /\ \/ /\ found.candidates = {}
                /\ Forward(record, mode = "whitelist", NoRule)
                /\ UNCHANGED matchedCount
             \/ \E r \in found.candidates :
                   /\ Forward(record, mode = "blacklist", r)
                   /\ matchedCount' = [matchedCount EXCEPT ![r] = @ + 1]
    /\ UNCHANGED <<csvFile, phase, mode, rules, ipMatchers, ipOrder, maskOrder>>

\* setTelemetryDirectory: totalMatchedCount is the sum of the rules' counters.
Total(counts) == FoldLeft(LAMBDA total, count : total + count, 0, counts)

\* The end of the input, or SIGINT between two records.
Stop ==
    /\ phase = "running"
    /\ phase' = "stopped"
    /\ UNCHANGED <<csvFile, mode, rules, ipMatchers, ipOrder, maskOrder, buffer,
                   matchedCount, verdict, received, sent>>

Next ==
    \/ Parse \/ BuildRule \/ BuildMalformed \/ Start
    \/ \E record \in Records : ProcessRecord(record) \/ ProcessUndefined(record)
    \/ Stop

Spec == Init /\ [][Next]_vars

-----------------------------------------------------------------------------
\* Type invariant.
TypeOK ==
    /\ csvFile \in CsvFiles
    /\ phase \in {"parsing", "building", "running", "stopped", "refused", "terminated",
                  "undefined"}
    /\ mode \in {"blacklist", "whitelist"}
    /\ \A i \in DOMAIN rules : rules[i] = RuleOf(csvFile.rows[i])
    /\ \A f \in IpFields : ipMatchers[f].lastInsertIndex = Index(Len(rules))
    /\ buffer.size \in Nat /\ buffer.capacity \in Nat /\ buffer.size <= buffer.capacity
    /\ DOMAIN matchedCount = DOMAIN rules
    /\ \A i \in DOMAIN rules : matchedCount[i] \in 0 .. MaxRecords
    /\ received \in 0 .. MaxRecords /\ sent \in 0 .. received

\* What a field of a rule means (README.md:31-39): an empty value matches
\* everything, a number or a string the exact value, a prefix the addresses in
\* it, a regular expression the strings it is found in.
FieldMatches(ruleField, value) ==
    CASE ruleField.kind = "wildcard" -> TRUE
      [] ruleField.kind = "literal"  -> ruleField.bytes \in {<<>>, value}
      [] ruleField.kind = "prefix"   -> IsIn(value, ruleField.prefix)
      [] ruleField.kind = "regex"    -> value \in ruleField.strings

Documented(rule, record) == \A f \in FieldSet : FieldMatches(rule[f], record[f])

\* The total of the rules' counters, which the telemetry shows, is the number of records sent on by
\* a blacklist, and of those held back by a whitelist.
CountsAddUp ==
    Total(matchedCount) = IF mode = "blacklist" THEN sent ELSE received - sent

\* The rules a file stands for, when the parser and the rules' constructor take it.
IsTaken == IsValid(csvFile) /\ \A i \in DOMAIN csvFile.rows : ~IsMalformed(csvFile.rows[i])
RulesOfFile == [i \in DOMAIN csvFile.rows |-> RuleOf(csvFile.rows[i])]
ListedRules == IF IsTaken THEN Range(RulesOfFile) ELSE None

(***************************************************************************)
(* The lists of which the code keeps the promise (README.md, section 6,    *)
(* has what it does with the others):                                      *)
(***************************************************************************)
\* at most one address field has prefixes, which are of the family of the records and
\* the rules of a network follow one another, and there are numbers for all rules;
AddressesAreFound(list) ==
    /\ Len(list) < IndexModulus
    /\ \E searched \in SUBSET IpFields :
          /\ Cardinality(searched) <= 1
          /\ \A i \in DOMAIN list : \A f \in IpFields \ searched : list[i][f] = Wildcard
          /\ \A f \in searched :
                LET PrefixOf(i) == IF list[i][f] = Wildcard THEN EmptyPrefix ELSE list[i][f].prefix
                IN /\ \A i \in DOMAIN list : \A record \in Records :
                          PrefixOf(i).family \in {"any", record[f].family}
                   /\ IsGrouped([i \in DOMAIN list |-> PrefixOf(i)])

\* the bytes that a record has under the mask of some rule are those of another rule
\* only if it has the values of that rule;
HashesTellApart(list) ==
    \A record \in Records : \A i, j \in DOMAIN list :
        Flattened(MaskOf(list[i]), record) = RuleHash(list[j])
            => \A f \in MaskOf(list[j]) : list[j][f].bytes = record[f]

\* the last rule has the numbers of all others, and at most one string follows them,
\* so that what the buffer loses when it grows has not been written yet;
BufferKeepsItsBytes(list) ==
    /\ \A i \in DOMAIN list : \A f \in MaskOf(list[i]) :
          TypeOf[f] = "number" => f \in MaskOf(list[Len(list)])
    /\ \A i, j \in DOMAIN Fields : TypeOf[Fields[i]] = "string" /\ TypeOf[Fields[j]] # "ip"
                                    => j <= i

\* no string is left empty.
NoStringIsEmpty(list) ==
    \A i \in DOMAIN list : \A f \in MaskOf(list[i]) : list[i][f].bytes # <<>>

IsFiltered == IsTaken => AddressesAreFound(RulesOfFile) /\ HashesTellApart(RulesOfFile)
                         /\ BufferKeepsItsBytes(RulesOfFile) /\ NoStringIsEmpty(RulesOfFile)

Loaded == phase \in {"running", "stopped"}
Filter == INSTANCE ListFilter WITH
    MatchesRule <- Documented,
    NoRule <- None,
    listed <- ListedRules,
    rules <- IF Loaded THEN Range(rules) ELSE {},
    loaded <- Loaded,
    verdict <- IF verdict = None
               THEN None
               ELSE [record |-> verdict.record,
                     sent |-> verdict.sent,
                     rule |-> IF verdict.rule = NoRule THEN None ELSE rules[verdict.rule]]

\* Every row of a well-formed file becomes a rule and no other file is run with.
\* With a list as above the records are sorted as documented, and the rule that is
\* counted is one that matches: the trees, the hashes, the table of their rules and
\* the reused buffer implement a plain comparison with every row.
ImplementsFilter ==
    /\ IsFiltered => Filter!Init
    /\ [][Filter!Next \/ ~IsFiltered]_(Filter!vars)

\* "forwards records that do not match to the whitelist rules or match
\* blacklist rules" (README.md:5), whatever fields the rules leave empty.
SentAsDocumented ==
    verdict # None =>
        (verdict.sent = (mode = "blacklist"))
            = (\E i \in DOMAIN rules : Documented(rules[i], verdict.record))
=============================================================================
