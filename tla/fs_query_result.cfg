SPECIFICATION Spec
CONSTANTS
  AtomBytes <- MCAtomBytes
  Width <- MCWidth
  KeyOrder <- MCKeyOrder
  DocumentCapacity = 20
  ResultCapacity = 100
  EntryBytes = 15
  RefusedFields = {"a/b"}
  MetadataCapacity = 60
  DbValues <- MCDbValues
  Documents <- MCDocuments
  MetadataSet <- MCMetadataSet
  QueryCalls <- MCQueryCalls
  MaxCalls = 4
  FsQueries <- MCFsQueriesOneOfEach
  Batches <- MCBatches
  Results <- MCResults
  AllCombinations = FALSE
INVARIANT ResultIsWhole
CHECK_DEADLOCK FALSE
