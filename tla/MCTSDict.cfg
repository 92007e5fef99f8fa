SPECIFICATION DictSpec
CONSTANTS
  Objects = {"qa1", "qa2"}
  Words <- MCWords
  Hash <- MCHash
  Dictionary <- MCDictionary
  MaxInits = 3
INVARIANTS LookupIsDictionary SafeOneByOne
