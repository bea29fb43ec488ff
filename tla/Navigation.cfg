\* Any nav of up to four items, for one document and an image; of three, for
\* more documents; none for the most.
SPECIFICATION NavSpec
CONSTANTS
  index = index
  guide = guide
  nested = nested
  about = about
  other = other
  logo = logo
  user = user
  USER = USER
  api = api
  User = User
  Api = Api
  Docs = {index, guide, about, nested, other}
  Media = {logo}
  Directories = {user, USER, api}
  Titles = {User, Api}
  Title <- TitleOf
  Folders <- FoldersOf
  Sites <- SomeSites
  MaxItems = 4
INVARIANTS ActiveIsTrail NavPagesAreRead NeighboursFollowNav DirectoriesAreSections
\* The build ends.
CHECK_DEADLOCK FALSE
